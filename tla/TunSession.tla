------------------------------ MODULE TunSession ------------------------------
(***************************************************************************)
(* One TUN session as xraytun-helper runs it: bring_up, the two-phase      *)
(* commit, rollback with its re-check, the snapshot on disk, and start-up  *)
(* recovery.  A step is one command to the system or one write of the      *)
(* snapshot, so the helper can be killed between any two of them.          *)
(* Requests are served one at a time here: the helper holds its state lock *)
(* through every one of these handlers but TunUp.                          *)
(***************************************************************************)
EXTENDS SystemNetwork

CONSTANTS
    BypassPlan,   \* the bypass and scoped-default routes, in install order
    CapturePlan,  \* the capture routes, in install order
    DnsPlan,      \* the services whose resolvers the session changes
    DeferModes,   \* the values of defer_default_routes requests carry
    InitTable, InitDns, InitTrusted,  \* the machine before the first session
    NoSnap,       \* no snapshot file / no session in memory
    Max           \* bounds: how often each kind of Bounded event may happen

Bounded == {"crash", "fault", "silent", "net", "up", "anchor"}

RouteRec  == [dest : Dest, via : Via, replaced : Via]
DnsRec    == [svc : Service, servers : SUBSET Resolver]
AnchorRec == [fp : Anchor, existed : BOOLEAN]
PlanRec   == [dest : Dest, critical : BOOLEAN]

Snapshot ==
    [state     : {"BringingUp", "Up"},
     iface     : Tun,
     gw        : Gateway,
     installed : Seq(RouteRec),
     pending   : Seq(RouteRec),
     dns       : Seq(DnsRec),
     anchors   : SUBSET AnchorRec]

ASSUME PlanAssumption ==
    /\ BypassPlan \in Seq([dest : Dest \ Capture, critical : BOOLEAN])
    /\ \A i \in 1 .. Len(BypassPlan) : BypassPlan[i].critical => BypassPlan[i].dest # Default
    /\ CapturePlan \in Seq([dest : Capture, critical : {TRUE}])
    /\ \A i, j \in 1 .. Len(CapturePlan) : CapturePlan[i].dest = CapturePlan[j].dest => i = j
    /\ DnsPlan \in Seq(Service)
    /\ \A i, j \in 1 .. Len(DnsPlan) : DnsPlan[i] = DnsPlan[j] => i = j
    /\ DeferModes \subseteq BOOLEAN

ASSUME InitAssumption ==
    /\ InitTable \in [Dest -> Via \ Tun]
    /\ InitDns \in [Service -> SUBSET Resolver]
    /\ InitTrusted \subseteq Anchor

ASSUME BoundsAssumption == Max \in [Bounded -> Nat]

ASSUME NoSnapAssumption == NoSnap \notin Snapshot

VARIABLES
    table,    \* the route table
    dns,      \* the resolvers of each service
    trusted,  \* the anchors in the system keychain
    holders,  \* who holds a descriptor of each utun
    disk,     \* helper-session.json
    mem,      \* State.session in the helper
    snap,     \* the snapshot the running handler works on
    plan,     \* routes the running handler has still to install
    left,     \* records the running rollback has still to handle
    ok,       \* no step of the running rollback has failed
    added,    \* the anchor the running InstallTrustAnchor put in the keychain
    pc, op,   \* where the helper is, and in which handler
    used,     \* how many Bounded events have happened
    lost      \* history: keys whose only record was dropped (crash, overwrite)

system == <<table, dns, trusted, holders>>
work   == <<snap, plan, left, ok, added, pc, op>>
vars   == <<system, disk, mem, work, used, lost>>

------------------------------------------------------------------------------
(* Helpers *)

Spend(b) == used[b] < Max[b] /\ used' = [used EXCEPT ![b] = @ + 1]
Fault    == Spend("fault")    \* a command or a write reports an error
Silent   == Spend("silent")   \* a command exits 0 without effect, or the
                              \* route table cannot be read and counts as empty

Routes(s)     == s.installed \o s.pending
Count(s)      == Len(Routes(s)) + Len(s.dns)
Records(s)    == IF s = NoSnap THEN {}
                 ELSE {Routes(s)[i] : i \in 1 .. Len(Routes(s))}
DnsServices(s) == IF s = NoSnap THEN {} ELSE {s.dns[i].svc : i \in 1 .. Len(s.dns)}
Anchors(s)    == IF s = NoSnap THEN {} ELSE s.anchors
Stale(s)      == s.state = "BringingUp" \/ s.pending # <<>>
Ours(recs)    == {r.fp : r \in {x \in recs : ~x.existed}}

Idle ==
    /\ pc' = "idle" /\ op' = "none" /\ snap' = NoSnap
    /\ plan' = <<>> /\ left' = 0 /\ ok' = TRUE /\ added' = {}

Rollback(s) ==
    /\ snap' = s /\ plan' = <<>> /\ left' = Count(s) /\ ok' = TRUE
    /\ pc' = "anchors" /\ UNCHANGED added

(* A failed step of bring_up or commit: the handler gives the session up   *)
(* and rolls back the copy of the snapshot it holds.                       *)
Abort == Rollback(snap) /\ mem' = NoSnap /\ UNCHANGED <<op, disk, lost>>

CloseHelper(units) ==
    /\ holders' = Close(holders, "helper", units)
    /\ table' = Sweep(table, holders')

------------------------------------------------------------------------------
Init ==
    /\ table = InitTable /\ dns = InitDns /\ trusted = InitTrusted
    /\ holders = [t \in Tun |-> {}]
    /\ disk = NoSnap /\ mem = NoSnap /\ snap = NoSnap
    /\ plan = <<>> /\ left = 0 /\ ok = TRUE /\ added = {}
    /\ pc = "idle" /\ op = "none"
    /\ used = [b \in Bounded |-> 0]
    /\ lost = {}

------------------------------------------------------------------------------
(* bring_up: create the utun, write the first snapshot over whatever file  *)
(* is there, keeping only the anchors it recorded.                         *)
(* Mutant: bring_up starts from an empty snapshot. *)
NewSnapshotBare(t) ==
    [state |-> "BringingUp", iface |-> t, gw |-> table[Default],
     installed |-> <<>>, pending |-> <<>>, dns |-> <<>>, anchors |-> {}]

NewSnapshot(t) ==
    [state |-> "BringingUp", iface |-> t, gw |-> table[Default],
     installed |-> <<>>, pending |-> <<>>, dns |-> <<>>,
     anchors |-> Anchors(disk)]

TunUp(t, defer) ==
    /\ pc = "idle" /\ mem = NoSnap /\ holders[t] = {}
    /\ table[Default] \in Gateway
    /\ Spend("up")
    /\ snap' = NewSnapshot(t) /\ disk' = NewSnapshot(t)
    /\ lost' = lost \cup {r.dest : r \in Records(disk)} \cup DnsServices(disk)
    /\ holders' = [holders EXCEPT ![t] = {"helper"}]
    /\ plan' = IF defer THEN BypassPlan ELSE BypassPlan \o CapturePlan
    /\ op' = IF defer THEN "prepare" ELSE "up"
    /\ pc' = "apply"
    /\ UNCHANGED <<table, dns, trusted, mem, left, ok, added>>

(* install_route_or_skip and the loop of commit_routes_and_dns: look up    *)
(* what the prefix had (an unreadable table counts as nothing), then add.  *)
InstallRoute ==
    /\ pc = "apply" /\ plan # <<>>
    /\ LET d   == Head(plan).dest
           now == table[PrefixRow(d)]
           via == IF d \in Capture THEN snap.iface ELSE snap.gw
       IN  \E seen \in {now, NoRoute} :
             /\ IF seen = now THEN UNCHANGED used ELSE Silent
             /\ table' = [table EXCEPT ![d] = via]
             /\ snap' = [snap EXCEPT !.installed =
                   Append(@, [dest |-> d, via |-> via, replaced |-> seen])]
    /\ plan' = Tail(plan)
    /\ pc' = "record"
    /\ UNCHANGED <<dns, trusted, holders, disk, mem, left, ok, added, op, lost>>

(* Mutant: every route is treated as non-critical. *)
RouteFailsSkip ==
    /\ pc = "apply" /\ plan # <<>> /\ Fault
    /\ plan' = Tail(plan)
    /\ UNCHANGED <<system, disk, mem, snap, left, ok, added, pc, op, lost>>

RouteFails ==
    /\ pc = "apply" /\ plan # <<>> /\ Fault
    /\ IF Head(plan).critical
       THEN Abort
       ELSE plan' = Tail(plan)
            /\ UNCHANGED <<disk, mem, snap, left, ok, added, pc, op, lost>>
    /\ UNCHANGED system

SaveRoute ==
    /\ pc = "record" /\ pc' = "apply" /\ disk' = snap
    /\ UNCHANGED <<system, mem, snap, plan, left, ok, added, op, used, lost>>

SaveRouteFails ==
    /\ pc = "record" /\ Fault /\ Abort /\ UNCHANGED system

(* netif::configure_address comes before the first route.                  *)
ConfigureFails ==
    /\ pc = "apply" /\ op \in {"prepare", "up"} /\ snap.installed = <<>>
    /\ plan = (IF op = "prepare" THEN BypassPlan ELSE BypassPlan \o CapturePlan)
    /\ Fault /\ Abort /\ UNCHANGED system

(* Two-phase start: each capture is recorded as pending, not installed.    *)
DeferTurn == pc = "apply" /\ plan = <<>> /\ op = "prepare"

Deferred ==
    [snap EXCEPT !.pending = Append(@,
        [dest |-> CapturePlan[Len(@) + 1].dest, via |-> snap.iface,
         replaced |-> NoRoute])]

DeferRoute ==
    /\ DeferTurn /\ Len(snap.pending) < Len(CapturePlan)
    /\ snap' = Deferred /\ disk' = Deferred
    /\ UNCHANGED <<system, mem, plan, left, ok, added, pc, op, used, lost>>

DeferRouteFails ==
    /\ DeferTurn /\ Len(snap.pending) < Len(CapturePlan) /\ Fault
    /\ Rollback(Deferred) /\ mem' = NoSnap
    /\ UNCHANGED <<system, disk, op, lost>>

(* The prepared session stays BringingUp on disk and goes to memory.       *)
Prepared ==
    /\ DeferTurn /\ Len(snap.pending) >= Len(CapturePlan)
    /\ mem' = snap /\ Idle
    /\ UNCHANGED <<system, disk, used, lost>>

------------------------------------------------------------------------------
(* apply_dns: back up, save, and only then point the service at the tunnel. *)
(* Mutant: DNS is switched before the last route is in. *)
DnsTurnEarly == pc = "apply" /\ Len(plan) <= 1 /\ op \in {"up", "commit"}

DnsTurn == pc = "apply" /\ plan = <<>> /\ op \in {"up", "commit"}

BackedUp ==
    LET s == DnsPlan[Len(snap.dns) + 1]
    IN  [snap EXCEPT !.dns = Append(@, [svc |-> s, servers |-> Effective(dns[s])])]

(* Mutant: the backup is pushed but not written before set_dns. *)
BackupDnsUnsaved ==
    /\ DnsTurn /\ Len(snap.dns) < Len(DnsPlan)
    /\ snap' = BackedUp
    /\ pc' = "setdns"
    /\ UNCHANGED <<system, disk, mem, plan, left, ok, added, op, used, lost>>

BackupDns ==
    /\ DnsTurn /\ Len(snap.dns) < Len(DnsPlan)
    /\ snap' = BackedUp /\ disk' = BackedUp
    /\ pc' = "setdns"
    /\ UNCHANGED <<system, mem, plan, left, ok, added, op, used, lost>>

BackupDnsFails ==
    /\ DnsTurn /\ Len(snap.dns) < Len(DnsPlan) /\ Fault
    /\ \E s \in {snap, BackedUp} : Rollback(s)
    /\ mem' = NoSnap
    /\ UNCHANGED <<system, disk, op, lost>>

SetDns ==
    /\ pc = "setdns"
    /\ dns' = [dns EXCEPT ![snap.dns[Len(snap.dns)].svc] = {Sentinel}]
    /\ pc' = "apply"
    /\ UNCHANGED <<table, trusted, holders, disk, mem, snap, plan, left, ok, added, op,
                   used, lost>>

SetDnsFails == pc = "setdns" /\ Fault /\ Abort /\ UNCHANGED system

MarkUp ==
    /\ DnsTurn /\ Len(snap.dns) >= Len(DnsPlan)
    /\ disk' = [snap EXCEPT !.state = "Up"]
    /\ mem' = [snap EXCEPT !.state = "Up"]
    /\ Idle
    /\ UNCHANGED <<system, used, lost>>

(* The last save of a commit rolls back when it fails; that of a one-phase *)
(* bring_up returns the error as it is and drops the device.               *)
MarkUpFails ==
    /\ DnsTurn /\ Len(snap.dns) >= Len(DnsPlan) /\ Fault
    /\ \/ op = "commit" /\ Abort /\ UNCHANGED system
       \/ /\ op = "up" /\ CloseHelper({snap.iface}) /\ Idle /\ mem' = NoSnap
          /\ UNCHANGED <<dns, trusted, disk, lost>>

------------------------------------------------------------------------------
(* Requests on a live session *)

CommitRoutes ==
    /\ pc = "idle" /\ mem # NoSnap /\ mem.pending # <<>>
    /\ snap' = [mem EXCEPT !.pending = <<>>]
    /\ plan' = [i \in 1 .. Len(mem.pending) |->
                  [dest |-> mem.pending[i].dest, critical |-> TRUE]]
    /\ pc' = "apply" /\ op' = "commit"
    /\ UNCHANGED <<system, disk, mem, left, ok, added, used, lost>>

TakeTunFd ==
    /\ pc = "idle" /\ mem # NoSnap
    /\ holders' = [holders EXCEPT ![mem.iface] = @ \cup {"app"}]
    /\ UNCHANGED <<table, dns, trusted, disk, mem, work, used, lost>>

TunDown ==
    /\ pc = "idle" /\ mem # NoSnap
    /\ Rollback(mem) /\ mem' = NoSnap /\ op' = "down"
    /\ UNCHANGED <<system, disk, used, lost>>

(* Restore: tear down the live session, then force_cleanup the file.       *)
Restore ==
    /\ pc = "idle"
    /\ \/ mem # NoSnap /\ Rollback(mem) /\ op' = "restore"
       \/ mem = NoSnap /\ disk # NoSnap /\ Rollback(disk) /\ op' = "force"
    /\ mem' = NoSnap
    /\ UNCHANGED <<system, disk, used, lost>>

(* The anchor goes into the keychain first; a failed save takes it back    *)
(* out, but the record stays in the session.                               *)
InstallAnchor(a) ==
    /\ pc = "idle" /\ mem # NoSnap /\ Spend("anchor")
    /\ snap' = [mem EXCEPT !.anchors =
                  @ \cup {[fp |-> a, existed |-> a \in trusted]}]
    /\ trusted' = trusted \cup {a} /\ added' = {a} \ trusted
    /\ pc' = "anchorsave" /\ op' = "install"
    /\ UNCHANGED <<table, dns, holders, disk, mem, plan, left, ok, lost>>

(* The record found first decides: one with existed = FALSE always comes   *)
(* before any other of the same fingerprint.                               *)
RemoveAnchor(a) ==
    /\ pc = "idle" /\ mem # NoSnap /\ Spend("anchor")
    /\ LET recs == {r \in mem.anchors : r.fp = a}
       IN  /\ trusted' = IF recs # {} /\ Ours(recs) = {} THEN trusted
                         ELSE trusted \ {a}
           /\ snap' = [mem EXCEPT !.anchors = @ \ recs]
    /\ pc' = "anchorsave" /\ op' = "remove"
    /\ UNCHANGED <<table, dns, holders, disk, mem, plan, left, ok, added, lost>>

SaveAnchors ==
    /\ pc = "anchorsave" /\ disk' = snap /\ mem' = snap /\ Idle
    /\ UNCHANGED <<system, used, lost>>

SaveAnchorsFails ==
    /\ pc = "anchorsave" /\ Fault /\ mem' = snap /\ Idle
    /\ trusted' = trusted \ added
    /\ UNCHANGED <<table, dns, holders, disk, lost>>

------------------------------------------------------------------------------
(* rollback: anchors, then DNS, then the routes in reverse.  A step that   *)
(* does not take effect either says so (ok becomes FALSE) or exits 0.      *)
Missed == (Fault /\ ok' = FALSE) \/ (Silent /\ UNCHANGED ok)

UndoAnchors ==
    /\ pc = "anchors"
    /\ \E bad \in SUBSET Ours(snap.anchors) :
         /\ \/ bad = {} /\ UNCHANGED <<used, ok>>
            \/ bad # {} /\ Missed
         /\ trusted' = trusted \ (Ours(snap.anchors) \ bad)
    /\ pc' = "undo"
    /\ UNCHANGED <<table, dns, holders, disk, mem, snap, plan, left, op, added, lost>>

(* Mutant: a service is handed to DHCP, whatever its record says. *)
UndoDnsDhcp ==
    /\ pc = "undo" /\ left > Len(Routes(snap))
    /\ LET b == snap.dns[left - Len(Routes(snap))] IN dns' = [dns EXCEPT ![b.svc] = {}]
    /\ left' = left - 1
    /\ UNCHANGED <<table, trusted, holders, disk, mem, snap, plan, ok, pc, op, added,
                   used, lost>>

UndoDns ==
    /\ pc = "undo" /\ left > Len(Routes(snap))
    /\ LET b == snap.dns[left - Len(Routes(snap))]
       IN  \/ dns' = [dns EXCEPT ![b.svc] = b.servers] /\ UNCHANGED <<used, ok>>
           \/ Missed /\ UNCHANGED dns
    /\ left' = left - 1
    /\ UNCHANGED <<table, trusted, holders, disk, mem, snap, plan, pc, op, added, lost>>

(* Mutant: delete only, never restore what was replaced. *)
DeleteRouteOnly ==
    /\ pc = "undo" /\ left \in 1 .. Len(Routes(snap))
    /\ LET r == Routes(snap)[left] IN table' = Delete(table, r.dest, r.via)
    /\ left' = left - 1
    /\ UNCHANGED <<dns, trusted, holders, disk, mem, snap, plan, ok, added, pc,
                   op, used, lost>>

(* Mutant: the routes are undone in the order they were installed in. *)
DeleteRouteForward ==
    /\ pc = "undo" /\ left \in 1 .. Len(Routes(snap))
    /\ LET r == Routes(snap)[Len(Routes(snap)) - left + 1]
       IN  table' = Delete(table, r.dest, r.via)
    /\ left' = left - 1
    /\ UNCHANGED <<dns, trusted, holders, disk, mem, snap, plan, ok, added, pc,
                   op, used, lost>>

DeleteRoute ==
    /\ pc = "undo" /\ left \in 1 .. Len(Routes(snap))
    /\ LET r == Routes(snap)[left]
       IN  /\ \/ table' = Delete(table, r.dest, r.via) /\ UNCHANGED <<used, ok>>
              \/ Missed /\ UNCHANGED table
           /\ IF r.replaced = NoRoute
              THEN left' = left - 1 /\ pc' = "undo"
              ELSE left' = left /\ pc' = "restore"
    /\ UNCHANGED <<dns, trusted, holders, disk, mem, snap, plan, op, added, lost>>

(* Put back what the install replaced; a route over a utun that is gone    *)
(* cannot be added.                                                        *)
RestoreRoute ==
    /\ pc = "restore"
    /\ LET r == Routes(snap)[left]
       IN  \/ /\ Live(holders, r.replaced)
              /\ table' = [table EXCEPT ![PrefixRow(r.dest)] = r.replaced]
              /\ UNCHANGED <<used, ok>>
           \/ ~Live(holders, r.replaced) /\ ok' = FALSE /\ UNCHANGED <<table, used>>
           \/ Missed /\ UNCHANGED table
    /\ left' = left - 1 /\ pc' = "undo"
    /\ UNCHANGED <<dns, trusted, holders, disk, mem, snap, plan, op, added, lost>>

(* The re-check runs only when every command reported success.             *)
SkipChecks ==
    /\ pc = "undo" /\ left = 0 /\ ~ok /\ pc' = "done"
    /\ UNCHANGED <<system, disk, mem, snap, plan, left, ok, added, op, used, lost>>

HadCapture(s) ==
    \E i \in 1 .. Len(Routes(s)) :
        Routes(s)[i].dest \in Audited /\ Routes(s)[i].via = s.iface

CapturesGone(s, tab) == HadCapture(s) => \A c \in Audited : tab[c] # s.iface

(* A missing default route is re-added once; an unreadable table is not    *)
(* taken for a capture left behind.                                        *)
(* Mutant: a missing default route is reported but not re-added. *)
CheckRoutesNoRetry ==
    /\ pc = "undo" /\ left = 0 /\ ok
    /\ ok' = (Routes(snap) # <<>> => /\ table[Default] \in Gateway
                                     /\ CapturesGone(snap, table))
    /\ left' = Len(snap.dns) /\ pc' = "verify"
    /\ UNCHANGED <<system, disk, mem, snap, plan, added, op, used, lost>>

CheckRoutes ==
    /\ pc = "undo" /\ left = 0 /\ ok
    /\ LET touched == Routes(snap) # <<>>
           missing == touched /\ table[Default] = NoRoute
       IN  \/ /\ table' = IF missing THEN [table EXCEPT ![Default] = snap.gw]
                          ELSE table
              /\ \/ /\ ok' = (touched => /\ table'[Default] \in Gateway
                                         /\ CapturesGone(snap, table'))
                    /\ UNCHANGED used
                 \/ /\ HadCapture(snap) /\ Silent
                    /\ ok' = (table'[Default] \in Gateway)
           \/ touched /\ Fault /\ ok' = FALSE /\ UNCHANGED table
    /\ left' = Len(snap.dns) /\ pc' = "verify"
    /\ UNCHANGED <<dns, trusted, holders, disk, mem, snap, plan, op, added, lost>>

(* verify_dns_is_back: every recorded service, in the order of the         *)
(* records, must read as its backup; one retry.                            *)
(* Mutant: the exit code of networksetup is believed. *)
CheckDnsTrusting ==
    /\ pc = "verify" /\ left > 0 /\ left' = 0
    /\ UNCHANGED <<system, disk, mem, snap, plan, ok, added, pc, op, used, lost>>

CheckDns ==
    /\ pc = "verify" /\ left > 0
    /\ LET b == snap.dns[Len(snap.dns) - left + 1]
       IN  /\ \/ dns' = [dns EXCEPT ![b.svc] = b.servers]
              \/ dns[b.svc] # b.servers /\ UNCHANGED dns
           /\ \/ dns'[b.svc] = b.servers /\ UNCHANGED <<used, ok>>
              \/ dns[b.svc] # b.servers /\ Fault /\ ok' = FALSE
    /\ left' = left - 1
    /\ UNCHANGED <<table, trusted, holders, disk, mem, snap, plan, pc, op, added, lost>>

Clear ==
    /\ pc = "verify" /\ left = 0
    /\ \/ ok /\ disk' = NoSnap /\ UNCHANGED <<ok, used>>
       \/ ok /\ Fault /\ ok' = FALSE /\ UNCHANGED disk
       \/ ~ok /\ UNCHANGED <<disk, ok, used>>
    /\ pc' = "done"
    /\ UNCHANGED <<system, mem, snap, plan, left, op, added, lost>>

------------------------------------------------------------------------------
(* What each caller of rollback does when it returns *)

(* What a handler has changed but not written down.  It is lost when the   *)
(* helper is killed, and when a rollback from memory fails.                *)
Unwritten ==
    added \cup IF snap = NoSnap \/ disk = NoSnap THEN {}
               ELSE {r.dest : r \in Records(snap) \ Records(disk)}

Forget == lost' = lost \cup Unwritten

EndSession ==
    /\ pc = "done" /\ op \in {"prepare", "up", "down"}
    /\ CloseHelper({snap.iface}) /\ Idle /\ Forget
    /\ UNCHANGED <<dns, trusted, disk, mem, used>>

(* commit_routes drops the session without closing its descriptor;         *)
(* force_cleanup has none.                                                 *)
EndCommit ==
    /\ pc = "done" /\ op \in {"commit", "force"} /\ Idle /\ Forget
    /\ UNCHANGED <<system, disk, mem, used>>

EndRestore ==
    /\ pc = "done" /\ op = "restore"
    /\ CloseHelper({snap.iface})
    /\ IF disk = NoSnap THEN Idle ELSE Rollback(disk) /\ op' = "force"
    /\ UNCHANGED <<dns, trusted, disk, mem, used, lost>>

EndBoot ==
    /\ pc = "done" /\ op = "boot" /\ pc' = "reconcile"
    /\ UNCHANGED <<system, disk, mem, snap, plan, left, ok, added, op, used, lost>>

Exit ==
    /\ CloseHelper(Tun)
    /\ pc' = "down" /\ op' = "none" /\ mem' = NoSnap /\ snap' = NoSnap
    /\ plan' = <<>> /\ left' = 0 /\ ok' = TRUE /\ added' = {}
    /\ UNCHANGED <<dns, trusted, disk>>

(* graceful_shutdown: roll back what the file records, then exit.          *)
Sigterm ==
    /\ pc = "idle"
    /\ \/ disk = NoSnap /\ Exit
       \/ /\ disk # NoSnap /\ Rollback(disk) /\ mem' = NoSnap /\ op' = "term"
          /\ UNCHANGED <<system, disk>>
    /\ UNCHANGED <<used, lost>>

EndTerm ==
    /\ pc = "done" /\ op = "term" /\ Exit /\ UNCHANGED <<used, lost>>

------------------------------------------------------------------------------
(* kill -9 *)
Crash ==
    /\ pc # "down" /\ Spend("crash") /\ Exit /\ Forget

(* recover_from_crash = restore_stale, before the socket is opened.        *)
Boot ==
    /\ pc = "down" /\ op' = "boot" /\ snap' = disk
    /\ pc' = IF disk = NoSnap THEN "reconcile"
             ELSE IF disk.anchors = {} THEN "probe" ELSE "bootanchors"
    /\ UNCHANGED <<system, disk, mem, plan, left, ok, added, used, lost>>

BootAnchors ==
    /\ pc = "bootanchors"
    /\ \E bad \in SUBSET Ours(snap.anchors) :
         /\ IF bad = {} THEN UNCHANGED used ELSE Fault
         /\ trusted' = trusted \ (Ours(snap.anchors) \ bad)
         /\ snap' = [snap EXCEPT !.anchors = {r \in @ : ~r.existed /\ r.fp \in bad}]
    /\ pc' = "bootsave"
    /\ UNCHANGED <<table, dns, holders, disk, mem, plan, left, ok, added, op, lost>>

SaveBootAnchors ==
    /\ pc = "bootsave" /\ pc' = "probe"
    /\ \/ disk' = snap /\ UNCHANGED used
       \/ Fault /\ UNCHANGED disk
    /\ UNCHANGED <<system, mem, snap, plan, left, ok, added, op, lost>>

(* A finished session whose interface is still there is left running.      *)
(* Mutant: the snapshot's state flag decides, not the interface. *)
LeaveRunningByFlag ==
    /\ pc = "probe" /\ ~Stale(snap) /\ Idle
    /\ UNCHANGED <<system, disk, mem, used, lost>>

LeaveRunning ==
    /\ pc = "probe"
    /\ \/ holders[snap.iface] # {} /\ ~Stale(snap) /\ UNCHANGED used
       \/ Fault
    /\ Idle
    /\ UNCHANGED <<system, disk, mem, lost>>

RollbackStale ==
    /\ pc = "probe" /\ (holders[snap.iface] = {} \/ Stale(snap))
    /\ Rollback(snap)
    /\ UNCHANGED <<system, disk, mem, op, used, lost>>

(* reconcile_dns_residue: a service left on the sentinel by a dead session *)
(* gets its recorded resolvers back, or DHCP when no record is left.       *)
Original(s, svc) ==
    IF svc \in DnsServices(s)
    THEN LET last == CHOOSE i \in 1 .. Len(s.dns) :
                       /\ s.dns[i].svc = svc
                       /\ \A j \in i + 1 .. Len(s.dns) : s.dns[j].svc # svc
         IN  s.dns[last].servers
    ELSE {}

Reconcile ==
    /\ pc = "reconcile"
    /\ \/ /\ disk # NoSnap => holders[disk.iface] = {}
          /\ \E bad \in SUBSET {s \in Service : Sentinel \in dns[s]} :
               /\ IF bad = {} THEN UNCHANGED used ELSE Fault
               /\ dns' = [s \in Service |->
                            IF Sentinel \in dns[s] /\ s \notin bad
                            THEN Original(disk, s) ELSE dns[s]]
       \/ /\ disk # NoSnap /\ holders[disk.iface] # {}
          /\ UNCHANGED <<dns, used>>
    /\ Idle
    /\ UNCHANGED <<table, trusted, holders, disk, mem, lost>>

------------------------------------------------------------------------------
(* The rest of the machine *)

AppExit ==
    /\ \E t \in Tun : "app" \in holders[t]
    /\ holders' = Close(holders, "app", Tun)
    /\ table' = Sweep(table, holders')
    /\ UNCHANGED <<dns, trusted, disk, mem, work, used, lost>>

NetworkSwitch(v) ==
    /\ v # table[Default] /\ Spend("net")
    /\ table' = [table EXCEPT ![Default] = v]
    /\ UNCHANGED <<dns, trusted, holders, disk, mem, work, lost>>

------------------------------------------------------------------------------
Apply ==
    \/ InstallRoute \/ RouteFails \/ SaveRoute \/ SaveRouteFails
    \/ ConfigureFails \/ DeferRoute \/ DeferRouteFails \/ Prepared
    \/ BackupDns \/ BackupDnsFails
    \/ SetDns \/ SetDnsFails \/ MarkUp \/ MarkUpFails
    \/ SaveAnchors \/ SaveAnchorsFails

Undo ==
    \/ UndoAnchors \/ UndoDns \/ DeleteRoute \/ RestoreRoute
    \/ SkipChecks \/ CheckRoutes \/ CheckDns \/ Clear
    \/ EndSession \/ EndCommit \/ EndRestore \/ EndBoot \/ EndTerm

Recover ==
    \/ Boot \/ BootAnchors \/ SaveBootAnchors
    \/ LeaveRunning \/ RollbackStale \/ Reconcile

Request ==
    \/ \E t \in Tun, defer \in DeferModes : TunUp(t, defer)
    \/ CommitRoutes \/ TakeTunFd \/ TunDown \/ Restore \/ Sigterm
    \/ \E a \in Anchor : InstallAnchor(a) \/ RemoveAnchor(a)

Environment ==
    \/ Crash \/ AppExit
    \/ \E v \in Gateway \cup {NoRoute} : NetworkSwitch(v)

Next == Request \/ Apply \/ Undo \/ Recover \/ Environment

Spec == Init /\ [][Next]_vars

(* launchd restarts the helper, and a handler that started runs on.        *)
FairSpec == Spec /\ WF_vars(Apply \/ Undo \/ Recover)

------------------------------------------------------------------------------
(* Correctness *)

(* Every variable stays in its range; in particular no DNS record ever     *)
(* holds the sentinel as if it were the user's resolver (dns::backup).     *)
TypeOK ==
    /\ table \in [Dest -> Via]
    /\ dns \in [Service -> SUBSET (Resolver \cup {Sentinel})]
    /\ trusted \in SUBSET Anchor
    /\ holders \in [Tun -> SUBSET Holder]
    /\ disk \in Snapshot \cup {NoSnap}
    /\ mem \in Snapshot \cup {NoSnap}
    /\ snap \in Snapshot \cup {NoSnap}
    /\ plan \in Seq(PlanRec)
    /\ left \in Nat
    /\ ok \in BOOLEAN
    /\ added \in SUBSET Anchor
    /\ pc \in {"idle", "apply", "record", "setdns", "anchorsave", "anchors",
              "undo", "restore", "verify", "done", "down", "bootanchors",
              "bootsave", "probe", "reconcile"}
    /\ op \in {"none", "prepare", "up", "commit", "install", "remove", "down",
              "restore", "force", "term", "boot"}
    /\ used \in [Bounded -> Nat]
    /\ lost \in SUBSET (Dest \cup Service \cup Anchor)

(* However the helper is killed and whatever fails, a service that points  *)
(* at the tunnel's resolver has its original resolvers on disk -- unless   *)
(* a later bring_up has overwritten that record.                           *)
SentinelRecorded ==
    \A s \in Service :
        Sentinel \in dns[s] => s \in DnsServices(disk) \cup lost

(* The snapshot file is removed only when every service it records is off  *)
(* the sentinel, also when networksetup lied about it (rollback step 4).   *)
ClearedMeansDnsBack ==
    [][disk # NoSnap /\ disk' = NoSnap =>
         \A s \in DnsServices(disk) : Sentinel \notin dns'[s]]_vars

NoFailure == used["fault"] = 0 /\ used["silent"] = 0

(* The order of commit (routes, then DNS) and of rollback (DNS, then       *)
(* routes): while a service resolves through the tunnel and the tunnel     *)
(* exists, every capture route points into it.                             *)
DnsInsideTunnel ==
    (/\ NoFailure /\ lost = {} /\ disk # NoSnap
     /\ holders[disk.iface] # {}
     /\ \E s \in Service : Sentinel \in dns[s])
    => \A i \in 1 .. Len(CapturePlan) : table[CapturePlan[i].dest] = disk.iface

CriticalKeys ==
    {BypassPlan[i].dest : i \in {j \in 1 .. Len(BypassPlan) : BypassPlan[j].critical}}

(* The session a handler is installing for, else the one in memory.        *)
Serving ==
    IF pc \in {"apply", "record", "setdns", "anchorsave"} THEN snap
    ELSE IF pc = "idle" THEN mem ELSE NoSnap

(* A session never takes over the default route without the host routes    *)
(* to its proxy servers, whatever fails on the way: without them the       *)
(* proxy's own traffic would loop into the tunnel.                         *)
NoRoutingLoop ==
    Serving # NoSnap =>
        \A c \in Capture, d \in CriticalKeys :
            table[c] = Serving.iface => table[d] = Serving.gw

(* The same on the way down: rollback removes the routes in the reverse of *)
(* the order they were installed in.                                       *)
CaptureGoesFirst ==
    (NoFailure /\ lost = {}) =>
        \A c \in Capture, d \in CriticalKeys :
            table[c] \in Tun => table[d] # NoRoute

(* Once no session is recorded anywhere, every route and every resolver is *)
(* what it was before the first session, but for keys whose only record    *)
(* was dropped.  Reported failures do not matter; silent ones may.         *)
RestoredExactly ==
    (/\ pc = "idle" /\ mem = NoSnap /\ disk = NoSnap
     /\ used["silent"] = 0 /\ used["net"] = 0)
    => /\ \A d \in Dest \ lost : table[d] = InitTable[d]
       /\ \A s \in Service \ lost : dns[s] = InitDns[s]

(* A root certificate the helper put into the keychain is always on record *)
(* until it is taken out again, across crashes and later sessions.         *)
AnchorsRecorded ==
    used["silent"] = 0 =>
        trusted \subseteq InitTrusted \cup lost \cup added \cup Ours(Anchors(disk))

(* launchd restarts a helper that died; when nobody holds the tunnel any   *)
(* more, start-up recovery takes every service off the sentinel ...        *)
Dead == pc = "down" /\ \A t \in Tun : holders[t] = {}

SentinelHeals == Dead ~> \A s \in Service : Sentinel \notin dns[s]

(* ... and completes the rollback of the session that was recorded.        *)
SnapshotHeals == (Dead /\ lost = {}) ~> (disk = NoSnap)

------------------------------------------------------------------------------
(* The abstract promise *)

(* The lists of resolvers the file records for each service.               *)
Noted ==
    [s \in Service |->
        IF disk = NoSnap THEN {}
        ELSE {disk.dns[i].servers : i \in {j \in 1 .. Len(disk.dns) : disk.dns[j].svc = s}}]

Loan == INSTANCE ResolverLoan
            WITH at <- dns, note <- Noted, session <- used["up"], Before <- InitDns

(* Every step of the helper, a crash, a failed or a silent command         *)
(* included, is one the abstract promise allows, or none of its business:  *)
(* a service is pointed at the tunnel only while the file has its          *)
(* resolvers, gets back exactly what the file says, and the file goes when *)
(* no service it names is on the tunnel.                                   *)
LendsAgainstNotes == Loan!Spec

------------------------------------------------------------------------------
(* Claims of the code that the helper does not keep *)

(* A failed rollback keeps the snapshot so that the next start can retry   *)
(* (controller.rs, bring_up; main.rs, graceful_shutdown): the record of a  *)
(* service still on the sentinel never disappears.                         *)
RetryStaysPossible ==
    [][\A s \in DnsServices(disk) :
         Sentinel \in dns'[s] => s \in DnsServices(disk')]_vars

(* Killed at any moment, the next start reads what was done and rolls it   *)
(* back exactly (controller.rs, module comment).                           *)
KilledAnywhereIsUndone ==
    (/\ pc = "idle" /\ mem = NoSnap /\ disk = NoSnap
     /\ NoFailure /\ used["net"] = 0 /\ used["up"] <= 1)
    => table = InitTable

==============================================================================
