------------------------- MODULE ResolverLoan_proofs -------------------------
(***************************************************************************)
(* A TUN session implements ResolverLoan, for every network, plan and      *)
(* bound: initial states map to initial states, and every step maps to a   *)
(* step of the promise or to a stutter.  What the promise keeps for the    *)
(* first session is then kept by the helper.  The last part is about what  *)
(* every session gives back: its resolvers by the promise, its routes by   *)
(* what the snapshot says of each key of the table.                        *)
(***************************************************************************)
EXTENDS TunSession_proofs

(* The handlers that have written down every backup they hold.             *)
Saved == {"apply", "record", "setdns", "anchorsave", "bootanchors",
          "bootsave", "probe"}

Rolling == {"anchors", "undo", "restore", "verify"}

FollowsPlan(s) ==
    \A i \in 1 .. Len(s.dns) : i \in 1 .. Len(DnsPlan) /\ s.dns[i].svc = DnsPlan[i]

(* A handler writes over the file only what the file says already.         *)
Agrees ==
    /\ pc \in Saved => disk \in Snapshot /\ snap.dns = disk.dns
    /\ pc \in {"idle", "anchorsave"} /\ mem # NoSnap =>
         disk \in Snapshot /\ mem.dns = disk.dns

(* Backups are taken in the order of the plan, once for each service.      *)
InPlanOrder ==
    /\ mem # NoSnap => FollowsPlan(mem)
    /\ pc \in {"apply", "record", "setdns", "anchorsave"} => FollowsPlan(snap)

WholeAnswer == \A s \in Service : dns[s] = {Sentinel} \/ Sentinel \notin dns[s]

(* A record a rollback may act on: it is in the file, or its backup could  *)
(* not be written and the service has not been touched since.              *)
Entitled(r) ==
    \/ r.servers \in Noted[r.svc]
    \/ Noted[r.svc] = {} /\ r.servers = Effective(dns[r.svc])

RollsBackTruth ==
    pc \in Rolling => \A i \in 1 .. Len(snap.dns) : Entitled(snap.dns[i])

LoanOK == Agrees /\ InPlanOrder /\ WholeAnswer /\ RollsBackTruth

(* Only a session leaves a file.                                           *)
Begun == disk # NoSnap => used["up"] > 0

LoanStep == [Loan!Next]_(Loan!vars)

------------------------------------------------------------------------------
LEMMA NotedSame ==
    ASSUME disk \in Snapshot, disk' \in Snapshot, disk'.dns = disk.dns
    PROVE  Noted' = Noted
  BY NoSnapAssumption DEF Noted

LEMMA NotedKept == ASSUME disk' = disk PROVE Noted' = Noted
  BY DEF Noted

LEMMA NotedBlank ==
    ASSUME NEW s \in Service,
           disk \in Snapshot => \A i \in 1 .. Len(disk.dns) : disk.dns[i].svc # s,
           disk \in Snapshot \cup {NoSnap}
    PROVE  Noted[s] = {}
  BY DEF Noted

LEMMA NotedRecord ==
    ASSUME disk \in Snapshot, NEW i \in 1 .. Len(disk.dns)
    PROVE  disk.dns[i].servers \in Noted[disk.dns[i].svc]
<1>1. disk.dns[i] \in DnsRec BY ElementOfSeq DEF Snapshot
<1>. QED BY <1>1, NoSnapAssumption DEF Noted, DnsRec

LEMMA Quiet ==
    ASSUME dns' = dns, Noted' = Noted, used'["up"] = used["up"] PROVE LoanStep
  BY DEF LoanStep, Loan!vars

LEMMA OtherSpend ==
    ASSUME Shape, Fault \/ Silent \/ Spend("crash") \/ Spend("net") \/ Spend("anchor")
    PROVE  used'["up"] = used["up"]
  BY SMT DEF Shape, StoreOK, Fault, Silent, Spend, Bounded

LEMMA RollbackLoan ==
    ASSUME LoanOK, NEW s \in Snapshot, Rollback(s), mem' = NoSnap,
           UNCHANGED <<dns, disk>>,
           \A i \in 1 .. Len(s.dns) : Entitled(s.dns[i])
    PROVE  LoanOK'
<1>1. snap' = s /\ pc' = "anchors" /\ Noted' = Noted BY NotedKept DEF Rollback
<1>2. RollsBackTruth' BY <1>1 DEF RollsBackTruth, Entitled
<1>. QED
  BY <1>1, <1>2 DEF LoanOK, Agrees, InPlanOrder, WholeAnswer, Saved

LEMMA RollbackSaved ==
    ASSUME LoanOK, NEW s \in Snapshot, Rollback(s), mem' = NoSnap,
           UNCHANGED <<dns, disk>>, disk \in Snapshot, s.dns = disk.dns
    PROVE  LoanOK'
<1>1. \A i \in 1 .. Len(s.dns) : Entitled(s.dns[i]) BY NotedRecord DEF Entitled
<1>. QED BY <1>1, RollbackLoan

LEMMA IdleLoan ==
    ASSUME WholeAnswer', Idle,
           \/ mem' = NoSnap
           \/ disk' \in Snapshot /\ mem'.dns = disk'.dns /\ FollowsPlan(mem')
    PROVE  LoanOK'
<1>1. pc' = "idle" BY DEF Idle
<1>. QED
  BY <1>1 DEF LoanOK, Agrees, InPlanOrder, RollsBackTruth, Saved, Rolling, FollowsPlan

LEMMA ExitLoan == ASSUME LoanOK, Exit PROVE LoanOK'
<1>1. pc' = "down" /\ mem' = NoSnap /\ dns' = dns BY DEF Exit
<1>. QED
  BY <1>1 DEF LoanOK, Agrees, InPlanOrder, WholeAnswer, RollsBackTruth, Saved, Rolling

LEMMA LoanInit == Init => LoanOK /\ Loan!Init
<1>. SUFFICES ASSUME Init PROVE LoanOK /\ Loan!Init
  OBVIOUS
<1>1. Noted = [s \in Service |-> {}] BY DEF Init, Noted
<1>2. used["up"] = 0 BY DEF Init, Bounded
<1>. QED
  BY <1>1, <1>2, InitAssumption, SentinelAssumption
     DEF Init, Loan!Init, Loan!Blank, LoanOK, Agrees, InPlanOrder, WholeAnswer,
         RollsBackTruth, Saved, Rolling

------------------------------------------------------------------------------
LEMMA LoanRequest ==
    Shape /\ DnsOK /\ LoanOK /\ Request => LoanOK' /\ LoanStep
<1>. SUFFICES ASSUME Shape, DnsOK, LoanOK, Request PROVE LoanOK' /\ LoanStep
  OBVIOUS
<1>0. disk \in Snapshot \cup {NoSnap} /\ (mem # NoSnap => mem \in Snapshot)
  BY DEF Shape, StoreOK
<1>m. pc = "idle" /\ mem # NoSnap =>
        disk \in Snapshot /\ mem.dns = disk.dns /\ FollowsPlan(mem)
  BY DEF LoanOK, Agrees, InPlanOrder
<1>1. ASSUME NEW t \in Tun, NEW defer \in DeferModes, TunUp(t, defer)
      PROVE  LoanOK' /\ LoanStep
  <2>1. /\ snap' = NewSnapshot(t) /\ disk' = NewSnapshot(t) /\ pc' = "apply"
        /\ mem = NoSnap /\ UNCHANGED <<dns, mem>>
        /\ table[Default] \in Gateway
    BY <1>1 DEF TunUp
  <2>2. disk' \in Snapshot /\ disk'.dns = <<>>
    BY <1>0, <2>1, NewSnapshotType DEF NewSnapshot
  <2>3. Noted' = Loan!Blank
    <3>1. disk' # NoSnap BY <2>2, NoSnapAssumption
    <3>2. \A s \in Service : {disk'.dns[i].servers :
              i \in {j \in 1 .. Len(disk'.dns) : disk'.dns[j].svc = s}} = {}
      BY <2>2
    <3>. QED BY <3>1, <3>2 DEF Noted, Loan!Blank
  <2>4. used'["up"] = used["up"] + 1
    BY <1>1, SMT DEF TunUp, Spend, Shape, StoreOK, Bounded
  <2>5. LoanStep BY <2>1, <2>3, <2>4 DEF LoanStep, Loan!Next, Loan!Begin
  <2>6. FollowsPlan(snap') BY <2>1, <2>2 DEF FollowsPlan
  <2>. QED
    BY <2>1, <2>2, <2>5, <2>6
       DEF LoanOK, Agrees, InPlanOrder, WholeAnswer, RollsBackTruth, FollowsPlan,
           Rolling
<1>s. ASSUME mem # NoSnap, pc = "idle", snap'.dns = mem.dns,
             pc' \in {"apply", "anchorsave"}, UNCHANGED <<dns, mem, disk>>
      PROVE  LoanOK'
  <2>1. FollowsPlan(mem)' /\ FollowsPlan(snap)' BY <1>m, <1>s DEF FollowsPlan
  <2>. QED
    BY <1>m, <1>s, <2>1
       DEF LoanOK, Agrees, InPlanOrder, WholeAnswer, RollsBackTruth, Rolling
<1>2. CASE CommitRoutes
  <2>1. /\ mem # NoSnap /\ pc = "idle" /\ pc' = "apply"
        /\ snap' = [mem EXCEPT !.pending = <<>>]
        /\ UNCHANGED <<dns, mem, disk, used>>
    BY <1>2 DEF CommitRoutes, system
  <2>2. snap'.dns = mem.dns BY <1>0, <2>1 DEF Snapshot
  <2>. QED BY <1>s, <2>1, <2>2, Quiet, NotedKept
<1>3. CASE TakeTunFd
  <2>1. UNCHANGED <<dns, disk, mem, snap, pc, used>> BY <1>3 DEF TakeTunFd, work
  <2>2. Noted' = Noted BY <2>1, NotedKept
  <2>. QED
    BY <2>1, <2>2, Quiet
       DEF LoanOK, Agrees, InPlanOrder, WholeAnswer, RollsBackTruth, Entitled,
           FollowsPlan
<1>4. CASE TunDown
  <2>1. UNCHANGED <<dns, disk, used>> BY <1>4 DEF TunDown, system
  <2>. QED
    BY <1>0, <1>m, <1>4, <2>1, RollbackSaved, Quiet, NotedKept DEF TunDown
<1>5. CASE Restore
  <2>1. UNCHANGED <<dns, disk, used>> BY <1>5 DEF Restore, system
  <2>. QED
    BY <1>0, <1>m, <1>5, <2>1, RollbackSaved, Quiet, NotedKept DEF Restore
<1>6. CASE Sigterm
  <2>1. UNCHANGED <<dns, disk, used>> BY <1>6 DEF Sigterm, system, Exit
  <2>. QED
    BY <1>0, <1>6, <2>1, RollbackSaved, ExitLoan, Quiet, NotedKept DEF Sigterm
<1>a. ASSUME NEW X, mem # NoSnap, snap' = [mem EXCEPT !.anchors = X]
      PROVE  snap'.dns = mem.dns
  BY <1>0, <1>a DEF Snapshot
<1>7. ASSUME NEW a \in Anchor, InstallAnchor(a) PROVE LoanOK' /\ LoanStep
  <2>. DEFINE X == mem.anchors \cup {[fp |-> a, existed |-> a \in trusted]}
  <2>1. /\ mem # NoSnap /\ pc = "idle" /\ snap' = [mem EXCEPT !.anchors = X]
        /\ pc' = "anchorsave" /\ UNCHANGED <<dns, mem, disk>>
        /\ Spend("anchor")
    BY <1>7 DEF InstallAnchor
  <2>. HIDE DEF X
  <2>. QED BY <1>a, <1>s, <2>1, Quiet, NotedKept, OtherSpend
<1>8. ASSUME NEW a \in Anchor, RemoveAnchor(a) PROVE LoanOK' /\ LoanStep
  <2>. DEFINE X == mem.anchors \ {r \in mem.anchors : r.fp = a}
  <2>1. /\ mem # NoSnap /\ pc = "idle" /\ snap' = [mem EXCEPT !.anchors = X]
        /\ pc' = "anchorsave" /\ UNCHANGED <<dns, mem, disk>>
        /\ Spend("anchor")
    BY <1>8 DEF RemoveAnchor
  <2>. HIDE DEF X
  <2>. QED BY <1>a, <1>s, <2>1, Quiet, NotedKept, OtherSpend
<1>. QED
  BY <1>1, <1>2, <1>3, <1>4, <1>5, <1>6, <1>7, <1>8 DEF Request

LEMMA LoanApply ==
    Shape /\ DnsOK /\ LoanOK /\ Begun /\ Apply => LoanOK' /\ LoanStep
<1>. SUFFICES ASSUME Shape, DnsOK, LoanOK, Begun, Apply PROVE LoanOK' /\ LoanStep
  OBVIOUS
<1>0. pc \in {"apply", "record", "setdns", "anchorsave"} =>
        /\ snap \in Snapshot /\ disk \in Snapshot
        /\ snap.dns = disk.dns /\ FollowsPlan(snap)
  BY DEF Shape, WorkOK, BusyHasSnap, LoanOK, Agrees, InPlanOrder, Saved, Working
<1>p. mem # NoSnap => FollowsPlan(mem) BY DEF LoanOK, InPlanOrder
<1>a. ASSUME Abort, UNCHANGED system, Fault,
             pc \in {"apply", "record", "setdns", "anchorsave"}
      PROVE  LoanOK' /\ LoanStep
  <2>1. UNCHANGED <<dns, disk>> BY <1>a DEF Abort, system
  <2>. QED
    BY <1>0, <1>a, <2>1, RollbackSaved, Quiet, NotedKept, OtherSpend DEF Abort
<1>i. ASSUME pc \in {"apply", "record"}, pc' \in {"apply", "record"},
             UNCHANGED <<dns, mem>>, snap' \in Snapshot, disk' \in Snapshot,
             snap'.dns = snap.dns, disk'.dns = snap.dns, used'["up"] = used["up"]
      PROVE  LoanOK' /\ LoanStep
  <2>1. Noted' = Noted BY <1>0, <1>i, NotedSame
  <2>2. FollowsPlan(snap)' BY <1>0, <1>i DEF FollowsPlan
  <2>3. mem' # NoSnap => FollowsPlan(mem)' BY <1>p, <1>i DEF FollowsPlan
  <2>4. LoanStep BY <1>i, <2>1, Quiet
  <2>. QED
    BY <1>i, <2>2, <2>3, <2>4
       DEF LoanOK, Agrees, InPlanOrder, WholeAnswer, RollsBackTruth, Rolling
<1>t. ASSUME pc \in {"apply", "anchorsave"}, Idle, dns' = dns, used'["up"] = used["up"],
             \/ mem' = NoSnap /\ disk' = disk
             \/ /\ mem' \in Snapshot /\ disk' \in Snapshot
                /\ mem'.dns = snap.dns /\ disk'.dns = snap.dns
      PROVE  LoanOK' /\ LoanStep
  <2>1. Noted' = Noted BY <1>0, <1>t, NotedSame, NotedKept
  <2>2. mem' # NoSnap => FollowsPlan(mem') BY <1>0, <1>t DEF FollowsPlan
  <2>3. WholeAnswer' BY <1>t DEF LoanOK, WholeAnswer
  <2>. QED BY <1>t, <2>1, <2>2, <2>3, IdleLoan, Quiet
<1>1. CASE InstallRoute
  <2>1. pc = "apply" /\ pc' = "record" /\ UNCHANGED <<dns, mem, disk>>
    BY <1>1 DEF InstallRoute
  <2>2. PICK X : snap' = [snap EXCEPT !.installed = X]
    BY <1>1 DEF InstallRoute
  <2>3. snap' \in Snapshot
    BY <2>1, ShapeApply DEF Shape, WorkOK, BusyHasSnap, Working
  <2>4. used'["up"] = used["up"]
    <3>1. used' = used \/ Silent BY <1>1 DEF InstallRoute
    <3>. QED BY <3>1, OtherSpend
  <2>. QED BY <1>0, <1>i, <2>1, <2>2, <2>3, <2>4 DEF Snapshot
<1>2. CASE RouteFails
  <2>1. CASE Abort BY <1>2, <1>a, <2>1 DEF RouteFails
  <2>2. CASE ~Abort
    <3>1. pc = "apply" /\ UNCHANGED <<dns, disk, mem, snap, pc>> /\ Fault
      BY <1>2, <2>2 DEF RouteFails, system
    <3>. QED BY <1>0, <1>i, <3>1, OtherSpend
  <2>. QED BY <2>1, <2>2
<1>3. CASE SaveRoute
  <2>1. /\ pc = "record" /\ pc' = "apply" /\ disk' = snap
        /\ UNCHANGED <<dns, mem, snap, used>>
    BY <1>3 DEF SaveRoute, system
  <2>. QED BY <1>0, <1>i, <2>1
<1>4. CASE SaveRouteFails
  BY <1>4, <1>a DEF SaveRouteFails
<1>5. CASE DeferRoute
  <2>1. /\ pc = "apply" /\ pc' = "apply" /\ snap' = Deferred /\ disk' = Deferred
        /\ UNCHANGED <<dns, mem, used>> /\ Len(snap.pending) < Len(CapturePlan)
    BY <1>5 DEF DeferRoute, DeferTurn, system
  <2>. QED BY <1>0, <1>i, <2>1, DeferredType
<1>6. CASE DeferRouteFails
  <2>1. /\ pc = "apply" /\ Rollback(Deferred) /\ mem' = NoSnap /\ Fault
        /\ UNCHANGED <<dns, disk>> /\ Len(snap.pending) < Len(CapturePlan)
    BY <1>6 DEF DeferRouteFails, DeferTurn, system
  <2>. QED
    BY <1>0, <2>1, DeferredType, RollbackSaved, Quiet, NotedKept, OtherSpend
<1>15. CASE Prepared
  <2>1. pc = "apply" /\ mem' = snap /\ Idle /\ UNCHANGED <<dns, disk, used>>
    BY <1>15 DEF Prepared, DeferTurn, system
  <2>. QED BY <1>0, <1>t, <2>1
<1>16. CASE ConfigureFails
  BY <1>16, <1>a DEF ConfigureFails

(* The backup of one more service: its record is the one thing the file    *)
(* does not have yet.                                                      *)
<1>b. ASSUME DnsTurn, Len(snap.dns) < Len(DnsPlan)
      PROVE  LET svc == DnsPlan[Len(snap.dns) + 1]
                 rec == [svc |-> svc, servers |-> Effective(dns[svc])]
             IN  /\ svc \in Service /\ Noted[svc] = {}
                 /\ BackedUp \in Snapshot
                 /\ BackedUp.dns = Append(snap.dns, rec)
                 /\ FollowsPlan(BackedUp)
  <2>. DEFINE n   == Len(snap.dns)
              svc == DnsPlan[n + 1]
              rec == [svc |-> svc, servers |-> Effective(dns[svc])]
  <2>1. pc = "apply" /\ snap \in Snapshot /\ disk \in Snapshot
        /\ snap.dns = disk.dns /\ FollowsPlan(snap)
    BY <1>0, <1>b DEF DnsTurn
  <2>2. snap.dns \in Seq(DnsRec) /\ n \in Nat BY <2>1 DEF Snapshot
  <2>3. svc \in Service /\ n + 1 \in 1 .. Len(DnsPlan)
    BY <1>b, <2>2, PlanAssumption, ElementOfSeq
  <2>4. rec \in DnsRec BY <2>3 DEF DnsRec, Effective, Shape, SystemOK
  <2>5. BackedUp = [snap EXCEPT !.dns = Append(snap.dns, rec)] BY DEF BackedUp
  <2>6. \A j \in 1 .. n : disk.dns[j].svc # svc
    <3>1. SUFFICES ASSUME NEW j \in 1 .. n, snap.dns[j].svc = svc PROVE FALSE
      BY <2>1
    <3>2. j \in 1 .. Len(DnsPlan) /\ DnsPlan[j] = DnsPlan[n + 1]
      BY <2>1, <3>1 DEF FollowsPlan
    <3>3. j = n + 1 BY <2>3, <3>2, PlanAssumption
    <3>. QED BY <2>2, <3>1, <3>3
  <2>7. Noted[svc] = {} BY <2>1, <2>3, <2>6, NotedBlank
  <2>8. rec.svc = DnsPlan[n + 1] OBVIOUS
  <2>. HIDE DEF rec
  <2>9. /\ Append(snap.dns, rec) \in Seq(DnsRec)
        /\ Len(Append(snap.dns, rec)) = n + 1
        /\ \A i \in 1 .. n : Append(snap.dns, rec)[i] = snap.dns[i]
        /\ Append(snap.dns, rec)[n + 1] = rec
    BY <2>2, <2>4, AppendProperties
  <2>10. BackedUp \in Snapshot /\ BackedUp.dns = Append(snap.dns, rec)
    BY <2>1, <2>5, <2>9 DEF Snapshot
  <2>11. FollowsPlan(BackedUp)
    <3>1. SUFFICES ASSUME NEW i \in 1 .. n + 1
                   PROVE  /\ i \in 1 .. Len(DnsPlan)
                          /\ BackedUp.dns[i].svc = DnsPlan[i]
      BY <2>9, <2>10 DEF FollowsPlan
    <3>2. CASE i = n + 1 BY <2>3, <2>8, <2>9, <2>10, <3>2
    <3>3. CASE i # n + 1
      <4>1. i \in 1 .. n BY <2>2, <3>1, <3>3
      <4>. QED BY <2>1, <2>9, <2>10, <4>1 DEF FollowsPlan
    <3>. QED BY <3>2, <3>3
  <2>. QED BY <2>3, <2>7, <2>10, <2>11 DEF rec
<1>7. CASE BackupDns
  <2>. DEFINE svc == DnsPlan[Len(snap.dns) + 1]
              rec == [svc |-> svc, servers |-> Effective(dns[svc])]
  <2>1. /\ pc = "apply" /\ pc' = "setdns" /\ snap' = BackedUp /\ disk' = BackedUp
        /\ UNCHANGED <<dns, mem, used>> /\ DnsTurn
        /\ Len(snap.dns) < Len(DnsPlan)
    BY <1>7 DEF BackupDns, DnsTurn, system
  <2>2. /\ svc \in Service /\ BackedUp \in Snapshot
        /\ BackedUp.dns = Append(snap.dns, rec) /\ FollowsPlan(BackedUp)
    BY <1>b, <2>1
  <2>n. Noted[svc] = {} BY <1>b, <2>1
  <2>3. Noted' = [Noted EXCEPT ![svc] = {Effective(dns[svc])}]
    <3>1. /\ disk \in Snapshot /\ snap.dns = disk.dns
          /\ disk # NoSnap /\ disk' # NoSnap
      BY <1>0, <2>1, <2>2, NoSnapAssumption
    <3>2. disk.dns \in Seq(DnsRec) /\ Len(disk.dns) \in Nat /\ rec.svc = svc
          /\ rec.servers = Effective(dns[svc])
      BY <3>1 DEF Snapshot
    <3>. DEFINE n == Len(disk.dns)
    <3>. HIDE DEF rec, svc
    <3>4. /\ Len(disk'.dns) = n + 1
          /\ \A i \in 1 .. n : disk'.dns[i] = disk.dns[i]
          /\ disk'.dns[n + 1] = rec
      <4>1. disk'.dns = Append(disk.dns, rec) BY <2>1, <2>2, <3>1
      <4>. QED BY <3>2, <4>1
    <3>5. ASSUME NEW s \in Service
          PROVE  {disk'.dns[i].servers :
                     i \in {j \in 1 .. n + 1 : disk'.dns[j].svc = s}}
                 = {disk.dns[i].servers :
                       i \in {j \in 1 .. n : disk.dns[j].svc = s}}
                   \cup (IF s = svc THEN {Effective(dns[svc])} ELSE {})
      <4>1. 1 .. n + 1 = 1 .. n \cup {n + 1} BY <3>2
      <4>. QED BY <3>2, <3>4, <4>1
    <3>6. {disk.dns[i].servers :
              i \in {j \in 1 .. n : disk.dns[j].svc = svc}} = {}
      BY <2>2, <2>n, <3>1 DEF Noted
    <3>. QED BY <2>2, <3>1, <3>4, <3>5, <3>6 DEF Noted
  <2>g. used["up"] > 0 BY <1>0, <2>1, NoSnapAssumption DEF Begun
  <2>4. LoanStep
    BY <2>1, <2>2, <2>3, <2>g, <2>n
       DEF LoanStep, Loan!Next, Loan!Note, Loan!Own, Effective
  <2>5. mem' # NoSnap => FollowsPlan(mem)' BY <1>p, <2>1 DEF FollowsPlan
  <2>6. FollowsPlan(snap)' BY <2>1, <2>2 DEF FollowsPlan
  <2>. QED
    BY <2>1, <2>2, <2>4, <2>5, <2>6
       DEF LoanOK, Agrees, InPlanOrder, WholeAnswer, RollsBackTruth, Rolling
<1>8. CASE BackupDnsFails
  <2>. DEFINE svc == DnsPlan[Len(snap.dns) + 1]
              rec == [svc |-> svc, servers |-> Effective(dns[svc])]
  <2>1. PICK s \in {snap, BackedUp} : Rollback(s) BY <1>8 DEF BackupDnsFails
  <2>2. /\ pc = "apply" /\ mem' = NoSnap /\ UNCHANGED <<dns, disk>> /\ Fault
        /\ DnsTurn /\ Len(snap.dns) < Len(DnsPlan)
    BY <1>8 DEF BackupDnsFails, DnsTurn, system
  <2>3. snap \in Snapshot /\ disk \in Snapshot /\ snap.dns = disk.dns
    BY <1>0, <2>2
  <2>4. /\ Noted[svc] = {} /\ BackedUp \in Snapshot
        /\ BackedUp.dns = Append(snap.dns, rec)
    BY <1>b, <2>2
  <2>5. ASSUME NEW i \in 1 .. Len(snap.dns) PROVE Entitled(snap.dns[i])
    BY <2>3, <2>5, NotedRecord DEF Entitled
  <2>6. Entitled(rec) BY <2>4 DEF Entitled
  <2>7. ASSUME NEW i \in 1 .. Len(BackedUp.dns) PROVE Entitled(BackedUp.dns[i])
    <3>. HIDE DEF rec
    <3>1. snap.dns \in Seq(DnsRec) /\ Len(snap.dns) \in Nat BY <2>3 DEF Snapshot
    <3>2. CASE i = Len(snap.dns) + 1 BY <2>4, <2>6, <3>1, <3>2
    <3>3. CASE i # Len(snap.dns) + 1
      <4>1. i \in 1 .. Len(snap.dns) BY <2>4, <2>7, <3>1, <3>3
      <4>2. BackedUp.dns[i] = snap.dns[i] BY <2>4, <3>1, <4>1
      <4>. QED BY <2>5, <4>1, <4>2
    <3>. QED BY <3>2, <3>3
  <2>8. LoanOK' BY <2>1, <2>2, <2>3, <2>4, <2>5, <2>7, RollbackLoan
  <2>. QED BY <2>2, <2>8, Quiet, NotedKept, OtherSpend
<1>9. CASE SetDns
  <2>. DEFINE n == Len(snap.dns)
              s == snap.dns[n].svc
  <2>1. /\ pc = "setdns" /\ pc' = "apply" /\ dns' = [dns EXCEPT ![s] = {Sentinel}]
        /\ UNCHANGED <<disk, mem, snap, used>>
    BY <1>9 DEF SetDns
  <2>2. /\ snap \in Snapshot /\ disk \in Snapshot /\ snap.dns = disk.dns
        /\ FollowsPlan(snap)
    BY <1>0, <2>1
  <2>3. s \in DnsServices(disk) BY <2>1 DEF DnsOK, BackedUpFirst
  <2>4. s \in Service BY <2>2, <2>3, RecordsType
  <2>5. PICK i \in 1 .. Len(disk.dns) : disk.dns[i].svc = s
    BY <2>2, <2>3, NoSnapAssumption DEF DnsServices
  <2>6. Noted[s] # {} BY <2>2, <2>5, NotedRecord
  <2>. HIDE DEF s
  <2>7. LoanStep
    BY <2>1, <2>4, <2>6, NotedKept DEF LoanStep, Loan!Next, Loan!Lend
  <2>8. WholeAnswer' BY <2>1 DEF LoanOK, WholeAnswer, Shape, SystemOK
  <2>9. mem' # NoSnap => FollowsPlan(mem)' BY <1>p, <2>1 DEF FollowsPlan
  <2>10. FollowsPlan(snap)' BY <2>1, <2>2 DEF FollowsPlan
  <2>. QED
    BY <2>1, <2>2, <2>7, <2>8, <2>9, <2>10
       DEF LoanOK, Agrees, InPlanOrder, RollsBackTruth, Rolling
<1>10. CASE SetDnsFails
  BY <1>10, <1>a DEF SetDnsFails
<1>11. CASE MarkUp
  <2>1. /\ pc = "apply" /\ Idle /\ UNCHANGED <<dns, used>>
        /\ disk' = [snap EXCEPT !.state = "Up"] /\ mem' = disk'
    BY <1>11 DEF MarkUp, DnsTurn, system
  <2>2. disk' \in Snapshot /\ disk'.dns = snap.dns BY <1>0, <2>1 DEF Snapshot
  <2>. QED BY <1>t, <2>1, <2>2
<1>12. CASE MarkUpFails
  <2>1. pc = "apply" /\ Fault BY <1>12 DEF MarkUpFails, DnsTurn
  <2>2. CASE Abort /\ UNCHANGED system BY <1>a, <2>1, <2>2
  <2>3. CASE ~(Abort /\ UNCHANGED system)
    <3>1. Idle /\ mem' = NoSnap /\ UNCHANGED <<dns, disk>>
      BY <1>12, <2>3 DEF MarkUpFails
    <3>. QED BY <1>t, <2>1, <3>1, OtherSpend
  <2>. QED BY <2>2, <2>3
<1>13. CASE SaveAnchors
  <2>1. pc = "anchorsave" /\ disk' = snap /\ mem' = snap /\ Idle
        /\ UNCHANGED <<dns, used>>
    BY <1>13 DEF SaveAnchors, system
  <2>. QED BY <1>0, <1>t, <2>1
<1>14. CASE SaveAnchorsFails
  <2>1. pc = "anchorsave" /\ Fault /\ mem' = snap /\ Idle /\ UNCHANGED <<dns, disk>>
    BY <1>14 DEF SaveAnchorsFails
  <2>. QED BY <1>0, <1>t, <2>1, OtherSpend
<1>. QED
  BY <1>1, <1>2, <1>3, <1>4, <1>5, <1>6, <1>7, <1>8, <1>9, <1>10, <1>11, <1>12,
     <1>13, <1>14, <1>15, <1>16 DEF Apply

(* A rollback gives a service back what its record says: a note in the     *)
(* file, or what the service has anyway.                                   *)
LEMMA RestoreService ==
    ASSUME Shape, LoanOK, snap \in Snapshot, pc \in Rolling,
           pc' \in Rolling \cup {"done"}, NEW k \in 1 .. Len(snap.dns),
           dns' = [dns EXCEPT ![snap.dns[k].svc] = snap.dns[k].servers],
           UNCHANGED <<disk, mem, snap>>, used'["up"] = used["up"]
    PROVE  LoanOK' /\ LoanStep
<1>. DEFINE b == snap.dns[k]
<1>1. \A i \in 1 .. Len(snap.dns) : snap.dns[i] \in DnsRec /\ Entitled(snap.dns[i])
  BY ElementOfSeq DEF LoanOK, RollsBackTruth, Snapshot
<1>2. /\ b.svc \in Service /\ b.servers \in SUBSET Resolver /\ Entitled(b)
      /\ dns' = [dns EXCEPT ![b.svc] = b.servers]
      /\ dns \in [Service -> SUBSET (Resolver \cup {Sentinel})]
  BY <1>1 DEF DnsRec, Shape, SystemOK
<1>3. Noted' = Noted BY NotedKept
<1>4. RollsBackTruth'
  <2>1. SUFFICES ASSUME NEW i \in 1 .. Len(snap.dns) PROVE Entitled(snap.dns[i])'
    BY DEF RollsBackTruth
  <2>. DEFINE r == snap.dns[i]
  <2>2. r \in DnsRec /\ r' = r /\ Entitled(r) BY <1>1, <2>1
  <2>3. CASE r.servers \in Noted[r.svc] BY <1>3, <2>2, <2>3 DEF Entitled
  <2>4. CASE r.servers \notin Noted[r.svc] /\ r.svc = b.svc
    <3>1. r.servers = Effective(dns[b.svc]) /\ b.servers = Effective(dns[b.svc])
          /\ Noted[r.svc] = {}
      BY <1>2, <2>2, <2>4 DEF Entitled
    <3>2. dns'[b.svc] = b.servers BY <1>2
    <3>3. Effective(dns'[b.svc]) = r.servers BY <3>1, <3>2 DEF Effective
    <3>. QED BY <1>3, <2>2, <2>4, <3>1, <3>3 DEF Entitled
  <2>5. CASE r.servers \notin Noted[r.svc] /\ r.svc # b.svc
    <3>1. dns'[r.svc] = dns[r.svc] BY <1>2, <2>2, <2>5 DEF DnsRec
    <3>. QED BY <1>3, <2>2, <2>5, <3>1 DEF Entitled
  <2>. QED BY <2>3, <2>4, <2>5
<1>5. WholeAnswer' BY <1>2, SentinelAssumption DEF LoanOK, WholeAnswer
<1>6. LoanStep
  <2>1. b.servers \in Loan!Returns(b.svc)
    BY <1>2 DEF Entitled, Loan!Returns, Loan!Own, Effective
  <2>2. dns' \in [Service -> SUBSET (Resolver \cup {Sentinel})] BY <1>2
  <2>3. \A s \in Service : dns'[s] = dns[s] \/ dns'[s] \in Loan!Returns(s)
    BY <1>2, <2>1
  <2>. QED BY <1>3, <2>2, <2>3 DEF LoanStep, Loan!Next, Loan!GiveBack
<1>7. Agrees' /\ InPlanOrder'
  BY DEF LoanOK, Agrees, InPlanOrder, FollowsPlan, Saved, Rolling
<1>. QED BY <1>4, <1>5, <1>6, <1>7 DEF LoanOK

LEMMA LoanUndo ==
    Shape /\ DnsOK /\ LoanOK /\ Undo => LoanOK' /\ LoanStep
<1>. SUFFICES ASSUME Shape, DnsOK, LoanOK, Undo PROVE LoanOK' /\ LoanStep
  OBVIOUS
<1>0. pc \in Rolling \cup {"done"} => snap \in Snapshot /\ mem = NoSnap
  BY DEF Shape, WorkOK, BusyHasSnap, Working, Rolling, DnsOK, SessionGone, Closing
<1>n. left \in Nat BY DEF Shape, WorkOK
<1>q. ASSUME pc \in Rolling \cup {"done"}, pc' \in Rolling \cup {"done", "reconcile"},
             pc' \in Rolling => pc \in Rolling,
             UNCHANGED <<dns, disk, mem, snap>>,
             used' = used \/ Fault \/ Silent
      PROVE  LoanOK' /\ LoanStep
  <2>1. Noted' = Noted BY <1>q, NotedKept
  <2>2. used'["up"] = used["up"] BY <1>q, OtherSpend
  <2>3. LoanStep BY <1>q, <2>1, <2>2, Quiet
  <2>4. RollsBackTruth' BY <1>q, <2>1 DEF LoanOK, RollsBackTruth, Entitled
  <2>5. Agrees' /\ InPlanOrder' BY <1>0, <1>q DEF Agrees, InPlanOrder, Saved, Rolling
  <2>6. WholeAnswer' BY <1>q DEF LoanOK, WholeAnswer
  <2>. QED BY <2>3, <2>4, <2>5, <2>6 DEF LoanOK
<1>1. CASE UndoAnchors
  <2>1. pc = "anchors" /\ pc' = "undo" /\ UNCHANGED <<dns, disk, mem, snap>>
        /\ (used' = used \/ Fault \/ Silent)
    BY <1>1 DEF UndoAnchors, Missed
  <2>. QED BY <1>q, <2>1 DEF Rolling
<1>2. CASE UndoDns
  <2>1. /\ pc = "undo" /\ pc' = "undo" /\ UNCHANGED <<disk, mem, snap>>
        /\ left > Len(Routes(snap)) /\ snap \in Snapshot
    BY <1>0, <1>2 DEF UndoDns, Rolling
  <2>2. left - Len(Routes(snap)) \in 1 .. Len(snap.dns)
    BY <1>n, <2>1, RoutesType DEF Shape, WorkOK, LeftBounded, Count
  <2>. DEFINE k == left - Len(Routes(snap))
  <2>3. \/ dns' = [dns EXCEPT ![snap.dns[k].svc] = snap.dns[k].servers]
           /\ UNCHANGED used
        \/ (Fault \/ Silent) /\ UNCHANGED dns
    BY <1>2 DEF UndoDns, Missed
  <2>. HIDE DEF k
  <2>4. k \in 1 .. Len(snap.dns) BY <2>2 DEF k
  <2>. QED BY <1>q, <2>1, <2>3, <2>4, RestoreService DEF Rolling
<1>3. CASE DeleteRoute
  <2>1. pc = "undo" /\ pc' \in {"undo", "restore"} /\ UNCHANGED <<dns, disk, mem, snap>>
        /\ (used' = used \/ Fault \/ Silent)
    BY <1>3 DEF DeleteRoute, Missed
  <2>. QED BY <1>q, <2>1 DEF Rolling
<1>4. CASE RestoreRoute
  <2>1. pc = "restore" /\ pc' = "undo" /\ UNCHANGED <<dns, disk, mem, snap>>
        /\ (used' = used \/ Fault \/ Silent)
    BY <1>4 DEF RestoreRoute, Missed
  <2>. QED BY <1>q, <2>1 DEF Rolling
<1>5. CASE SkipChecks
  <2>1. pc = "undo" /\ pc' = "done" /\ UNCHANGED <<dns, disk, mem, snap, used>>
    BY <1>5 DEF SkipChecks, system
  <2>. QED BY <1>q, <2>1 DEF Rolling
<1>6. CASE CheckRoutes
  <2>1. pc = "undo" /\ pc' = "verify" /\ UNCHANGED <<dns, disk, mem, snap>>
        /\ (used' = used \/ Fault \/ Silent)
    BY <1>6 DEF CheckRoutes
  <2>. QED BY <1>q, <2>1 DEF Rolling
<1>7. CASE CheckDns
  <2>1. /\ pc = "verify" /\ pc' = "verify" /\ left > 0
        /\ UNCHANGED <<disk, mem, snap>> /\ snap \in Snapshot
    BY <1>0, <1>7 DEF CheckDns, Rolling
  <2>. DEFINE k == Len(snap.dns) - left + 1
  <2>2. k \in 1 .. Len(snap.dns)
    BY <1>n, <2>1, RoutesType DEF Shape, WorkOK, LeftBounded
  <2>3. /\ \/ dns' = [dns EXCEPT ![snap.dns[k].svc] = snap.dns[k].servers]
           \/ UNCHANGED dns
        /\ used' = used \/ Fault
    BY <1>7 DEF CheckDns
  <2>. HIDE DEF k
  <2>4. used'["up"] = used["up"] BY <2>3, OtherSpend
  <2>. QED BY <1>q, <2>1, <2>2, <2>3, <2>4, RestoreService DEF Rolling
<1>8. CASE Clear
  <2>1. /\ pc = "verify" /\ left = 0 /\ pc' = "done"
        /\ UNCHANGED <<dns, mem, snap>> /\ (used' = used \/ Fault)
    BY <1>8 DEF Clear, system
  <2>2. CASE UNCHANGED disk
    BY <1>q, <2>1, <2>2 DEF Rolling
  <2>3. CASE ok /\ disk' = NoSnap /\ UNCHANGED used
    <3>1. ASSUME NEW s \in Service, Noted[s] # {} PROVE ~Loan!Lent(s)
      <4>1. disk \in Snapshot \cup {NoSnap} BY DEF Shape, StoreOK
      <4>2. s \in DnsServices(disk)
        BY <3>1, <4>1, NotedBlank, NoSnapAssumption DEF DnsServices
      <4>. QED BY <2>1, <2>3, <4>2, ClearedServices DEF Loan!Lent
    <3>2. Noted' = Loan!Blank BY <2>3 DEF Noted, Loan!Blank
    <3>3. LoanStep
      BY <2>1, <2>3, <3>1, <3>2 DEF LoanStep, Loan!Next, Loan!Settle
    <3>4. Agrees' /\ InPlanOrder' /\ RollsBackTruth'
      BY <1>0, <2>1 DEF Agrees, InPlanOrder, RollsBackTruth, Saved, Rolling
    <3>5. WholeAnswer' BY <2>1 DEF LoanOK, WholeAnswer
    <3>. QED BY <3>3, <3>4, <3>5 DEF LoanOK
  <2>. QED BY <1>8, <2>2, <2>3 DEF Clear
<1>e. ASSUME Idle, mem' = NoSnap, UNCHANGED <<dns, disk, used>>
      PROVE  LoanOK' /\ LoanStep
  <2>1. WholeAnswer' BY <1>e DEF LoanOK, WholeAnswer
  <2>. QED BY <1>e, <2>1, IdleLoan, Quiet, NotedKept
<1>9. CASE EndSession
  BY <1>0, <1>9, <1>e DEF EndSession
<1>10. CASE EndCommit
  BY <1>0, <1>10, <1>e DEF EndCommit, system
<1>11. CASE EndRestore
  <2>1. pc = "done" /\ mem' = NoSnap /\ UNCHANGED <<dns, disk, used>>
    BY <1>0, <1>11 DEF EndRestore
  <2>2. CASE disk = NoSnap BY <1>11, <1>e, <2>1, <2>2 DEF EndRestore
  <2>3. CASE disk # NoSnap
    <3>1. disk \in Snapshot /\ Rollback(disk)
      BY <1>11, <2>3 DEF EndRestore, Shape, StoreOK
    <3>. QED BY <2>1, <3>1, RollbackSaved, Quiet, NotedKept
  <2>. QED BY <2>2, <2>3
<1>12. CASE EndBoot
  <2>1. pc = "done" /\ pc' = "reconcile" /\ UNCHANGED <<dns, disk, mem, snap, used>>
    BY <1>12 DEF EndBoot, system
  <2>. QED BY <1>q, <2>1 DEF Rolling
<1>13. CASE EndTerm
  <2>1. Exit /\ UNCHANGED <<dns, disk, used>> BY <1>13 DEF EndTerm, Exit
  <2>. QED BY <2>1, ExitLoan, Quiet, NotedKept
<1>. QED
  BY <1>1, <1>2, <1>3, <1>4, <1>5, <1>6, <1>7, <1>8, <1>9, <1>10, <1>11, <1>12,
     <1>13 DEF Undo

LEMMA LoanRecover ==
    Shape /\ DnsOK /\ LoanOK /\ Recover => LoanOK' /\ LoanStep
<1>. SUFFICES ASSUME Shape, DnsOK, LoanOK, Recover PROVE LoanOK' /\ LoanStep
  OBVIOUS
<1>0. pc \in {"bootanchors", "bootsave", "probe"} =>
        snap \in Snapshot /\ disk \in Snapshot /\ snap.dns = disk.dns
  BY DEF Shape, WorkOK, BusyHasSnap, LoanOK, Agrees, Saved, Working
<1>m. pc \in Closing => mem = NoSnap BY DEF DnsOK, SessionGone
<1>d. disk \in Snapshot \cup {NoSnap} BY DEF Shape, StoreOK
<1>b. ASSUME pc \in Closing, UNCHANGED <<dns, mem>>, Noted' = Noted,
             pc' \in {"bootanchors", "bootsave", "probe", "reconcile"},
             pc' # "reconcile" => disk' \in Snapshot /\ snap'.dns = disk'.dns,
             used' = used \/ Fault
      PROVE  LoanOK' /\ LoanStep
  <2>1. LoanStep BY <1>b, Quiet, OtherSpend
  <2>. QED
    BY <1>m, <1>b, <2>1
       DEF LoanOK, Agrees, InPlanOrder, WholeAnswer, RollsBackTruth, Saved, Rolling
<1>1. CASE Boot
  <2>1. /\ pc = "down" /\ snap' = disk /\ UNCHANGED <<dns, disk, mem, used>>
        /\ pc' \in {"reconcile", "probe", "bootanchors"}
        /\ disk = NoSnap => pc' = "reconcile"
    BY <1>1 DEF Boot, system
  <2>. QED BY <1>b, <1>d, <2>1, NotedKept DEF Closing
<1>2. CASE BootAnchors
  <2>1. PICK bad : snap' = [snap EXCEPT !.anchors =
                        {r \in snap.anchors : ~r.existed /\ r.fp \in bad}]
    BY <1>2 DEF BootAnchors
  <2>2. /\ pc = "bootanchors" /\ pc' = "bootsave" /\ UNCHANGED <<dns, disk, mem>>
        /\ (used' = used \/ Fault)
    BY <1>2 DEF BootAnchors
  <2>. DEFINE X == {r \in snap.anchors : ~r.existed /\ r.fp \in bad}
  <2>3. snap' = [snap EXCEPT !.anchors = X] BY <2>1
  <2>. HIDE DEF X
  <2>4. snap'.dns = snap.dns BY <1>0, <2>2, <2>3 DEF Snapshot
  <2>. QED BY <1>0, <1>b, <2>2, <2>4, NotedKept DEF Closing
<1>3. CASE SaveBootAnchors
  <2>1. /\ pc = "bootsave" /\ pc' = "probe" /\ disk' \in {disk, snap}
        /\ UNCHANGED <<dns, mem, snap>> /\ (used' = used \/ Fault)
    BY <1>3 DEF SaveBootAnchors, system
  <2>2. disk' \in Snapshot /\ disk'.dns = disk.dns BY <1>0, <2>1
  <2>3. Noted' = Noted BY <1>0, <2>1, <2>2, NotedSame
  <2>. QED BY <1>0, <1>b, <2>1, <2>2, <2>3 DEF Closing
<1>4. CASE LeaveRunning
  <2>1. /\ pc = "probe" /\ Idle /\ UNCHANGED <<dns, disk, mem>>
        /\ (used' = used \/ Fault)
    BY <1>4 DEF LeaveRunning, system
  <2>2. mem' = NoSnap /\ WholeAnswer'
    BY <1>m, <2>1 DEF Closing, LoanOK, WholeAnswer
  <2>. QED BY <2>1, <2>2, IdleLoan, Quiet, NotedKept, OtherSpend
<1>5. CASE RollbackStale
  <2>1. /\ pc = "probe" /\ Rollback(snap) /\ UNCHANGED <<dns, disk, mem, used>>
        /\ mem' = NoSnap
    BY <1>5, <1>m DEF RollbackStale, system, Closing
  <2>. QED BY <1>0, <2>1, RollbackSaved, Quiet, NotedKept
<1>6. CASE Reconcile
  <2>1. Idle /\ mem' = NoSnap /\ UNCHANGED disk /\ (used' = used \/ Fault)
    BY <1>m, <1>6 DEF Reconcile, Closing
  <2>2. dns \in [Service -> SUBSET (Resolver \cup {Sentinel})]
    BY DEF Shape, SystemOK
  <2>3. \/ dns' = dns
        \/ \E bad : dns' = [x \in Service |->
                        IF Sentinel \in dns[x] /\ x \notin bad
                        THEN Original(disk, x) ELSE dns[x]]
    BY <1>6 DEF Reconcile
  <2>4. ASSUME NEW s \in Service, dns'[s] # dns[s]
        PROVE  dns[s] = {Sentinel} /\ dns'[s] = Original(disk, s)
    BY <2>2, <2>3, <2>4 DEF LoanOK, WholeAnswer
  <2>5. ASSUME NEW s \in Service, dns[s] = {Sentinel}
        PROVE  /\ Original(disk, s) \in SUBSET Resolver
               /\ Original(disk, s) \in Loan!Returns(s)
    <3>1. Original(disk, s) \in SUBSET Resolver BY <1>d, OriginalType
    <3>2. CASE s \in DnsServices(disk)
      <4>1. disk \in Snapshot BY <1>d, <3>2 DEF DnsServices
      <4>2. PICK i \in 1 .. Len(disk.dns) :
                disk.dns[i].svc = s /\ Original(disk, s) = disk.dns[i].servers
        BY <3>2, <4>1, OriginalType
      <4>3. Original(disk, s) \in Noted[s] BY <4>1, <4>2, NotedRecord
      <4>. QED BY <3>1, <4>3 DEF Loan!Returns
    <3>3. CASE s \notin DnsServices(disk)
      <4>1. Original(disk, s) = {} BY <1>d, <3>3, OriginalType
      <4>2. Noted[s] = {} BY <1>d, <3>3, NotedBlank, NoSnapAssumption DEF DnsServices
      <4>. QED BY <2>5, <3>1, <4>1, <4>2 DEF Loan!Returns, Loan!Own
    <3>. QED BY <3>2, <3>3
  <2>6. dns' \in [Service -> SUBSET (Resolver \cup {Sentinel})]
    <3>1. \A s \in Service : dns'[s] \in SUBSET (Resolver \cup {Sentinel})
      BY <2>2, <2>4, <2>5
    <3>2. dns' = [s \in Service |-> dns'[s]] BY <2>2, <2>3
    <3>. QED BY <3>1, <3>2
  <2>7. LoanStep
    BY <2>1, <2>4, <2>5, <2>6, NotedKept, OtherSpend
       DEF LoanStep, Loan!Next, Loan!GiveBack
  <2>8. WholeAnswer' BY <2>4, <2>5, SentinelAssumption DEF LoanOK, WholeAnswer
  <2>. QED BY <2>1, <2>7, <2>8, IdleLoan
<1>. QED BY <1>1, <1>2, <1>3, <1>4, <1>5, <1>6 DEF Recover

LEMMA LoanEnvironment ==
    Shape /\ DnsOK /\ LoanOK /\ Environment => LoanOK' /\ LoanStep
<1>. SUFFICES ASSUME Shape, DnsOK, LoanOK, Environment PROVE LoanOK' /\ LoanStep
  OBVIOUS
<1>1. CASE Crash
  <2>1. Exit /\ Spend("crash") /\ UNCHANGED <<dns, disk>> BY <1>1 DEF Crash, Exit
  <2>. QED BY <2>1, ExitLoan, Quiet, NotedKept, OtherSpend
<1>2. ASSUME UNCHANGED <<dns, disk, mem, work>>, used' = used \/ Spend("net")
      PROVE  LoanOK' /\ LoanStep
  <2>1. Noted' = Noted BY <1>2, NotedKept
  <2>2. LoanStep BY <1>2, <2>1, Quiet, OtherSpend
  <2>. QED
    BY <1>2, <2>1, <2>2
       DEF work, LoanOK, Agrees, InPlanOrder, WholeAnswer, RollsBackTruth, Entitled,
           FollowsPlan
<1>. QED BY <1>1, <1>2 DEF Environment, AppExit, NetworkSwitch

(* The file appears only with a session: every later save follows one.     *)
LEMMA FileAppears ==
    ASSUME Shape, LoanOK, [Next]_vars, disk = NoSnap, disk' # NoSnap
    PROVE  \E t \in Tun, defer \in DeferModes : TunUp(t, defer)
<1>1. pc \notin Saved BY NoSnapAssumption DEF LoanOK, Agrees
<1>2. CASE UNCHANGED vars BY <1>2 DEF vars
<1>3. CASE Request
  BY <1>3 DEF Request, CommitRoutes, TakeTunFd, TunDown, Restore, Sigterm, Exit,
              InstallAnchor, RemoveAnchor
<1>4. ~Apply
  <2>1. ~InstallRoute /\ ~RouteFails /\ ~SaveRoute /\ ~SaveRouteFails
    BY <1>1 DEF InstallRoute, RouteFails, SaveRoute, SaveRouteFails, Saved
  <2>2. ~ConfigureFails /\ ~DeferRoute /\ ~DeferRouteFails /\ ~Prepared
    BY <1>1 DEF ConfigureFails, DeferRoute, DeferRouteFails, Prepared, DeferTurn, Saved
  <2>3. ~BackupDns /\ ~BackupDnsFails /\ ~SetDns /\ ~SetDnsFails
    BY <1>1 DEF BackupDns, BackupDnsFails, SetDns, SetDnsFails, DnsTurn, Saved
  <2>4. ~MarkUp /\ ~MarkUpFails /\ ~SaveAnchors /\ ~SaveAnchorsFails
    BY <1>1 DEF MarkUp, MarkUpFails, SaveAnchors, SaveAnchorsFails, DnsTurn, Saved
  <2>. QED BY <2>1, <2>2, <2>3, <2>4 DEF Apply
<1>5. CASE Undo
  BY <1>5 DEF Undo, UndoAnchors, UndoDns, DeleteRoute, RestoreRoute, SkipChecks,
              CheckRoutes, CheckDns, Clear, EndSession, EndCommit, EndRestore,
              EndBoot, EndTerm, Exit
<1>6. CASE Recover
  BY <1>1, <1>6 DEF Recover, Boot, BootAnchors, SaveBootAnchors, LeaveRunning,
                    RollbackStale, Reconcile, Saved
<1>7. CASE Environment
  BY <1>7 DEF Environment, Crash, Exit, AppExit, NetworkSwitch
<1>. QED BY <1>2, <1>3, <1>4, <1>5, <1>6, <1>7 DEF Next

LEMMA SessionCounts ==
    ASSUME Shape, LoanStep
    PROVE  /\ used["up"] \in Nat /\ used["up"] <= used'["up"]
           /\ used'["up"] # used["up"] => Loan!Begin
<1>1. used["up"] \in Nat BY DEF Shape, StoreOK, Bounded
<1>2. CASE UNCHANGED Loan!vars BY <1>1, <1>2 DEF Loan!vars
<1>3. CASE Loan!Begin BY <1>1, <1>3 DEF Loan!Begin
<1>4. CASE Loan!Next /\ ~Loan!Begin
  BY <1>1, <1>4 DEF Loan!Next, Loan!GiveBack, Loan!Settle, Loan!Note, Loan!Lend
<1>. QED BY <1>2, <1>3, <1>4 DEF LoanStep

LEMMA BegunNext ==
    Shape /\ LoanOK /\ Begun /\ LoanStep /\ [Next]_vars => Begun'
<1>. SUFFICES ASSUME Shape, LoanOK, Begun, LoanStep, [Next]_vars, disk' # NoSnap
              PROVE  used'["up"] > 0
  BY DEF Begun
<1>0. Shape' BY ShapeNext
<1>1. /\ used["up"] \in Nat /\ used'["up"] \in Nat
      /\ used["up"] <= used'["up"]
  BY <1>0, SessionCounts DEF Shape, StoreOK, Bounded
<1>2. CASE disk # NoSnap BY <1>1, <1>2 DEF Begun
<1>3. CASE disk = NoSnap
  <2>1. Spend("up") BY <1>3, FileAppears DEF TunUp
  <2>2. used'["up"] = used["up"] + 1
    BY <2>1, SMT DEF Spend, Shape, StoreOK, Bounded
  <2>. QED BY <1>1, <2>2
<1>. QED BY <1>2, <1>3

LEMMA LoanNext ==
    Shape /\ DnsOK /\ LoanOK /\ Begun /\ [Next]_vars
        => LoanOK' /\ LoanStep /\ Begun'
<1>. SUFFICES ASSUME Shape, DnsOK, LoanOK, Begun, [Next]_vars
              PROVE  LoanOK' /\ LoanStep /\ Begun'
  OBVIOUS
<1>1. CASE UNCHANGED vars
  <2>1. Noted' = Noted BY <1>1, NotedKept DEF vars
  <2>. QED
    BY <1>1, <2>1, Quiet
       DEF vars, system, work, LoanOK, Agrees, InPlanOrder, WholeAnswer,
           RollsBackTruth, Entitled, FollowsPlan, Begun
<1>2. LoanOK' /\ LoanStep
  BY <1>1, LoanRequest, LoanApply, LoanUndo, LoanRecover, LoanEnvironment DEF Next
<1>. QED BY <1>2, BegunNext

(* The helper lends a service to the tunnel only against a note in its     *)
(* file, gives back what the note says, and settles when all are back:     *)
(* for every plan, and through every crash, fault and silent failure.      *)
THEOREM SessionImplementsLoan == Spec => LendsAgainstNotes
<1>1. Init => Shape /\ DnsOK /\ LoanOK /\ Begun /\ Loan!Init
  BY ShapeInit, DnsInit, LoanInit DEF Init, Begun
<1>2. Shape /\ DnsOK /\ LoanOK /\ Begun /\ [Next]_vars
        => (Shape /\ DnsOK /\ LoanOK /\ Begun)' /\ LoanStep
  BY ShapeNext, DnsNext, LoanNext
<1>3. LoanStep => [Loan!Next]_(Loan!vars) BY DEF LoanStep
<1>. QED BY <1>1, <1>2, <1>3, PTL DEF Spec, LendsAgainstNotes, Loan!Spec

------------------------------------------------------------------------------
(* The first session, at the level of the promise                          *)

(* A service is as it was before, or lent against exactly that note.       *)
AsBefore(s) ==
    \/ dns[s] = InitDns[s] /\ Noted[s] \subseteq {InitDns[s]}
    \/ dns[s] = {Sentinel} /\ Noted[s] = {InitDns[s]}

FirstLoan == used["up"] <= 1 => \A s \in Service : AsBefore(s)

Unbegun == used["up"] = 0 => dns = InitDns /\ Noted = Loan!Blank

(* No step of the promise but a new sheet of notes can spoil that.         *)
LEMMA StaysAsBefore ==
    ASSUME Shape, Shape', LoanStep, NEW s \in Service, AsBefore(s),
           Loan!Begin => dns[s] = InitDns[s]
    PROVE  AsBefore(s)'
<1>0. /\ dns \in [Service -> SUBSET (Resolver \cup {Sentinel})]
      /\ InitDns \in [Service -> SUBSET Resolver]
      /\ Noted = [x \in Service |-> Noted[x]]
  BY InitAssumption DEF Shape, SystemOK, Noted
<1>1. CASE UNCHANGED Loan!vars
  BY <1>1 DEF Loan!vars, AsBefore
<1>2. CASE Loan!Begin
  BY <1>2 DEF Loan!Begin, Loan!Blank, AsBefore
<1>3. ASSUME NEW t \in Service, Loan!Note(t) PROVE AsBefore(s)'
  <2>1. /\ dns' = dns /\ Noted[t] = {}
        /\ Noted' = [Noted EXCEPT ![t] = {dns[t] \ {Sentinel}}]
    BY <1>3 DEF Loan!Note, Loan!Own
  <2>2. CASE t # s BY <1>0, <2>1, <2>2 DEF AsBefore
  <2>3. CASE t = s
    <3>1. Noted'[s] = {dns[s] \ {Sentinel}} BY <1>0, <2>1, <2>3
    <3>2. dns[s] = InitDns[s] BY <2>1, <2>3 DEF AsBefore
    <3>3. dns[s] \ {Sentinel} = InitDns[s] BY <1>0, <3>2, SentinelAssumption
    <3>. QED BY <2>1, <3>1, <3>2, <3>3 DEF AsBefore
  <2>. QED BY <2>2, <2>3
<1>4. ASSUME NEW t \in Service, Loan!Lend(t) PROVE AsBefore(s)'
  <2>1. Noted' = Noted /\ Noted[t] # {} /\ dns' = [dns EXCEPT ![t] = {Sentinel}]
    BY <1>4 DEF Loan!Lend
  <2>. QED BY <1>0, <2>1 DEF AsBefore
<1>5. CASE Loan!GiveBack
  <2>1. /\ Noted' = Noted
        /\ dns'[s] = dns[s] \/ dns'[s] \in Loan!Returns(s)
    BY <1>5 DEF Loan!GiveBack
  <2>2. ASSUME dns'[s] # dns[s]
        PROVE  dns'[s] = InitDns[s] /\ Noted[s] \subseteq {InitDns[s]}
    <3>1. dns'[s] \in Loan!Returns(s) BY <2>1, <2>2
    <3>2. CASE Noted[s] = {}
      <4>1. dns'[s] = dns[s] \ {Sentinel} /\ dns[s] = InitDns[s]
        BY <3>1, <3>2 DEF Loan!Returns, Loan!Own, AsBefore
      <4>. QED BY <1>0, <3>2, <4>1, SentinelAssumption
    <3>3. CASE Noted[s] # {}
      BY <3>1, <3>3 DEF Loan!Returns, AsBefore
    <3>. QED BY <3>2, <3>3
  <2>. QED BY <2>1, <2>2 DEF AsBefore
<1>6. CASE Loan!Settle
  <2>1. /\ Noted' = Loan!Blank /\ dns' = dns
        /\ Noted[s] # {} => Sentinel \notin dns[s]
    BY <1>6 DEF Loan!Settle, Loan!Lent
  <2>. QED BY <1>0, <2>1 DEF AsBefore, Loan!Blank
<1>. QED BY <1>1, <1>2, <1>3, <1>4, <1>5, <1>6 DEF LoanStep, Loan!Next

LEMMA FirstLoanNext ==
    ASSUME Shape, Shape', FirstLoan, Unbegun, LoanStep PROVE FirstLoan' /\ Unbegun'
<1>0. /\ used["up"] \in Nat /\ used'["up"] \in Nat /\ used["up"] <= used'["up"]
      /\ used'["up"] # used["up"] => Loan!Begin
  BY SessionCounts DEF Shape, StoreOK, Bounded
<1>1. Loan!Begin => used'["up"] = used["up"] + 1 BY DEF Loan!Begin
<1>2. FirstLoan'
  <2>. SUFFICES ASSUME used'["up"] <= 1, NEW s \in Service PROVE AsBefore(s)'
    BY DEF FirstLoan
  <2>1. AsBefore(s) BY <1>0 DEF FirstLoan
  <2>2. Loan!Begin => dns[s] = InitDns[s] BY <1>0, <1>1 DEF Unbegun
  <2>. QED BY <2>1, <2>2, StaysAsBefore
<1>3. Unbegun'
  <2>. SUFFICES ASSUME used'["up"] = 0 PROVE dns' = InitDns /\ Noted' = Loan!Blank
    BY DEF Unbegun
  <2>1. dns = InitDns /\ Noted = Loan!Blank /\ ~Loan!Begin BY <1>0, <1>1 DEF Unbegun
  <2>2. CASE UNCHANGED Loan!vars BY <2>1, <2>2 DEF Loan!vars
  <2>3. ASSUME NEW s \in Service PROVE ~Loan!Note(s) /\ ~Loan!Lend(s)
    BY <1>0, <2>1 DEF Loan!Note, Loan!Lend, Loan!Blank
  <2>4. CASE Loan!GiveBack
    <3>1. /\ Noted' = Noted /\ dns' \in [Service -> SUBSET (Resolver \cup {Sentinel})]
          /\ \A s \in Service : dns'[s] = dns[s] \/ dns'[s] = dns[s] \ {Sentinel}
      BY <2>1, <2>4 DEF Loan!GiveBack, Loan!Returns, Loan!Own, Loan!Blank
    <3>2. \A s \in Service : dns'[s] = InitDns[s]
      BY <2>1, <3>1, InitAssumption, SentinelAssumption
    <3>. QED BY <2>1, <3>1, <3>2, InitAssumption
  <2>5. CASE Loan!Settle BY <2>1, <2>5 DEF Loan!Settle
  <2>. QED BY <2>1, <2>2, <2>3, <2>4, <2>5 DEF LoanStep, Loan!Next
<1>. QED BY <1>2, <1>3

(* Whatever crashes, fails or lies during the first session, a service     *)
(* uses what it used before it, or the tunnel while exactly those          *)
(* resolvers are on disk: the promise of apply_dns, rollback and start-up  *)
(* reconciliation together, carried over from the abstract specification.  *)
THEOREM FirstSessionReturns == Spec => []Loan!FirstLoanReturns
<1>. DEFINE Inv == Shape /\ DnsOK /\ LoanOK /\ Begun /\ FirstLoan /\ Unbegun
<1>1. Init => Inv
  <2>1. Init => Shape /\ DnsOK /\ LoanOK /\ Begun /\ Loan!Init
    BY ShapeInit, DnsInit, LoanInit DEF Init, Begun
  <2>2. Loan!Init => FirstLoan /\ Unbegun
    BY DEF Loan!Init, Loan!Blank, FirstLoan, AsBefore, Unbegun
  <2>. QED BY <2>1, <2>2
<1>2. Inv /\ [Next]_vars => Inv'
  <2>. SUFFICES ASSUME Inv, [Next]_vars PROVE Inv'
    OBVIOUS
  <2>1. (Shape /\ DnsOK)' BY ShapeNext, DnsNext
  <2>2. (LoanOK /\ Begun)' /\ LoanStep BY LoanNext
  <2>. QED BY <2>1, <2>2, FirstLoanNext
<1>3. Inv => Loan!FirstLoanReturns BY DEF FirstLoan, AsBefore, Loan!FirstLoanReturns
<1>. QED BY <1>1, <1>2, <1>3, PTL DEF Spec

------------------------------------------------------------------------------
(* What a session gives back: the resolvers.  Of every session, not only   *)
(* the first, a service is as it was or lent against the note of what it   *)
(* was, unless a bring_up has overwritten its note.                        *)
NotesTrue == \A s \in Service \ lost : AsBefore(s)

LEMMA OnlyTunUpBegins ==
    ASSUME Shape, [Next]_vars, used'["up"] # used["up"]
    PROVE  \E t \in Tun, defer \in DeferModes : TunUp(t, defer)
<1>1. used' # used /\ ~Fault /\ ~Silent /\ ~Spend("crash") /\ ~Spend("net")
      /\ ~Spend("anchor")
  BY OtherSpend
<1>2. ~Missed BY <1>1 DEF Missed
<1>3. ~Apply
  BY <1>1 DEF Apply, InstallRoute, RouteFails, SaveRoute, SaveRouteFails,
              ConfigureFails, DeferRoute, DeferRouteFails, Prepared, BackupDns,
              BackupDnsFails, SetDns, SetDnsFails, MarkUp, MarkUpFails, SaveAnchors,
              SaveAnchorsFails
<1>4. ~Undo
  <2>1. ~UndoAnchors /\ ~UndoDns /\ ~DeleteRoute /\ ~RestoreRoute /\ ~SkipChecks
    BY <1>1, <1>2 DEF UndoAnchors, UndoDns, DeleteRoute, RestoreRoute, SkipChecks
  <2>2. ~CheckRoutes /\ ~CheckDns /\ ~Clear /\ ~EndSession /\ ~EndCommit
    BY <1>1 DEF CheckRoutes, CheckDns, Clear, EndSession, EndCommit
  <2>3. ~EndRestore /\ ~EndBoot /\ ~EndTerm BY <1>1 DEF EndRestore, EndBoot, EndTerm
  <2>. QED BY <2>1, <2>2, <2>3 DEF Undo
<1>5. ~Recover
  BY <1>1 DEF Recover, Boot, BootAnchors, SaveBootAnchors, LeaveRunning,
              RollbackStale, Reconcile
<1>6. ~Environment /\ ~UNCHANGED vars
  BY <1>1 DEF Environment, Crash, AppExit, NetworkSwitch, vars
<1>. QED
  BY <1>1, <1>3, <1>4, <1>5, <1>6
     DEF Next, Request, CommitRoutes, TakeTunFd, TunDown, Restore, Sigterm,
         InstallAnchor, RemoveAnchor

LEMMA NotesTrueNext ==
    ASSUME Shape, Shape', NotesTrue, LoanStep, [Next]_vars PROVE NotesTrue'
<1>. SUFFICES ASSUME NEW s \in Service, s \notin lost' PROVE AsBefore(s)'
  BY DEF NotesTrue
<1>1. s \notin lost /\ AsBefore(s) BY LostGrows DEF NotesTrue
<1>2. ASSUME Loan!Begin PROVE dns[s] = InitDns[s]
  <2>1. used'["up"] # used["up"] BY <1>2 DEF Loan!Begin, Shape, StoreOK, Bounded
  <2>2. DnsServices(disk) \subseteq lost' BY <2>1, OnlyTunUpBegins DEF TunUp
  <2>3. Noted[s] = {}
    <3>1. disk \in Snapshot \cup {NoSnap} BY DEF Shape, StoreOK
    <3>. QED BY <2>2, <3>1, NotedBlank, NoSnapAssumption DEF DnsServices
  <2>. QED BY <1>1, <2>3 DEF AsBefore
<1>. QED BY <1>1, <1>2, StaysAsBefore

------------------------------------------------------------------------------
(* What a session gives back: the routes, while no command lies and the    *)
(* network stays the same.  Two things about the machine are needed: no    *)
(* scoped default of the user's own (the session would replace it, and     *)
(* restore the unscoped one for it), and, where `route delete` goes by the *)
(* prefix alone, nothing on the captures (a capture that was held back     *)
(* would be deleted all the same).                                         *)
CleanMachine ==
    /\ InitTable[Scoped] = NoRoute
    /\ DeleteByPrefix => \A c \in Capture : InitTable[c] = NoRoute

Steady == used["silent"] = 0 /\ used["net"] = 0

(* What a session puts on a key.                                           *)
Through(s, d) == IF d \in Capture THEN s.iface ELSE s.gw

(* The first n records of a session that are about d.                      *)
Of(s, n, d) == {i \in 1 .. Len(Routes(s)) : i <= n /\ Routes(s)[i].dest = d}

First(s, i) == \A j \in 1 .. i - 1 : Routes(s)[j].dest # Routes(s)[i].dest

(* They are of a capture held back, and deleting it does nothing.          *)
Untouched(s, n, d) ==
    \A i \in Of(s, n, d) :
        /\ d \in Capture /\ ~DeleteByPrefix
        /\ i > Len(s.installed) /\ Routes(s)[i].replaced = NoRoute

(* The first of them tells what was there before.                          *)
Retold(s, n, d) ==
    /\ Of(s, n, d) # {}
    /\ d # Scoped => \A i \in Of(s, n, d) :
         /\ Routes(s)[i].replaced \in {NoRoute, InitTable[d], Through(s, d)}
         /\ First(s, i) => Routes(s)[i].replaced = InitTable[d]

(* Undoing the first n records of s, the last one first, takes the key d   *)
(* from this row to what it was.                                           *)
Home(s, n, d, row) ==
    /\ \A i \in Of(s, n, d) : Routes(s)[i].via = Through(s, d)
    /\ \/ row = InitTable[d] /\ Untouched(s, n, d)
       \/ row \in {NoRoute, InitTable[d], Through(s, d)} /\ Retold(s, n, d)

Whole(s, d, row) == Home(s, Len(Routes(s)), d, row)

LEMMA MachineKeys ==
    /\ InitTable \in [Dest -> Via \ Tun] /\ Capture \subseteq Dest
    /\ Default \in Dest /\ Scoped \in Dest /\ Default # Scoped
    /\ Default \notin Capture /\ Scoped \notin Capture
    /\ NoRoute \notin Tun /\ NoRoute \notin Gateway /\ Gateway \cap Tun = {}
  BY InitAssumption, KeysAssumption, ViasAssumption

LEMMA RouteOf ==
    ASSUME NEW s \in Snapshot, NEW i \in 1 .. Len(Routes(s))
    PROVE  Routes(s)[i] \in RouteRec /\ Len(Routes(s)) \in Nat
  BY RoutesType, ElementOfSeq

LEMMA ThroughType ==
    ASSUME NEW s \in Snapshot, NEW d
    PROVE  /\ d \in Capture => Through(s, d) \in Tun
           /\ d \notin Capture => Through(s, d) \in Gateway
  BY DEF Through, Snapshot

LEMMA BackHome ==
    ASSUME NEW s, NEW n, NEW d, NEW row, Home(s, n, d, row)
    PROVE  Home(s, n, d, InitTable[d])
  BY DEF Home

LEMMA SweptHome ==
    ASSUME NEW s, NEW n, NEW d \in Dest, NEW row, NEW swept, Home(s, n, d, row),
           swept = row \/ (row \in Tun /\ swept = NoRoute)
    PROVE  Home(s, n, d, swept)
  BY MachineKeys DEF Home

LEMMA SameHome ==
    ASSUME NEW s, NEW t, NEW n, NEW d, NEW row, Home(s, n, d, row),
           t.installed = s.installed, t.pending = s.pending,
           t.iface = s.iface, t.gw = s.gw
    PROVE  Home(t, n, d, row)
<1>1. Routes(t) = Routes(s) BY DEF Routes
<1>2. Through(t, d) = Through(s, d) BY DEF Through
<1>3. Of(t, n, d) = Of(s, n, d) /\ \A i : First(t, i) <=> First(s, i)
  BY <1>1 DEF Of, First
<1>. QED BY <1>1, <1>2, <1>3 DEF Home, Untouched, Retold

LEMMA WholeHome ==
    ASSUME NEW s \in Snapshot, NEW n \in Nat, n >= Len(Routes(s)), NEW d, NEW row
    PROVE  Home(s, n, d, row) <=> Whole(s, d, row)
<1>1. Of(s, n, d) = Of(s, Len(Routes(s)), d) BY RoutesType DEF Of
<1>. QED BY <1>1 DEF Home, Whole, Untouched, Retold

LEMMA NothingLeft ==
    ASSUME NEW s, NEW d, NEW row, Home(s, 0, d, row)
    PROVE  row = InitTable[d]
<1>1. Of(s, 0, d) = {} BY DEF Of
<1>. QED BY <1>1 DEF Home, Retold

(* One record less: of another key, or of this one.                        *)
LEMMA OneLess ==
    ASSUME NEW s \in Snapshot, NEW n \in 1 .. Len(Routes(s)), NEW d
    PROVE  /\ Of(s, n - 1, d) = Of(s, n, d) \ {n}
           /\ n \in Of(s, n, d) <=> Routes(s)[n].dest = d
           /\ Of(s, n - 1, d) = {} => First(s, n) \/ Routes(s)[n].dest # d
<1>1. Len(Routes(s)) \in Nat BY RoutesType
<1>2. Of(s, n - 1, d) = Of(s, n, d) \ {n} BY <1>1 DEF Of
<1>3. n \in Of(s, n, d) <=> Routes(s)[n].dest = d BY <1>1 DEF Of
<1>4. ASSUME Of(s, n - 1, d) = {}, Routes(s)[n].dest = d PROVE First(s, n)
  <2>1. SUFFICES ASSUME NEW j \in 1 .. n - 1 PROVE Routes(s)[j].dest # d
    BY <1>4 DEF First
  <2>2. j \in 1 .. Len(Routes(s)) /\ j <= n - 1 BY <1>1
  <2>. QED BY <1>4, <2>2 DEF Of
<1>. QED BY <1>2, <1>3, <1>4

LEMMA OthersHome ==
    ASSUME NEW s \in Snapshot, NEW n \in 1 .. Len(Routes(s)), NEW d, NEW row,
           Home(s, n, d, row), Routes(s)[n].dest # d
    PROVE  Home(s, n - 1, d, row)
<1>0. Of(s, n - 1, d) = Of(s, n, d) \ {n} /\ n \notin Of(s, n, d) BY OneLess
<1>1. Of(s, n - 1, d) = Of(s, n, d) BY <1>0
<1>. QED BY <1>1 DEF Home, Untouched, Retold

(* Deleting what a record says goes through its `via`.                     *)
Deleted(row, via) == IF DeleteByPrefix \/ row = via THEN NoRoute ELSE row

LEMMA DeleteHome ==
    ASSUME NEW s \in Snapshot, NEW n, NEW d \in Dest, NEW row, Home(s, n, d, row),
           NEW i \in Of(s, n, d), NEW via, via = Routes(s)[i].via
    PROVE  /\ Home(s, n, d, Deleted(row, via))
           /\ Untouched(s, n, d) /\ row = InitTable[d] => Deleted(row, via) = row
<1>1. via = Through(s, d) BY DEF Home
<1>2. ASSUME Untouched(s, n, d), row = InitTable[d] PROVE Deleted(row, via) = row
  <2>1. d \in Capture /\ ~DeleteByPrefix BY <1>2 DEF Untouched
  <2>2. via \in Tun /\ row \notin Tun BY <1>1, <1>2, <2>1, ThroughType, MachineKeys
  <2>. QED BY <2>1, <2>2 DEF Deleted
<1>3. Deleted(row, via) \in {row, NoRoute} BY DEF Deleted
<1>. QED BY <1>2, <1>3 DEF Home

(* A record with nothing to put back is done with once it is deleted.      *)
LEMMA DeletedHome ==
    ASSUME CleanMachine, NEW s \in Snapshot, NEW n \in 1 .. Len(Routes(s)),
           NEW d \in Dest, NEW row, Home(s, n, d, row),
           NEW r, r = Routes(s)[n], r.dest = d, r.replaced = NoRoute
    PROVE  Home(s, n - 1, d, Deleted(row, r.via))
<1>1. /\ Of(s, n - 1, d) = Of(s, n, d) \ {n} /\ n \in Of(s, n, d)
      /\ Of(s, n - 1, d) = {} => First(s, n)
  BY OneLess
<1>2. Home(s, n, d, Deleted(row, r.via)) BY <1>1, DeleteHome
<1>3. CASE Untouched(s, n, d) /\ row = InitTable[d]
  <2>1. Deleted(row, r.via) = row BY <1>1, <1>3, DeleteHome
  <2>. QED BY <1>1, <1>3, <2>1 DEF Home, Untouched
<1>4. CASE Retold(s, n, d) /\ Of(s, n - 1, d) # {}
  <2>1. Retold(s, n - 1, d) BY <1>1, <1>4 DEF Retold
  <2>2. Deleted(row, r.via) \in {row, NoRoute} BY DEF Deleted
  <2>3. InitTable[d] = Deleted(row, r.via)
        \/ Deleted(row, r.via) \in {NoRoute, InitTable[d], Through(s, d)}
    BY <1>2 DEF Home
  <2>. QED BY <1>1, <1>2, <2>1, <2>3 DEF Home
<1>5. CASE Retold(s, n, d) /\ Of(s, n - 1, d) = {} /\ ~(Untouched(s, n, d) /\ row = InitTable[d])
  <2>1. InitTable[d] = NoRoute
    BY <1>1, <1>5 DEF Retold, CleanMachine
  <2>2. row \in {NoRoute, r.via} BY <1>1, <1>5, <2>1 DEF Home
  <2>3. Deleted(row, r.via) = NoRoute BY <2>2 DEF Deleted
  <2>. QED BY <1>5, <2>1, <2>3 DEF Home, Untouched
<1>. QED BY <1>3, <1>4, <1>5 DEF Home

(* One with something to put back: it goes back after the deletion.        *)
LEMMA RestoredHome ==
    ASSUME NEW s \in Snapshot, NEW n \in 1 .. Len(Routes(s)),
           NEW d \in Dest, NEW row, Home(s, n, d, row),
           Routes(s)[n].dest = d, Routes(s)[n].replaced # NoRoute
    PROVE  /\ d # Scoped => Home(s, n - 1, d, Routes(s)[n].replaced)
           /\ d = Scoped /\ row = NoRoute /\ CleanMachine => Home(s, n - 1, d, row)
<1>. DEFINE put == Routes(s)[n].replaced
<1>1. /\ Of(s, n - 1, d) = Of(s, n, d) \ {n} /\ n \in Of(s, n, d)
      /\ Of(s, n - 1, d) = {} => First(s, n)
  BY OneLess
<1>2. Retold(s, n, d) BY <1>1 DEF Home, Untouched
<1>3. ASSUME d # Scoped PROVE Home(s, n - 1, d, put)
  <2>1. put \in {NoRoute, InitTable[d], Through(s, d)}
        /\ (First(s, n) => put = InitTable[d])
    BY <1>1, <1>2, <1>3 DEF Retold
  <2>2. CASE Of(s, n - 1, d) = {}
    BY <1>1, <2>1, <2>2 DEF Home, Untouched
  <2>3. CASE Of(s, n - 1, d) # {}
    <3>1. Retold(s, n - 1, d) BY <1>1, <1>2, <2>3 DEF Retold
    <3>. QED BY <1>1, <2>1, <3>1 DEF Home
  <2>. QED BY <2>2, <2>3
<1>4. ASSUME d = Scoped, row = NoRoute, CleanMachine PROVE Home(s, n - 1, d, row)
  <2>1. row = InitTable[d] BY <1>4 DEF CleanMachine
  <2>2. CASE Of(s, n - 1, d) = {} BY <2>1, <2>2 DEF Home, Untouched
  <2>3. CASE Of(s, n - 1, d) # {} BY <1>1, <1>4, <2>3 DEF Home, Retold
  <2>. QED BY <2>2, <2>3
<1>. QED BY <1>3, <1>4

(* Where a scoped default was recorded, the deletion has taken it away.    *)
LEMMA ScopedGone ==
    ASSUME CleanMachine, NEW s \in Snapshot, NEW n, NEW row, Home(s, n, Scoped, row),
           NEW i \in Of(s, n, Scoped), Routes(s)[i].replaced # NoRoute
    PROVE  Deleted(row, Routes(s)[i].via) = NoRoute
  BY DEF Home, Untouched, Deleted, CleanMachine

(* One record more: t has the n records of s, and r.                       *)
Extends(s, t, n, r, d) ==
    /\ n \in Nat /\ n + 1 = Len(Routes(t)) /\ n + 1 \notin Of(s, n, d)
    /\ Routes(t)[n + 1] = r
    /\ Of(t, n + 1, d) = Of(s, n, d) \cup (IF r.dest = d THEN {n + 1} ELSE {})
    /\ \A i \in Of(s, n, d) :
         Routes(t)[i] = Routes(s)[i] /\ (First(t, i) => First(s, i))
    /\ First(t, n + 1) /\ r.dest = d => Of(s, n, d) = {}

LEMMA OneMore ==
    ASSUME NEW s, NEW t, NEW r, Grown(Routes(s), Routes(t), r), NEW d,
           NEW n, n = Len(Routes(s))
    PROVE  Extends(s, t, n, r, d)
<1>1. /\ n \in Nat /\ Len(Routes(t)) = n + 1 /\ Routes(t)[n + 1] = r
      /\ \A i \in 1 .. n : Routes(t)[i] = Routes(s)[i]
  BY DEF Grown
<1>2. Of(s, n, d) = {i \in 1 .. n : Routes(s)[i].dest = d} BY <1>1 DEF Of
<1>3. Of(t, n + 1, d) = {i \in 1 .. n + 1 : Routes(t)[i].dest = d} BY <1>1 DEF Of
<1>4. Of(t, n + 1, d) = Of(s, n, d) \cup (IF r.dest = d THEN {n + 1} ELSE {})
  BY <1>1, <1>2, <1>3
<1>5. ASSUME NEW i \in Of(s, n, d)
      PROVE  Routes(t)[i] = Routes(s)[i] /\ (First(t, i) => First(s, i))
  <2>1. i \in 1 .. n /\ \A j \in 1 .. i - 1 : j \in 1 .. n BY <1>1, <1>2
  <2>. QED BY <1>1, <2>1 DEF First
<1>6. ASSUME First(t, n + 1), r.dest = d PROVE Of(s, n, d) = {}
  <2>1. \A j \in 1 .. n : j \in 1 .. (n + 1) - 1 BY <1>1
  <2>. QED BY <1>1, <1>2, <1>6, <2>1 DEF First
<1>7. n + 1 \notin Of(s, n, d) BY <1>1, <1>2
<1>. QED BY <1>1, <1>4, <1>5, <1>6, <1>7 DEF Extends

(* With nothing held back, every record is of a route that is in.          *)
LEMMA AllInstalled ==
    ASSUME NEW s \in Snapshot, s.pending = <<>>, NEW d, Untouched(s, Len(Routes(s)), d)
    PROVE  Of(s, Len(Routes(s)), d) = {}
<1>1. Len(Routes(s)) = Len(s.installed) /\ Len(s.installed) \in Nat
  <2>1. s.installed \in Seq(RouteRec) /\ s.pending \in Seq(RouteRec) BY DEF Snapshot
  <2>. QED BY <2>1, RecordsAre
<1>. QED BY <1>1 DEF Of, Untouched

(* A route goes in, and is recorded with what it replaced.                 *)
LEMMA InstalledHome ==
    ASSUME NEW s \in Snapshot, s.pending = <<>>,
           NEW r, r.via = Through(s, r.dest),
           NEW t, Grown(Routes(s), Routes(t), r), t.iface = s.iface, t.gw = s.gw,
           NEW d \in Dest, NEW row, Whole(s, d, row)
    PROVE  /\ d # r.dest => Whole(t, d, row)
           /\ d = r.dest /\ (d # Scoped => r.replaced = row) => Whole(t, d, Through(s, d))
<1>n. PICK n : n = Len(Routes(s)) OBVIOUS
<1>. DEFINE A == Of(s, n, d)
            B == Of(t, n + 1, d)
<1>e. Extends(s, t, n, r, d) BY <1>n, OneMore
<1>3. /\ n + 1 = Len(Routes(t)) /\ Routes(t)[n + 1] = r /\ n + 1 \notin A
      /\ B = A \cup (IF r.dest = d THEN {n + 1} ELSE {})
      /\ \A i \in A : Routes(t)[i] = Routes(s)[i] /\ (First(t, i) => First(s, i))
      /\ First(t, n + 1) /\ r.dest = d => A = {}
  BY <1>e DEF Extends
<1>4. Through(t, d) = Through(s, d) BY DEF Through
<1>5. /\ \A i \in A : Routes(s)[i].via = Through(s, d)
      /\ \/ row = InitTable[d] /\ A = {}
         \/ row \in {NoRoute, InitTable[d], Through(s, d)} /\ Retold(s, n, d)
  BY <1>n, AllInstalled DEF Whole, Home
<1>7. ASSUME d # r.dest PROVE Whole(t, d, row)
  <2>1. B = A BY <1>3, <1>7
  <2>2. CASE A = {} /\ row = InitTable[d]
    <3>1. Home(t, n + 1, d, row) BY <2>1, <2>2 DEF Home, Untouched
    <3>. QED BY <1>3, <3>1 DEF Whole
  <2>3. CASE row \in {NoRoute, InitTable[d], Through(s, d)} /\ Retold(s, n, d)
    <3>1. Retold(t, n + 1, d) BY <1>3, <1>4, <2>1, <2>3 DEF Retold
    <3>2. Home(t, n + 1, d, row) BY <1>3, <1>4, <1>5, <2>1, <2>3, <3>1 DEF Home
    <3>. QED BY <1>3, <3>2 DEF Whole
  <2>. QED BY <1>5, <2>2, <2>3
<1>8. ASSUME d = r.dest, d # Scoped => r.replaced = row PROVE Whole(t, d, Through(s, d))
  <2>1. B = A \cup {n + 1} BY <1>3, <1>8
  <2>2. \A i \in B : Routes(t)[i].via = Through(t, d)
    BY <1>3, <1>4, <1>5, <1>8, <2>1
  <2>3. Retold(t, n + 1, d)
    <3>1. SUFFICES ASSUME d # Scoped, NEW i \in B
                   PROVE  /\ Routes(t)[i].replaced \in {NoRoute, InitTable[d], Through(s, d)}
                          /\ First(t, i) => Routes(t)[i].replaced = InitTable[d]
      BY <1>4, <2>1 DEF Retold
    <3>2. CASE i = n + 1
      <4>1. Routes(t)[i].replaced = row BY <1>3, <1>8, <3>1, <3>2
      <4>2. First(t, i) => A = {} BY <1>3, <1>8, <3>2
      <4>3. A = {} => row = InitTable[d] BY <1>5 DEF Retold
      <4>. QED BY <1>5, <4>1, <4>2, <4>3
    <3>3. CASE i # n + 1
      <4>1. i \in A BY <2>1, <3>1, <3>3
      <4>2. Retold(s, n, d) BY <1>5, <4>1
      <4>. QED BY <1>3, <3>1, <4>1, <4>2 DEF Retold
    <3>. QED BY <3>2, <3>3
  <2>4. Home(t, n + 1, d, Through(s, d)) BY <1>4, <2>2, <2>3 DEF Home
  <2>. QED BY <1>3, <2>4 DEF Whole
<1>. QED BY <1>7, <1>8

LEMMA PartsOf ==
    ASSUME NEW s \in Snapshot
    PROVE  /\ Len(s.installed) \in Nat /\ Len(Routes(s)) \in Nat
           /\ Len(s.installed) <= Len(Routes(s))
           /\ \A i \in 1 .. Len(s.installed) :
                Routes(s)[i] = s.installed[i] /\ i \in 1 .. Len(Routes(s))
           /\ \A i \in 1 .. Len(Routes(s)) : i > Len(s.installed) =>
                \E j \in 1 .. Len(s.pending) : Routes(s)[i] = s.pending[j]
<1>. DEFINE a == Len(s.installed)
            b == Len(s.pending)
            n == Len(Routes(s))
<1>1. s.installed \in Seq(RouteRec) /\ s.pending \in Seq(RouteRec) BY DEF Snapshot
<1>2. /\ a \in Nat /\ b \in Nat /\ n = a + b
      /\ \A i \in 1 .. a : Routes(s)[i] = s.installed[i] /\ i \in 1 .. n
      /\ \A i \in a + 1 .. a + b : Routes(s)[i] = s.pending[i - a]
  BY <1>1, RecordsAre
<1>. HIDE DEF a, b, n
<1>3. n \in Nat /\ a <= n BY <1>2
<1>4. ASSUME NEW i \in 1 .. n, i > a PROVE \E j \in 1 .. b : Routes(s)[i] = s.pending[j]
  <2>1. i \in a + 1 .. a + b BY <1>2, <1>4
  <2>2. i - a \in 1 .. b BY <1>2, <2>1
  <2>. QED BY <1>2, <2>1, <2>2
<1>. QED BY <1>2, <1>3, <1>4 DEF a, b, n

(* A capture is held back: recorded, with nothing to put back.             *)
LEMMA HeldBackHome ==
    ASSUME CleanMachine, NEW s \in Snapshot,
           NEW r, r.dest \in Capture, r.via = s.iface, r.replaced = NoRoute,
           NEW t, Grown(Routes(s), Routes(t), r),
           t.installed = s.installed, t.iface = s.iface, t.gw = s.gw,
           NEW d \in Dest, NEW row, Whole(s, d, row), d = r.dest => row = InitTable[d]
    PROVE  Whole(t, d, row)
<1>c. PICK c : c = r.dest OBVIOUS
<1>n. PICK n : n = Len(Routes(s)) OBVIOUS
<1>. DEFINE A == Of(s, n, d)
            B == Of(t, n + 1, d)
<1>e. Extends(s, t, n, r, d) BY <1>n, OneMore
<1>3. /\ n + 1 = Len(Routes(t)) /\ Routes(t)[n + 1] = r /\ n + 1 \notin A
      /\ B = A \cup (IF r.dest = d THEN {n + 1} ELSE {})
      /\ \A i \in A : Routes(t)[i] = Routes(s)[i] /\ (First(t, i) => First(s, i))
      /\ First(t, n + 1) /\ r.dest = d => A = {}
  BY <1>e DEF Extends
<1>4. Through(t, d) = Through(s, d) /\ t.installed = s.installed
  BY DEF Through
<1>5. n \in Nat /\ n + 1 > Len(s.installed)
  <2>0. Len(s.installed) \in Nat /\ Len(Routes(s)) \in Nat /\ Len(s.installed) <= Len(Routes(s))
    BY PartsOf
  <2>1. n \in Nat /\ Len(s.installed) \in Nat /\ Len(s.installed) <= n
    BY <1>n, <2>0
  <2>. QED BY <2>1
<1>6. r.dest = c /\ c \in Capture /\ r.via = s.iface /\ r.replaced = NoRoute BY <1>c
<1>7. \A i \in B : Routes(t)[i].via = Through(t, d)
  <2>1. \A i \in A : Routes(s)[i].via = Through(s, d) BY <1>n DEF Whole, Home
  <2>2. r.dest = d => r.via = Through(s, d) BY <1>6 DEF Through
  <2>. QED BY <1>3, <1>4, <2>1, <2>2
<1>8. CASE Untouched(s, n, d) /\ row = InitTable[d] /\ (d = c => ~DeleteByPrefix)
  <2>1. Untouched(t, n + 1, d)
    <3>1. SUFFICES ASSUME NEW i \in B
                   PROVE  /\ d \in Capture /\ ~DeleteByPrefix
                          /\ i > Len(t.installed) /\ Routes(t)[i].replaced = NoRoute
      BY DEF Untouched
    <3>2. CASE i \in A BY <1>3, <1>4, <1>8, <3>2 DEF Untouched
    <3>3. CASE i \notin A
      <4>1. i = n + 1 /\ d = c BY <1>3, <1>6, <3>1, <3>3
      <4>. QED BY <1>3, <1>4, <1>5, <1>6, <1>8, <4>1
    <3>. QED BY <3>2, <3>3
  <2>2. Home(t, n + 1, d, row) BY <1>7, <1>8, <2>1 DEF Home
  <2>. QED BY <1>3, <2>2 DEF Whole
<1>9. CASE Retold(s, n, d) \/ (Untouched(s, n, d) /\ d = c /\ DeleteByPrefix)
  <2>1. Untouched(s, n, d) /\ DeleteByPrefix => A = {} BY DEF Untouched
  <2>2. d = c /\ DeleteByPrefix => InitTable[d] = NoRoute BY <1>6 DEF CleanMachine
  <2>3. Retold(t, n + 1, d)
    <3>1. B # {} BY <1>3, <1>6, <1>9 DEF Retold
    <3>2. SUFFICES ASSUME d # Scoped, NEW i \in B
                   PROVE  /\ Routes(t)[i].replaced \in {NoRoute, InitTable[d], Through(s, d)}
                          /\ First(t, i) => Routes(t)[i].replaced = InitTable[d]
      BY <1>4, <3>1 DEF Retold
    <3>3. CASE i \in A
      <4>1. Retold(s, n, d) BY <1>9, <2>1, <3>3
      <4>. QED BY <1>3, <3>2, <3>3, <4>1 DEF Retold
    <3>4. CASE i \notin A
      <4>1. i = n + 1 /\ d = c BY <1>3, <1>6, <3>2, <3>4
      <4>2. Routes(t)[i].replaced = NoRoute BY <1>3, <1>6, <4>1
      <4>3. First(t, i) => A = {} BY <1>3, <1>6, <4>1
      <4>4. A = {} => InitTable[d] = NoRoute BY <1>9, <2>2 DEF Retold
      <4>. QED BY <4>2, <4>3, <4>4
    <3>. QED BY <3>3, <3>4
  <2>4. row \in {NoRoute, InitTable[d], Through(t, d)} BY <1>4 DEF Whole, Home
  <2>5. Home(t, n + 1, d, row) BY <1>7, <2>3, <2>4 DEF Home
  <2>. QED BY <1>3, <2>5 DEF Whole
<1>. QED BY <1>n, <1>8, <1>9 DEF Whole, Home

(* The captures held back are taken off the record to be installed.        *)
LEMMA TakenHome ==
    ASSUME NEW s \in Snapshot, Captures(s.pending),
           NEW t, t = [s EXCEPT !.pending = <<>>],
           NEW d \in Dest, NEW row, Whole(s, d, row),
           s.pending # <<>> /\ d \in Capture => row = InitTable[d]
    PROVE  Whole(t, d, row)
<1>n. PICK m, n : m = Len(s.installed) /\ n = Len(Routes(s)) OBVIOUS
<1>. DEFINE A == Of(s, n, d)
            B == Of(t, m, d)
<1>1. /\ m \in Nat /\ n \in Nat /\ m <= n
      /\ \A i \in 1 .. m : Routes(s)[i] = s.installed[i] /\ i \in 1 .. n
      /\ \A i \in 1 .. n : i > m =>
           \E j \in 1 .. Len(s.pending) : Routes(s)[i] = s.pending[j]
  BY <1>n, PartsOf
<1>2. Routes(t) = s.installed /\ t.installed = s.installed
  BY InstalledPart DEF Snapshot
<1>3. Through(t, d) = Through(s, d) BY DEF Through, Snapshot
<1>4. /\ B = {i \in A : i <= m}
      /\ \A i \in B : Routes(t)[i] = Routes(s)[i] /\ (First(t, i) => First(s, i))
  <2>1. B = {i \in 1 .. m : s.installed[i].dest = d} BY <1>1, <1>2, <1>n DEF Of
  <2>2. A = {i \in 1 .. n : Routes(s)[i].dest = d}
    <3>1. \A i \in 1 .. n : i <= n BY <1>1
    <3>. QED BY <1>n, <3>1 DEF Of
  <2>3. B = {i \in A : i <= m} BY <1>1, <2>1, <2>2
  <2>4. ASSUME NEW i \in 1 .. m PROVE First(t, i) => First(s, i)
    <3>1. \A j \in 1 .. i - 1 : j \in 1 .. m BY <1>1
    <3>. QED BY <1>1, <1>2, <3>1 DEF First
  <2>. QED BY <1>1, <1>2, <2>1, <2>3, <2>4
<1>5. \A i \in B : Routes(t)[i].via = Through(t, d)
  BY <1>3, <1>4, <1>n DEF Whole, Home
<1>6. Untouched(s, n, d) => B = {}
  <2>1. SUFFICES ASSUME Untouched(s, n, d), NEW i \in B PROVE FALSE OBVIOUS
  <2>2. i \in A /\ i <= m /\ i \in Nat BY <1>4 DEF Of
  <2>3. i > m BY <1>n, <2>1, <2>2 DEF Untouched
  <2>. QED BY <1>1, <2>2, <2>3
<1>7. B = {} => row = InitTable[d]
  <2>1. SUFFICES ASSUME B = {}, row # InitTable[d] PROVE FALSE OBVIOUS
  <2>2. Retold(s, n, d) BY <1>n, <2>1 DEF Whole, Home
  <2>3. PICK i \in A : TRUE BY <2>2 DEF Retold
  <2>4. i \in 1 .. n /\ i > m /\ Routes(s)[i].dest = d
    <3>1. i \in 1 .. n /\ Routes(s)[i].dest = d BY <1>n, <2>3 DEF Of
    <3>2. ~(i <= m) BY <1>4, <2>1, <2>3
    <3>. QED BY <1>1, <3>1, <3>2
  <2>5. PICK j \in 1 .. Len(s.pending) : s.pending[j].dest = d BY <1>1, <2>4
  <2>6. d \in Capture /\ s.pending # <<>> BY <2>5 DEF Captures
  <2>. QED BY <2>1, <2>6
<1>8. CASE B = {}
  <2>1. Home(t, m, d, row) BY <1>7, <1>8 DEF Home, Untouched
  <2>. QED BY <1>2, <1>n, <2>1 DEF Whole
<1>9. CASE B # {}
  <2>1. Retold(s, n, d) /\ row \in {NoRoute, InitTable[d], Through(s, d)}
    BY <1>6, <1>9, <1>n DEF Whole, Home
  <2>2. Retold(t, m, d)
    <3>1. \A i \in B : i \in A BY <1>4
    <3>. QED BY <1>3, <1>4, <1>9, <2>1, <3>1 DEF Retold
  <2>3. Home(t, m, d, row) BY <1>3, <1>5, <2>1, <2>2 DEF Home
  <2>. QED BY <1>2, <1>n, <2>3 DEF Whole
<1>. QED BY <1>8, <1>9

------------------------------------------------------------------------------
(* Outside the handlers that edit them, the routes a handler works with    *)
(* are the ones in the file.                                               *)
SameRoutes(s) ==
    /\ s.installed = disk.installed /\ s.pending = disk.pending
    /\ s.iface = disk.iface /\ s.gw = disk.gw

Behind ==
    \/ op = "commit" /\ pc \in Installing \cup Rolling \cup {"done"}
    \/ op \in {"prepare", "up"} /\ pc \in {"record", "done"} \cup Rolling

FromFile ==
    /\ pc \in Preparing \cup Rolling \cup {"bootanchors", "bootsave", "probe"} =>
         disk \in Snapshot
    /\ pc \in {"idle", "down"} => snap = NoSnap
    /\ pc = "idle" /\ mem # NoSnap => disk \in Snapshot /\ SameRoutes(mem)
    /\ snap # NoSnap /\ disk # NoSnap => Behind \/ SameRoutes(snap)

BypassesOnly ==
    pc \in Installing /\ op = "prepare" =>
        \A i \in 1 .. Len(plan) : plan[i].dest \notin Capture

FileOK == FromFile /\ BypassesOnly

LEMMA FileInit == Init => FileOK
  BY DEF Init, FileOK, FromFile, BypassesOnly, Installing, Preparing, Rolling

(* A handler that is over has no snapshot; what it leaves in memory is in  *)
(* the file.                                                               *)
LEMMA FileIdle ==
    ASSUME Idle \/ (pc' = "down" /\ snap' = NoSnap /\ mem' = NoSnap),
           mem' # NoSnap => (disk \in Snapshot /\ SameRoutes(mem))'
    PROVE  FileOK'
  BY DEF Idle, FileOK, FromFile, BypassesOnly, Installing, Preparing, Rolling

LEMMA FileRollback ==
    ASSUME NEW s, Rollback(s), disk' \in Snapshot,
           Behind' \/ (s.installed = disk'.installed /\ s.pending = disk'.pending
                       /\ s.iface = disk'.iface /\ s.gw = disk'.gw)
    PROVE  FileOK'
  BY DEF Rollback, FileOK, FromFile, BypassesOnly, SameRoutes, Installing, Rolling,
         Preparing

LEMMA FileRequest == Shape /\ DnsOK /\ SessionOK /\ FileOK /\ Request => FileOK'
<1>. SUFFICES ASSUME Shape, DnsOK, SessionOK, FileOK, Request PROVE FileOK'
  OBVIOUS
<1>0. /\ mem # NoSnap => mem \in Snapshot
      /\ disk # NoSnap => disk \in Snapshot
  BY DEF Shape, StoreOK
<1>m. pc = "idle" /\ mem # NoSnap => disk \in Snapshot /\ SameRoutes(mem)
  BY DEF FileOK, FromFile
<1>1. ASSUME NEW t \in Tun, NEW defer \in DeferModes, TunUp(t, defer)
      PROVE  FileOK'
  <2>1. /\ snap' = NewSnapshot(t) /\ disk' = NewSnapshot(t) /\ pc' = "apply"
        /\ table[Default] \in Gateway
        /\ op' = "prepare" => plan' = BypassPlan
    BY <1>1 DEF TunUp
  <2>2. disk' \in Snapshot /\ snap' = disk'
    BY <2>1, NewSnapshotType DEF Shape, StoreOK
  <2>3. \A i \in 1 .. Len(BypassPlan) : BypassPlan[i].dest \notin Capture
    <3>1. \A i \in 1 .. Len(BypassPlan) :
            BypassPlan[i] \in [dest : Dest \ Capture, critical : BOOLEAN]
      BY PlanAssumption, ElementOfSeq
    <3>. QED BY <3>1
  <2>4. FromFile' BY <2>1, <2>2 DEF FromFile, SameRoutes
  <2>. QED BY <2>1, <2>3, <2>4 DEF FileOK, BypassesOnly
<1>2. CASE CommitRoutes
  <2>1. pc = "idle" /\ mem # NoSnap /\ pc' = "apply" /\ op' = "commit" /\ disk' = disk
    BY <1>2 DEF CommitRoutes
  <2>. QED
    BY <1>m, <2>1 DEF FileOK, FromFile, BypassesOnly, Behind, Installing
<1>3. CASE TakeTunFd
  BY <1>3 DEF TakeTunFd, work, FileOK, FromFile, BypassesOnly, SameRoutes, Behind
<1>4. CASE TunDown
  <2>1. Rollback(mem) /\ disk' = disk /\ disk \in Snapshot /\ SameRoutes(mem)
    BY <1>4, <1>m DEF TunDown
  <2>. QED BY <2>1, FileRollback DEF SameRoutes
<1>5. CASE Restore
  <2>1. disk' = disk /\ \/ Rollback(mem) /\ disk \in Snapshot /\ SameRoutes(mem)
                        \/ Rollback(disk) /\ disk \in Snapshot
    BY <1>0, <1>5, <1>m DEF Restore
  <2>. QED BY <2>1, FileRollback DEF SameRoutes
<1>6. CASE Sigterm
  <2>1. CASE Exit
    BY <2>1, FileIdle DEF Exit
  <2>2. CASE ~Exit
    <3>1. Rollback(disk) /\ disk' = disk /\ disk \in Snapshot
      BY <1>0, <1>6, <2>2 DEF Sigterm
    <3>. QED BY <3>1, FileRollback
  <2>. QED BY <2>1, <2>2
<1>7. ASSUME NEW a \in Anchor, InstallAnchor(a) \/ RemoveAnchor(a)
      PROVE  FileOK'
  <2>1. /\ pc = "idle" /\ mem # NoSnap /\ pc' = "anchorsave" /\ disk' = disk
        /\ \E X : snap' = [mem EXCEPT !.anchors = X]
    BY <1>7 DEF InstallAnchor, RemoveAnchor
  <2>2. /\ snap'.installed = mem.installed /\ snap'.pending = mem.pending
        /\ snap'.iface = mem.iface /\ snap'.gw = mem.gw
    BY <1>0, <2>1 DEF Snapshot
  <2>3. SameRoutes(snap)' BY <1>m, <2>1, <2>2 DEF SameRoutes
  <2>4. FromFile' BY <1>m, <2>1, <2>3 DEF FromFile
  <2>. QED BY <2>1, <2>4 DEF FileOK, BypassesOnly, Installing
<1>. QED BY <1>1, <1>2, <1>3, <1>4, <1>5, <1>6, <1>7 DEF Request

LEMMA FileApply == Shape /\ DnsOK /\ SessionOK /\ FileOK /\ Apply => FileOK'
<1>. SUFFICES ASSUME Shape, DnsOK, SessionOK, FileOK, Apply PROVE FileOK'
  OBVIOUS
<1>0. pc \in Preparing => /\ snap \in Snapshot /\ snap # NoSnap
                          /\ disk \in Snapshot /\ disk # NoSnap
                          /\ Behind \/ SameRoutes(snap)
  BY NoSnapAssumption
     DEF Shape, WorkOK, BusyHasSnap, Working, Preparing, FileOK, FromFile
<1>p. plan \in Seq(PlanRec) BY DEF Shape, WorkOK
<1>o. pc \in Installing => op \in {"prepare", "up", "commit"}
  BY DEF SessionOK, InHandler
<1>b. pc \in Installing /\ op = "prepare" =>
        \A i \in 1 .. Len(plan) : plan[i].dest \notin Capture
  BY DEF FileOK, BypassesOnly
<1>a. ASSUME pc \in Installing, \E s : Rollback(s), UNCHANGED <<op, disk>>
      PROVE  FileOK'
  <2>1. PICK s : Rollback(s) BY <1>a
  <2>2. pc' = "anchors" BY <2>1 DEF Rollback
  <2>3. Behind' BY <1>a, <1>o, <2>2 DEF Behind, Rolling
  <2>4. disk' \in Snapshot BY <1>0, <1>a DEF Preparing, Installing
  <2>. QED BY <2>1, <2>3, <2>4, FileRollback
<1>1. CASE InstallRoute
  <2>1. /\ pc = "apply" /\ plan # <<>> /\ pc' = "record" /\ op' = op /\ disk' = disk
        /\ plan' = Tail(plan)
    BY <1>1 DEF InstallRoute
  <2>2. Behind' BY <1>o, <2>1 DEF Behind, Installing
  <2>3. FromFile' BY <1>0, <2>1, <2>2 DEF FromFile, Preparing
  <2>4. \A i \in 1 .. Len(plan') : i + 1 \in 1 .. Len(plan) /\ plan'[i] = plan[i + 1]
    BY <1>p, <2>1
  <2>. QED
    BY <1>b, <2>1, <2>3, <2>4 DEF FileOK, BypassesOnly, Installing
<1>2. CASE RouteFails
  <2>1. CASE Abort BY <1>2, <1>a, <2>1 DEF Abort, RouteFails, Installing
  <2>2. CASE ~Abort
    <3>1. /\ pc = "apply" /\ plan # <<>> /\ UNCHANGED <<disk, mem, snap, pc, op>>
          /\ plan' = Tail(plan)
      BY <1>2, <2>2 DEF RouteFails
    <3>2. \A i \in 1 .. Len(plan') : i + 1 \in 1 .. Len(plan) /\ plan'[i] = plan[i + 1]
      BY <1>p, <3>1
    <3>3. FromFile' BY <3>1 DEF FileOK, FromFile, SameRoutes, Behind
    <3>. QED
      BY <1>b, <3>1, <3>2, <3>3 DEF FileOK, BypassesOnly, Installing
  <2>. QED BY <2>1, <2>2
<1>3. CASE SaveRoute
  <2>1. /\ pc = "record" /\ pc' = "apply" /\ disk' = snap /\ UNCHANGED <<snap, plan, op>>
    BY <1>3 DEF SaveRoute
  <2>2. FromFile' BY <1>0, <2>1 DEF FromFile, SameRoutes, Preparing
  <2>. QED BY <1>b, <2>1, <2>2 DEF FileOK, BypassesOnly, Installing
<1>4. CASE SaveRouteFails \/ ConfigureFails \/ SetDnsFails \/ DeferRouteFails
           \/ BackupDnsFails
  BY <1>4, <1>a DEF SaveRouteFails, ConfigureFails, SetDnsFails, DeferRouteFails,
                    BackupDnsFails, Abort, DeferTurn, DnsTurn, Installing
<1>5. CASE DeferRoute \/ BackupDns
  <2>1. /\ pc' \in {"apply", "setdns"} /\ plan' = <<>> /\ snap' = disk'
        /\ pc \in {"apply"}
    BY <1>5 DEF DeferRoute, DeferTurn, BackupDns, DnsTurn
  <2>2. snap' \in Snapshot
    BY <1>5, <2>1, ShapeApply DEF Apply, Shape, WorkOK, BusyHasSnap, Working
  <2>3. FromFile' BY <2>1, <2>2 DEF FromFile, SameRoutes
  <2>. QED BY <2>1, <2>3 DEF FileOK, BypassesOnly
<1>6. CASE Prepared
  <2>1. pc = "apply" /\ op = "prepare" /\ Idle /\ mem' = snap /\ disk' = disk
    BY <1>6 DEF Prepared, DeferTurn
  <2>2. SameRoutes(snap) /\ disk \in Snapshot
    BY <1>0, <2>1 DEF Behind, Preparing, Rolling
  <2>. QED BY <2>1, <2>2, FileIdle DEF SameRoutes
<1>7. CASE SetDns
  <2>1. /\ pc = "setdns" /\ pc' = "apply" /\ UNCHANGED <<disk, mem, snap, plan, op>>
    BY <1>7 DEF SetDns
  <2>2. Behind => Behind'
    BY <1>o, <2>1 DEF Behind, Installing, Rolling
  <2>3. FromFile'
    BY <1>0, <2>1, <2>2 DEF FromFile, SameRoutes, Preparing
  <2>. QED BY <1>b, <2>1, <2>3 DEF FileOK, BypassesOnly, Installing
<1>8. CASE MarkUp
  <2>1. /\ pc = "apply" /\ Idle /\ disk' = mem' /\ mem' = [snap EXCEPT !.state = "Up"]
    BY <1>8 DEF MarkUp, DnsTurn
  <2>2. mem' \in Snapshot BY <1>0, <2>1 DEF Snapshot, Preparing
  <2>. QED BY <2>1, <2>2, FileIdle DEF SameRoutes
<1>9. CASE MarkUpFails
  <2>1. CASE Abort BY <1>9, <1>a, <2>1 DEF Abort, MarkUpFails, DnsTurn, Installing
  <2>2. CASE ~Abort
    <3>1. Idle /\ mem' = NoSnap BY <1>9, <2>2 DEF MarkUpFails
    <3>. QED BY <3>1, FileIdle
  <2>. QED BY <2>1, <2>2
<1>10. CASE SaveAnchors \/ SaveAnchorsFails
  <2>1. /\ pc = "anchorsave" /\ Idle /\ mem' = snap /\ disk' \in {disk, snap}
    BY <1>10 DEF SaveAnchors, SaveAnchorsFails
  <2>2. snap \in Snapshot /\ SameRoutes(snap) /\ disk \in Snapshot
    BY <1>0, <2>1 DEF Behind, Preparing, Installing, Rolling
  <2>3. (disk \in Snapshot /\ SameRoutes(mem))' BY <2>1, <2>2 DEF SameRoutes
  <2>. QED BY <2>1, <2>3, FileIdle
<1>. QED
  BY <1>1, <1>2, <1>3, <1>4, <1>5, <1>6, <1>7, <1>8, <1>9, <1>10 DEF Apply

LEMMA FileUndo == Shape /\ DnsOK /\ FileOK /\ Undo => FileOK'
<1>. SUFFICES ASSUME Shape, DnsOK, FileOK, Undo PROVE FileOK'
  OBVIOUS
<1>m. pc' \in Closing \/ pc' = "idle" BY NothingToServe
<1>n. mem' = NoSnap BY NothingToServe
<1>1. CASE UndoAnchors \/ UndoDns \/ DeleteRoute \/ RestoreRoute \/ SkipChecks
           \/ CheckRoutes \/ CheckDns
  <2>1. /\ pc \in Rolling /\ pc' \in Rolling \cup {"done"}
        /\ UNCHANGED <<disk, snap, op>>
    BY <1>1 DEF UndoAnchors, UndoDns, DeleteRoute, RestoreRoute, SkipChecks,
                CheckRoutes, CheckDns, Rolling, system
  <2>2. Behind => Behind' BY <2>1 DEF Behind, Rolling, Installing
  <2>3. FromFile'
    BY <1>n, <2>1, <2>2 DEF FileOK, FromFile, SameRoutes, Rolling, Preparing
  <2>. QED BY <2>1, <2>3 DEF FileOK, BypassesOnly, Rolling, Installing
<1>2. CASE Clear \/ EndBoot
  <2>1. /\ pc' \in {"done", "reconcile"} /\ snap' = snap /\ op' = op
        /\ disk' = disk \/ disk' = NoSnap
        /\ Behind => Behind'
    BY <1>2 DEF Clear, EndBoot, system, Behind, Rolling, Installing
  <2>2. FromFile'
    BY <1>n, <2>1 DEF FileOK, FromFile, SameRoutes, Rolling, Preparing
  <2>. QED BY <2>1, <2>2 DEF FileOK, BypassesOnly, Installing
<1>3. CASE EndSession \/ EndCommit \/ EndTerm
  BY <1>3, <1>n, FileIdle DEF EndSession, EndCommit, EndTerm, Exit
<1>4. CASE EndRestore
  <2>1. CASE Idle BY <1>n, <2>1, FileIdle
  <2>2. CASE ~Idle
    <3>1. disk # NoSnap /\ Rollback(disk) /\ disk' = disk
      BY <1>4, <2>2 DEF EndRestore
    <3>2. disk \in Snapshot BY <3>1 DEF Shape, StoreOK
    <3>. QED BY <3>1, <3>2, FileRollback
  <2>. QED BY <2>1, <2>2
<1>. QED BY <1>1, <1>2, <1>3, <1>4 DEF Undo

LEMMA FileRecover == Shape /\ DnsOK /\ FileOK /\ Recover => FileOK'
<1>. SUFFICES ASSUME Shape, DnsOK, FileOK, Recover PROVE FileOK'
  OBVIOUS
<1>n. mem' = NoSnap BY NothingToServe
<1>1. CASE Boot
  <2>1. /\ snap' = disk /\ disk' = disk /\ pc' \in {"reconcile", "probe", "bootanchors"}
        /\ pc' # "reconcile" => disk # NoSnap
    BY <1>1 DEF Boot
  <2>2. disk # NoSnap => disk \in Snapshot BY DEF Shape, StoreOK
  <2>3. FromFile' BY <1>n, <2>1, <2>2 DEF FromFile, SameRoutes, Preparing, Rolling
  <2>. QED BY <2>1, <2>3 DEF FileOK, BypassesOnly, Installing
<1>2. CASE BootAnchors \/ SaveBootAnchors
  <2>1. /\ pc \in {"bootanchors", "bootsave"} /\ pc' \in {"bootsave", "probe"}
        /\ snap' = snap \/ \E X : snap' = [snap EXCEPT !.anchors = X]
        /\ disk' = disk \/ (disk' = snap /\ snap' = snap)
    BY <1>2 DEF BootAnchors, SaveBootAnchors
  <2>2. snap \in Snapshot /\ disk \in Snapshot /\ SameRoutes(snap)
    BY <2>1, NoSnapAssumption
       DEF Shape, WorkOK, BusyHasSnap, Working, FileOK, FromFile, Behind, Rolling,
           Installing
  <2>3. /\ snap'.installed = snap.installed /\ snap'.pending = snap.pending
        /\ snap'.iface = snap.iface /\ snap'.gw = snap.gw
    BY <2>1, <2>2 DEF Snapshot
  <2>4. disk' \in Snapshot /\ SameRoutes(snap)' BY <2>1, <2>2, <2>3 DEF SameRoutes
  <2>5. FromFile' BY <2>1, <2>4 DEF FromFile
  <2>. QED BY <2>1, <2>5 DEF FileOK, BypassesOnly, Installing
<1>3. CASE RollbackStale
  <2>1. pc = "probe" /\ Rollback(snap) /\ disk' = disk BY <1>3 DEF RollbackStale
  <2>2. disk \in Snapshot /\ SameRoutes(snap)
    BY <2>1, NoSnapAssumption
       DEF Shape, WorkOK, BusyHasSnap, Working, FileOK, FromFile, Behind, Rolling,
           Installing
  <2>. QED BY <2>1, <2>2, FileRollback DEF SameRoutes
<1>4. CASE LeaveRunning \/ Reconcile
  BY <1>4, <1>n, FileIdle DEF LeaveRunning, Reconcile
<1>. QED BY <1>1, <1>2, <1>3, <1>4 DEF Recover

LEMMA FileNext == Shape /\ DnsOK /\ SessionOK /\ FileOK /\ [Next]_vars => FileOK'
<1>. SUFFICES ASSUME Shape, DnsOK, SessionOK, FileOK, [Next]_vars PROVE FileOK'
  OBVIOUS
<1>1. CASE Crash BY <1>1, FileIdle DEF Crash, Exit
<1>2. CASE UNCHANGED <<disk, mem, work>>
  BY <1>2 DEF work, FileOK, FromFile, BypassesOnly, SameRoutes, Behind
<1>3. Environment \/ UNCHANGED vars => Crash \/ UNCHANGED <<disk, mem, work>>
  BY DEF Environment, AppExit, NetworkSwitch, vars, system
<1>. QED BY <1>1, <1>2, <1>3, FileRequest, FileApply, FileUndo, FileRecover DEF Next

------------------------------------------------------------------------------
(* The default route is the one of the network, or missing for a while;    *)
(* every session knows its gateway, and what it has recorded of it.        *)
DefaultIn(s) ==
    s # NoSnap =>
        /\ s.gw = InitTable[Default]
        /\ \A i \in 1 .. Len(Routes(s)) : PrefixRow(Routes(s)[i].dest) = Default =>
             Routes(s)[i].replaced \in {NoRoute, InitTable[Default]}

DefaultOK ==
    /\ table[Default] \in {NoRoute, InitTable[Default]}
    /\ DefaultIn(disk) /\ DefaultIn(mem) /\ DefaultIn(snap)

LEMMA StillSteady ==
    ASSUME Shape, [Next]_vars, Steady'
    PROVE  Steady /\ ~Silent /\ \A v \in Gateway \cup {NoRoute} : ~NetworkSwitch(v)
<1>1. Steady BY CountsGrow DEF Steady, Bounded
<1>2. ~Silent BY <1>1 DEF Steady, Silent, Spend, Shape, StoreOK, Bounded
<1>3. \A v \in Gateway \cup {NoRoute} : ~NetworkSwitch(v)
  BY <1>1 DEF Steady, NetworkSwitch, Spend, Shape, StoreOK, Bounded
<1>. QED BY <1>1, <1>2, <1>3

LEMMA DefaultSame ==
    ASSUME NEW s, NEW t, DefaultIn(s), s # NoSnap,
           t.installed = s.installed, t.pending = s.pending, t.gw = s.gw
    PROVE  DefaultIn(t)
<1>1. Routes(t) = Routes(s) BY DEF Routes
<1>. QED BY <1>1 DEF DefaultIn

LEMMA DefaultGrown ==
    ASSUME NEW s, NEW t, NEW r, DefaultIn(s), s # NoSnap, t.gw = s.gw,
           Grown(Routes(s), Routes(t), r),
           PrefixRow(r.dest) = Default => r.replaced \in {NoRoute, InitTable[Default]}
    PROVE  DefaultIn(t)
<1>1. \A i \in 1 .. Len(Routes(t)) :
        Routes(t)[i] = r \/ (i \in 1 .. Len(Routes(s)) /\ Routes(t)[i] = Routes(s)[i])
  BY GrownRecords
<1>. QED BY <1>1 DEF DefaultIn

LEMMA DefaultTaken ==
    ASSUME NEW s \in Snapshot, DefaultIn(s)
    PROVE  DefaultIn([s EXCEPT !.pending = <<>>])
<1>. DEFINE t == [s EXCEPT !.pending = <<>>]
<1>1. Routes(t) = s.installed BY InstalledPart
<1>2. t.gw = s.gw BY DEF Snapshot
<1>. HIDE DEF t
<1>3. \A i \in 1 .. Len(s.installed) :
        Routes(s)[i] = s.installed[i] /\ i \in 1 .. Len(Routes(s))
  BY PartsOf
<1>4. s # NoSnap BY NoSnapAssumption
<1>5. DefaultIn(t) BY <1>1, <1>2, <1>3, <1>4 DEF DefaultIn
<1>. QED BY <1>5 DEF t

(* What a handler makes of its snapshot.                                   *)
LEMMA DeferredGrows ==
    ASSUME snap \in Snapshot, Len(snap.pending) < Len(CapturePlan)
    PROVE  \E c \in Capture :
             Deferred = [snap EXCEPT !.pending = Append(snap.pending,
                 [dest |-> c, via |-> snap.iface, replaced |-> NoRoute])]
<1>. DEFINE c == CapturePlan[Len(snap.pending) + 1].dest
<1>1. snap.pending \in Seq(RouteRec) /\ Len(snap.pending) \in Nat BY DEF Snapshot
<1>2. CapturePlan \in Seq([dest : Capture, critical : {TRUE}]) BY PlanAssumption
<1>3. Len(snap.pending) + 1 \in 1 .. Len(CapturePlan)
  <2>1. Len(CapturePlan) \in Nat BY <1>2
  <2>. QED BY <1>1, <2>1
<1>4. c \in Capture
  <2>1. CapturePlan[Len(snap.pending) + 1] \in [dest : Capture, critical : {TRUE}]
    BY <1>2, <1>3, ElementOfSeq
  <2>. QED BY <2>1
<1>. QED BY <1>4 DEF Deferred

LEMMA BackedUpRoutes ==
    ASSUME snap \in Snapshot
    PROVE  /\ BackedUp.installed = snap.installed /\ BackedUp.pending = snap.pending
           /\ BackedUp.iface = snap.iface /\ BackedUp.gw = snap.gw
  BY DEF BackedUp, Snapshot

LEMMA MarkedRoutes ==
    ASSUME snap \in Snapshot, NEW s, s = [snap EXCEPT !.state = "Up"]
    PROVE  /\ s.installed = snap.installed /\ s.pending = snap.pending
           /\ s.iface = snap.iface /\ s.gw = snap.gw
  BY DEF Snapshot

(* An install looks the prefix up and records what it saw.                 *)
LEMMA InstallStep ==
    ASSUME Shape, SessionOK, InstallRoute, ~Silent
    PROVE  \E k \in Dest :
             LET via == IF k \in Capture THEN snap.iface ELSE snap.gw
                 r   == [dest |-> k, via |-> via, replaced |-> table[PrefixRow(k)]]
             IN  /\ plan # <<>> /\ k = Head(plan).dest
                 /\ snap \in Snapshot /\ snap.pending = <<>> /\ pc = "apply"
                 /\ table' = [table EXCEPT ![k] = via]
                 /\ snap' = [snap EXCEPT !.installed = Append(snap.installed, r)]
                 /\ r \in RouteRec
<1>. DEFINE k   == Head(plan).dest
            via == IF k \in Capture THEN snap.iface ELSE snap.gw
            r   == [dest |-> k, via |-> via, replaced |-> table[PrefixRow(k)]]
<1>1. pc = "apply" /\ plan # <<>> BY DEF InstallRoute
<1>2. snap \in Snapshot BY <1>1 DEF Shape, WorkOK, BusyHasSnap, Working
<1>3. snap.pending = <<>> BY <1>1 DEF SessionOK, InHandler, Installing
<1>4. k \in Dest
  <2>1. plan \in Seq(PlanRec) BY DEF Shape, WorkOK
  <2>2. Head(plan) \in PlanRec BY <1>1, <2>1
  <2>. QED BY <2>2 DEF PlanRec
<1>5. /\ table' = [table EXCEPT ![k] = via]
      /\ snap' = [snap EXCEPT !.installed = Append(snap.installed, r)]
  BY DEF InstallRoute
<1>6. r \in RouteRec
  <2>1. snap.iface \in Via /\ snap.gw \in Via BY <1>2 DEF Snapshot, Via
  <2>2. PrefixRow(k) \in Dest BY <1>4, MachineKeys DEF PrefixRow
  <2>3. table[PrefixRow(k)] \in Via BY <2>2 DEF Shape, SystemOK
  <2>. QED BY <1>4, <2>1, <2>3 DEF RouteRec
<1>. QED BY <1>1, <1>2, <1>3, <1>4, <1>5, <1>6

LEMMA DefaultTable ==
    ASSUME Shape, SessionOK, DefaultOK, [Next]_vars, Steady'
    PROVE  table'[Default] \in {NoRoute, InitTable[Default]}
<1>n. ~Silent /\ \A v \in Gateway \cup {NoRoute} : ~NetworkSwitch(v) BY StillSteady
<1>t. table \in [Dest -> Via] /\ table[Default] \in {NoRoute, InitTable[Default]}
  BY DEF Shape, SystemOK, DefaultOK
<1>k. Default \in Dest /\ Default \notin Capture BY MachineKeys
<1>1. CASE table' = table BY <1>1, <1>t
<1>2. CASE table' = Sweep(table, holders') BY <1>2, <1>k, <1>t DEF Sweep
<1>3. CASE InstallRoute
  <2>1. PICK k \in Dest :
          /\ snap \in Snapshot
          /\ table' = [table EXCEPT ![k] = IF k \in Capture THEN snap.iface ELSE snap.gw]
    BY <1>3, <1>n, InstallStep
  <2>2. snap.gw = InitTable[Default]
    BY <2>1, NoSnapAssumption DEF DefaultOK, DefaultIn
  <2>. QED BY <1>k, <1>t, <2>1, <2>2
<1>4. CASE DeleteRoute
  <2>. DEFINE r == Routes(snap)[left]
  <2>1. table' = Delete(table, r.dest, r.via) \/ table' = table
    BY <1>4 DEF DeleteRoute
  <2>. HIDE DEF r
  <2>. QED BY <2>1, <1>t, <1>k DEF Delete
<1>5. CASE RestoreRoute
  <2>. DEFINE r == Routes(snap)[left]
              k == PrefixRow(r.dest)
  <2>1. table' = table \/ table' = [table EXCEPT ![k] = r.replaced]
    BY <1>5 DEF RestoreRoute
  <2>2. pc = "restore" /\ left \in 1 .. Len(Routes(snap))
    BY <1>5 DEF RestoreRoute, Shape, WorkOK, LeftBounded
  <2>3. snap # NoSnap BY <2>2, RecordUndone
  <2>4. k = Default => r.replaced \in {NoRoute, InitTable[Default]}
    BY <2>2, <2>3 DEF DefaultOK, DefaultIn
  <2>. HIDE DEF r, k
  <2>. QED BY <2>1, <2>4, <1>t, <1>k
<1>6. CASE CheckRoutes
  <2>1. table' = table \/ table' = [table EXCEPT ![Default] = snap.gw]
    BY <1>6 DEF CheckRoutes
  <2>2. snap # NoSnap
    BY <1>6, NoSnapAssumption DEF CheckRoutes, Shape, WorkOK, BusyHasSnap, Working
  <2>3. snap.gw = InitTable[Default] BY <2>2 DEF DefaultOK, DefaultIn
  <2>. QED BY <2>1, <2>3, <1>t, <1>k
<1>. QED BY <1>n, <1>1, <1>2, <1>3, <1>4, <1>5, <1>6, TableSteps

LEMMA DefaultSnap ==
    ASSUME Shape, SessionOK, FileOK, DefaultOK, [Next]_vars, Steady'
    PROVE  DefaultIn(snap') /\ DefaultIn(disk') /\ DefaultIn(mem')
<1>n. ~Silent BY StillSteady
<1>d. DefaultIn(disk) /\ DefaultIn(mem) /\ DefaultIn(snap) /\ DefaultIn(NoSnap)
  BY DEF DefaultOK, DefaultIn
<1>s. pc \in Working => snap \in Snapshot /\ snap # NoSnap
  BY NoSnapAssumption DEF Shape, WorkOK, BusyHasSnap
<1>m. mem # NoSnap => mem \in Snapshot BY DEF Shape, StoreOK
<1>k. UNCHANGED <<disk, mem>> => DefaultIn(disk') /\ DefaultIn(mem') BY <1>d
<1>1. ASSUME snap' \in {snap, NoSnap, disk, mem}, disk' \in {disk, NoSnap, snap},
             mem' \in {mem, NoSnap, snap}
      PROVE  DefaultIn(snap') /\ DefaultIn(disk') /\ DefaultIn(mem')
  BY <1>1, <1>d
<1>2. ASSUME NEW t \in Tun, NEW defer \in DeferModes, TunUp(t, defer)
      PROVE  DefaultIn(snap') /\ DefaultIn(disk') /\ DefaultIn(mem')
  <2>1. /\ snap' = NewSnapshot(t) /\ disk' = NewSnapshot(t) /\ mem' = mem
        /\ table[Default] \in Gateway
    BY <1>2 DEF TunUp
  <2>2. table[Default] = InitTable[Default]
    BY <2>1, MachineKeys DEF DefaultOK
  <2>3. Len(Routes(NewSnapshot(t))) = 0
    BY ConcatEmptySeq, EmptySeq DEF NewSnapshot, Routes
  <2>4. NewSnapshot(t).gw = InitTable[Default] BY <2>2 DEF NewSnapshot
  <2>5. DefaultIn(NewSnapshot(t)) BY <2>3, <2>4 DEF DefaultIn
  <2>. QED BY <1>d, <2>1, <2>5
<1>3. CASE CommitRoutes
  <2>1. /\ mem # NoSnap /\ snap' = [mem EXCEPT !.pending = <<>>] /\ UNCHANGED <<disk, mem>>
    BY <1>3 DEF CommitRoutes
  <2>. QED BY <1>d, <1>m, <2>1, DefaultTaken
<1>4. ASSUME NEW a \in Anchor, InstallAnchor(a) \/ RemoveAnchor(a)
      PROVE  DefaultIn(snap') /\ DefaultIn(disk') /\ DefaultIn(mem')
  <2>1. /\ mem # NoSnap /\ UNCHANGED <<disk, mem>>
        /\ \E X : snap' = [mem EXCEPT !.anchors = X]
    BY <1>4 DEF InstallAnchor, RemoveAnchor
  <2>2. /\ snap'.installed = mem.installed /\ snap'.pending = mem.pending
        /\ snap'.gw = mem.gw
    BY <1>m, <2>1 DEF Snapshot
  <2>. QED BY <1>d, <2>1, <2>2, DefaultSame
<1>5. CASE BootAnchors
  <2>1. /\ pc = "bootanchors" /\ UNCHANGED <<disk, mem>>
        /\ \E X : snap' = [snap EXCEPT !.anchors = X]
    BY <1>5 DEF BootAnchors
  <2>2. snap \in Snapshot /\ snap # NoSnap BY <1>s, <2>1 DEF Working
  <2>3. /\ snap'.installed = snap.installed /\ snap'.pending = snap.pending
        /\ snap'.gw = snap.gw
    BY <2>1, <2>2 DEF Snapshot
  <2>. QED BY <1>d, <2>1, <2>2, <2>3, DefaultSame
<1>6. CASE InstallRoute
  <2>1. PICK k \in Dest :
          LET via == IF k \in Capture THEN snap.iface ELSE snap.gw
              r   == [dest |-> k, via |-> via, replaced |-> table[PrefixRow(k)]]
          IN  /\ snap \in Snapshot /\ snap.pending = <<>>
              /\ snap' = [snap EXCEPT !.installed = Append(snap.installed, r)]
              /\ r \in RouteRec
    BY <1>6, <1>n, InstallStep
  <2>. DEFINE r == [dest |-> k, via |-> IF k \in Capture THEN snap.iface ELSE snap.gw,
                    replaced |-> table[PrefixRow(k)]]
  <2>2. PrefixRow(r.dest) = Default => r.replaced \in {NoRoute, InitTable[Default]}
    BY DEF DefaultOK
  <2>3. /\ r \in RouteRec /\ snap \in Snapshot /\ snap.pending = <<>>
        /\ snap' = [snap EXCEPT !.installed = Append(snap.installed, r)]
    BY <2>1
  <2>. HIDE DEF r
  <2>4. Grown(Routes(snap), Routes(snap'), r) BY <2>3, InstalledGrows
  <2>5. snap'.gw = snap.gw /\ snap # NoSnap BY <2>3, NoSnapAssumption DEF Snapshot
  <2>6. DefaultIn(snap') BY <1>d, <2>2, <2>4, <2>5, DefaultGrown
  <2>. QED BY <1>6, <1>d, <2>6 DEF InstallRoute
<1>7. ASSUME DeferTurn, Len(snap.pending) < Len(CapturePlan) PROVE DefaultIn(Deferred)
  <2>1. snap \in Snapshot /\ snap # NoSnap BY <1>7, <1>s DEF DeferTurn, Working
  <2>2. PICK c \in Capture :
          Deferred = [snap EXCEPT !.pending = Append(snap.pending,
              [dest |-> c, via |-> snap.iface, replaced |-> NoRoute])]
    BY <1>7, <2>1, DeferredGrows
  <2>. DEFINE r == [dest |-> c, via |-> snap.iface, replaced |-> NoRoute]
  <2>3. r \in RouteRec /\ PrefixRow(r.dest) # Default
    <3>1. snap.iface \in Via /\ NoRoute \in Via BY <2>1 DEF Snapshot, Via
    <3>2. c \in Dest /\ c # Default /\ c # Scoped BY MachineKeys
    <3>. QED BY <3>1, <3>2 DEF RouteRec, PrefixRow
  <2>4. Deferred = [snap EXCEPT !.pending = Append(snap.pending, r)] BY <2>2
  <2>. HIDE DEF r
  <2>5. Grown(Routes(snap), Routes(Deferred), r) BY <2>1, <2>3, <2>4, PendingGrows
  <2>6. Deferred.gw = snap.gw BY <2>1, <2>4 DEF Snapshot
  <2>. QED BY <1>d, <2>1, <2>3, <2>5, <2>6, DefaultGrown
<1>8. CASE DeferRoute \/ DeferRouteFails
  BY <1>8, <1>7, <1>d DEF DeferRoute, DeferRouteFails, Rollback
<1>9. ASSUME DnsTurn PROVE DefaultIn(BackedUp)
  <2>1. snap \in Snapshot /\ snap # NoSnap BY <1>9, <1>s DEF DnsTurn, Working
  <2>. QED BY <1>d, <2>1, BackedUpRoutes, DefaultSame
<1>10. CASE BackupDns \/ BackupDnsFails
  BY <1>10, <1>9, <1>d DEF BackupDns, BackupDnsFails, Rollback
<1>11. CASE MarkUp
  <2>1. DnsTurn /\ Idle /\ disk' = mem' /\ mem' = [snap EXCEPT !.state = "Up"]
    BY <1>11 DEF MarkUp
  <2>2. snap \in Snapshot /\ snap # NoSnap BY <1>s, <2>1 DEF DnsTurn, Working
  <2>3. DefaultIn(mem') BY <1>d, <2>1, <2>2, MarkedRoutes, DefaultSame
  <2>. QED BY <1>d, <2>1, <2>3 DEF Idle
<1>12. CASE TakeTunFd \/ TunDown \/ Restore \/ Sigterm
  BY <1>1, <1>12 DEF TakeTunFd, TunDown, Restore, Sigterm, Exit, Rollback, work
<1>13. CASE RouteFails \/ SaveRoute \/ SaveRouteFails \/ ConfigureFails \/ Prepared
            \/ SetDns \/ SetDnsFails \/ MarkUpFails \/ SaveAnchors \/ SaveAnchorsFails
  BY <1>1, <1>13
     DEF RouteFails, SaveRoute, SaveRouteFails, ConfigureFails, Prepared, SetDns,
         SetDnsFails, MarkUpFails, SaveAnchors, SaveAnchorsFails, Abort, Rollback, Idle
<1>14. CASE Undo
  BY <1>1, <1>14
     DEF Undo, UndoAnchors, UndoDns, DeleteRoute, RestoreRoute, SkipChecks, CheckRoutes,
         CheckDns, Clear, EndSession, EndCommit, EndRestore, EndBoot, EndTerm, Exit,
         Rollback, Idle
<1>15. CASE Boot \/ SaveBootAnchors \/ LeaveRunning \/ RollbackStale \/ Reconcile
  BY <1>1, <1>15
     DEF Boot, SaveBootAnchors, LeaveRunning, RollbackStale, Reconcile, Rollback, Idle
<1>16. CASE Environment \/ UNCHANGED vars
  BY <1>1, <1>16 DEF Environment, Crash, Exit, AppExit, NetworkSwitch, vars, work
<1>. QED
  BY <1>2, <1>3, <1>4, <1>5, <1>6, <1>8, <1>10, <1>11, <1>12, <1>13, <1>14, <1>15, <1>16
     DEF Next, Request, Apply, Recover

LEMMA DefaultNext ==
    ASSUME Shape, SessionOK, FileOK, DefaultOK, [Next]_vars, Steady'
    PROVE  DefaultOK'
  BY DefaultTable, DefaultSnap DEF DefaultOK

------------------------------------------------------------------------------
(* Where the way back is kept: in the file, but for keys a handler has     *)
(* changed since it last wrote it; in the snapshot of the handler that     *)
(* installs; and before the cursor of a rollback in which nothing failed.  *)
AllHome(s, tab, gone) == \A d \in Dest \ gone : Whole(s, d, tab[d])

Ahead ==
    IF snap = NoSnap \/ disk = NoSnap THEN {}
    ELSE {r.dest : r \in Records(snap) \ Records(disk)}

DiskHome ==
    \A d \in Dest \ (lost \cup Ahead) :
        IF disk = NoSnap THEN table[d] = InitTable[d] ELSE Whole(disk, d, table[d])

SnapHome ==
    /\ pc \in Preparing => AllHome(snap, table, lost)
    /\ pc \in {"anchors", "undo", "restore"} /\ ok =>
         \A d \in Dest \ lost : Home(snap, left, d, table[d])
    /\ pc = "verify" /\ ok => \A d \in Dest \ lost : table[d] = InitTable[d]

(* What replaced a route is deleted before the route goes back.            *)
DeletedFirst ==
    pc = "restore" =>
        /\ Routes(snap)[left].replaced # NoRoute
        /\ ok /\ Routes(snap)[left].dest = Scoped /\ Scoped \notin lost =>
             table[Scoped] = NoRoute

(* A session that holds captures back has not touched them.                *)
HeldOut ==
    Serving # NoSnap /\ (op = "prepare" \/ Serving.pending # <<>>) =>
        \A c \in Capture \ lost : table[c] = InitTable[c]

HomeInv == DefaultOK /\ DiskHome /\ SnapHome /\ DeletedFirst /\ HeldOut

(* A step leaves the row of a key alone, puts back what was there, or lets *)
(* a dead tunnel's row go.                                                 *)
Back(d) ==
    \/ table'[d] \in {table[d], InitTable[d]}
    \/ table[d] \in Tun /\ table'[d] = NoRoute

LEMMA BackRow ==
    ASSUME NEW d \in Dest, Back(d)
    PROVE  /\ \A s, n : Home(s, n, d, table[d]) => Home(s, n, d, table'[d])
           /\ \A s : Whole(s, d, table[d]) => Whole(s, d, table'[d])
           /\ table[d] = InitTable[d] => table'[d] = InitTable[d]
<1>1. \A s, n : Home(s, n, d, table[d]) => Home(s, n, d, table'[d])
  <2>1. SUFFICES ASSUME NEW s, NEW n, Home(s, n, d, table[d])
                 PROVE  Home(s, n, d, table'[d])
    OBVIOUS
  <2>2. CASE table'[d] = table[d] BY <2>1, <2>2
  <2>3. CASE table'[d] = InitTable[d] BY <2>1, <2>3, BackHome
  <2>4. CASE table[d] \in Tun /\ table'[d] = NoRoute BY <2>1, <2>4, SweptHome
  <2>. QED BY <2>2, <2>3, <2>4 DEF Back
<1>2. table[d] = InitTable[d] => table'[d] = InitTable[d] BY MachineKeys DEF Back
<1>. QED BY <1>1, <1>2 DEF Whole

LEMMA MostlyBack ==
    ASSUME Shape, DefaultOK, [Next]_vars, Steady',
           ~InstallRoute, ~DeleteRoute, ~RestoreRoute, NEW d \in Dest
    PROVE  Back(d)
<1>n. \A v \in Gateway \cup {NoRoute} : ~NetworkSwitch(v) BY StillSteady
<1>t. table \in [Dest -> Via] BY DEF Shape, SystemOK
<1>1. CASE table' = table BY <1>1 DEF Back
<1>2. CASE table' = Sweep(table, holders')
  BY <1>2, <1>t DEF Sweep, Live, Back
<1>3. CASE CheckRoutes
  <2>1. table' = table \/ table' = [table EXCEPT ![Default] = snap.gw]
    BY <1>3 DEF CheckRoutes
  <2>2. snap # NoSnap
    BY <1>3, NoSnapAssumption DEF CheckRoutes, Shape, WorkOK, BusyHasSnap, Working
  <2>3. snap.gw = InitTable[Default] BY <2>2 DEF DefaultOK, DefaultIn
  <2>. QED BY <2>1, <2>3, <1>t DEF Back
<1>. QED BY <1>n, <1>1, <1>2, <1>3, TableSteps

(* The record under the cursor, and what undoing it does.                  *)
LEMMA UndoRecord ==
    ASSUME Shape, DeleteRoute \/ RestoreRoute
    PROVE  /\ pc \in {"undo", "restore"} /\ snap \in Snapshot /\ snap # NoSnap
           /\ left \in 1 .. Len(Routes(snap)) /\ Routes(snap)[left] \in RouteRec
           /\ snap' = snap /\ disk' = disk /\ lost' = lost
<1>1. pc \in {"undo", "restore"} /\ left \in 1 .. Len(Routes(snap))
  BY DEF DeleteRoute, RestoreRoute, Shape, WorkOK, LeftBounded
<1>. QED BY <1>1, RecordUndone DEF DeleteRoute, RestoreRoute

LEMMA DeleteRow ==
    ASSUME Shape, DeleteRoute, NEW d \in Dest
    PROVE  /\ d # Routes(snap)[left].dest => table'[d] = table[d]
           /\ d = Routes(snap)[left].dest =>
                \/ table'[d] = Deleted(table[d], Routes(snap)[left].via)
                   /\ (ok' => ok)
                \/ table'[d] = table[d] /\ (ok' => Silent)
<1>. DEFINE r == Routes(snap)[left]
<1>t. table \in [Dest -> Via] BY DEF Shape, SystemOK
<1>1. \/ table' = Delete(table, r.dest, r.via) /\ ok' = ok
      \/ table' = table /\ (ok' => Silent)
  BY DEF DeleteRoute, Missed
<1>. HIDE DEF r
<1>2. CASE table' = Delete(table, r.dest, r.via) /\ ok' = ok
  <2>1. d # r.dest => table'[d] = table[d] BY <1>2, <1>t DEF Delete
  <2>2. d = r.dest => table'[d] = Deleted(table[d], r.via)
    BY <1>2, <1>t DEF Delete, Deleted
  <2>. QED BY <1>2, <2>1, <2>2 DEF r
<1>3. CASE table' = table /\ (ok' => Silent)
  BY <1>3 DEF r
<1>. QED BY <1>1, <1>2, <1>3

LEMMA RestoreRow ==
    ASSUME Shape, DefaultOK, DeletedFirst, RestoreRoute, NEW d \in Dest
    PROVE  /\ d # Routes(snap)[left].dest => Back(d)
           /\ d = Routes(snap)[left].dest /\ d = Scoped => table'[d] = table[d]
           /\ d = Routes(snap)[left].dest /\ d # Scoped =>
                table'[d] = Routes(snap)[left].replaced \/ table'[d] = table[d]
           /\ d = Routes(snap)[left].dest /\ ok' /\ ~Silent /\ d # Scoped =>
                table'[d] = Routes(snap)[left].replaced
           /\ ok' => ok \/ Silent
<1>. DEFINE r == Routes(snap)[left]
            k == PrefixRow(r.dest)
<1>t. table \in [Dest -> Via] BY DEF Shape, SystemOK
<1>r. /\ snap # NoSnap /\ left \in 1 .. Len(Routes(snap)) /\ r.dest \in Dest
  BY UndoRecord DEF RouteRec
<1>p. r.replaced # NoRoute BY DEF RestoreRoute, DeletedFirst
<1>1. \/ table' = [table EXCEPT ![k] = r.replaced] /\ ok' = ok
      \/ table' = table /\ (ok' => Silent)
  BY DEF RestoreRoute, Missed
<1>2. k = Default => r.replaced = InitTable[Default]
  BY <1>p, <1>r DEF DefaultOK, DefaultIn
<1>3. r.dest # Scoped => k = r.dest BY DEF PrefixRow
<1>4. r.dest = Scoped => k = Default BY DEF PrefixRow
<1>5. Default \in Dest /\ Default # Scoped BY MachineKeys
<1>. HIDE DEF r, k
<1>6. CASE table' = [table EXCEPT ![k] = r.replaced] /\ ok' = ok
  <2>1. d # k => table'[d] = table[d] BY <1>6, <1>t
  <2>2. d = k => table'[d] = r.replaced BY <1>6, <1>t
  <2>3. d # r.dest => Back(d) BY <2>1, <2>2, <1>2, <1>3, <1>4 DEF Back
  <2>. QED BY <1>6, <2>1, <2>2, <2>3, <1>3, <1>4, <1>5 DEF r
<1>7. CASE table' = table /\ (ok' => Silent)
  BY <1>7 DEF r, Back
<1>. QED BY <1>1, <1>6, <1>7

(* The rows the file speaks for keep their way back.                       *)
LEMMA DiskRow ==
    ASSUME Shape, DefaultOK, DeletedFirst, [Next]_vars, Steady', ~InstallRoute,
           disk \in Snapshot, NEW d \in Dest, d \notin Ahead, Whole(disk, d, table[d])
    PROVE  Whole(disk, d, table'[d])
<1>. DEFINE r == Routes(snap)[left]
<1>1. CASE ~DeleteRoute /\ ~RestoreRoute
  <2>1. Back(d) BY <1>1, MostlyBack
  <2>. QED BY <2>1, BackRow
<1>2. CASE (DeleteRoute \/ RestoreRoute) /\ d # r.dest
  <2>1. Back(d) BY <1>2, DeleteRow, RestoreRow DEF Back
  <2>. QED BY <2>1, BackRow
<1>3. CASE (DeleteRoute \/ RestoreRoute) /\ d = r.dest
  <2>1. snap # NoSnap /\ left \in 1 .. Len(Routes(snap)) /\ r \in RouteRec
    BY <1>3, UndoRecord
  <2>2. r \in Records(snap) BY <2>1 DEF Records
  <2>3. disk # NoSnap BY NoSnapAssumption
  <2>4. r \in Records(disk) BY <1>3, <2>1, <2>2, <2>3 DEF Ahead
  <2>5. PICK j \in 1 .. Len(Routes(disk)) : Routes(disk)[j] = r
    BY <2>3, <2>4 DEF Records
  <2>6. j \in Of(disk, Len(Routes(disk)), d)
    <3>1. Len(Routes(disk)) \in Nat BY RoutesType
    <3>. QED BY <1>3, <2>5, <3>1 DEF Of
  <2>7. CASE DeleteRoute
    <3>1. table'[d] = table[d] \/ table'[d] = Deleted(table[d], r.via)
      BY <1>3, <2>7, DeleteRow
    <3>2. Whole(disk, d, Deleted(table[d], r.via))
      <4>1. Home(disk, Len(Routes(disk)), d, table[d]) BY DEF Whole
      <4>. HIDE DEF r
      <4>2. Home(disk, Len(Routes(disk)), d, Deleted(table[d], r.via))
        BY <2>5, <2>6, <4>1, DeleteHome
      <4>. QED BY <4>2 DEF Whole
    <3>. QED BY <3>1, <3>2
  <2>8. CASE RestoreRoute /\ d = Scoped BY <1>3, <2>8, RestoreRow
  <2>9. CASE RestoreRoute /\ d # Scoped
    <3>1. table'[d] = table[d] \/ table'[d] = r.replaced BY <1>3, <2>9, RestoreRow
    <3>2. r.replaced # NoRoute BY <2>9 DEF RestoreRoute, DeletedFirst
    <3>3. Retold(disk, Len(Routes(disk)), d)
      BY <2>5, <2>6, <3>2 DEF Whole, Home, Untouched
    <3>4. r.replaced \in {NoRoute, InitTable[d], Through(disk, d)}
      BY <2>5, <2>6, <2>9, <3>3 DEF Retold
    <3>5. Whole(disk, d, r.replaced) BY <3>3, <3>4 DEF Whole, Home
    <3>. QED BY <3>1, <3>5
  <2>. QED BY <1>3, <2>7, <2>8, <2>9
<1>. QED BY <1>1, <1>2, <1>3

LEMMA DiskKept ==
    ASSUME Shape, FileOK, DefaultOK, DeletedFirst, DiskHome, [Next]_vars, Steady',
           ~InstallRoute, disk' = disk, Ahead \subseteq Ahead' \cup lost'
    PROVE  DiskHome'
<1>1. SUFFICES ASSUME NEW d \in Dest, d \notin lost', d \notin Ahead'
               PROVE  IF disk = NoSnap THEN table'[d] = InitTable[d]
                      ELSE Whole(disk, d, table'[d])
  BY DEF DiskHome
<1>2. d \notin lost /\ d \notin Ahead BY <1>1, LostGrows
<1>3. IF disk = NoSnap THEN table[d] = InitTable[d] ELSE Whole(disk, d, table[d])
  BY <1>2 DEF DiskHome
<1>4. CASE disk = NoSnap
  <2>1. pc \notin Rolling BY <1>4, NoSnapAssumption DEF FileOK, FromFile
  <2>2. ~DeleteRoute /\ ~RestoreRoute BY <2>1, UndoRecord DEF Rolling
  <2>3. Back(d) BY <2>2, MostlyBack
  <2>. QED BY <1>3, <1>4, <2>3, BackRow
<1>5. CASE disk # NoSnap
  <2>1. disk \in Snapshot BY <1>5 DEF Shape, StoreOK
  <2>. QED BY <1>2, <1>3, <1>5, <2>1, DiskRow
<1>. QED BY <1>4, <1>5

LEMMA AheadNone ==
    ASSUME snap # NoSnap /\ disk # NoSnap => SameRoutes(snap)
    PROVE  Ahead = {}
<1>1. CASE snap = NoSnap \/ disk = NoSnap BY <1>1 DEF Ahead
<1>2. CASE snap # NoSnap /\ disk # NoSnap
  <2>1. Routes(snap) = Routes(disk) BY <1>2 DEF SameRoutes, Routes
  <2>2. Records(snap) = Records(disk) BY <1>2, <2>1 DEF Records
  <2>. QED BY <2>2 DEF Ahead
<1>. QED BY <1>1, <1>2

LEMMA AheadStays ==
    ASSUME Shape, SessionOK, FileOK, [Next]_vars, ~InstallRoute, disk' = disk
    PROVE  Ahead \subseteq Ahead' \cup lost'
<1>s. pc \in Working => snap \in Snapshot /\ snap # NoSnap
  BY NoSnapAssumption DEF Shape, WorkOK, BusyHasSnap
<1>1. ASSUME snap' = snap PROVE Ahead \subseteq Ahead' \cup lost'
  BY <1>1 DEF Ahead
<1>2. ASSUME Forget PROVE Ahead \subseteq Ahead' \cup lost'
  BY <1>2 DEF Forget, Unwritten, Ahead
<1>3. ASSUME ~Behind \/ snap = NoSnap PROVE Ahead = {}
  BY <1>3, AheadNone DEF FileOK, FromFile
<1>4. ASSUME snap # NoSnap, snap' # NoSnap, Routes(snap') = Routes(snap)
      PROVE  Ahead \subseteq Ahead' \cup lost'
  <2>1. Records(snap') = Records(snap) BY <1>4 DEF Records
  <2>. QED BY <1>4, <2>1 DEF Ahead
<1>5. CASE Request
  <2>1. pc = "idle"
    BY <1>5 DEF Request, TunUp, CommitRoutes, TakeTunFd, TunDown, Restore, Sigterm,
                InstallAnchor, RemoveAnchor
  <2>2. snap = NoSnap BY <2>1 DEF FileOK, FromFile
  <2>. QED BY <1>3, <2>2
<1>6. CASE RouteFails \/ SaveRoute \/ SaveRouteFails \/ ConfigureFails \/ SetDns
           \/ SetDnsFails
  BY <1>1, <1>6 DEF RouteFails, SaveRoute, SaveRouteFails, ConfigureFails, SetDns,
                    SetDnsFails, Abort, Rollback
<1>7. CASE DeferRoute \/ DeferRouteFails \/ Prepared
  <2>1. pc = "apply" /\ op = "prepare"
    BY <1>7 DEF DeferRoute, DeferRouteFails, Prepared, DeferTurn
  <2>2. ~Behind BY <2>1 DEF Behind, Rolling
  <2>. QED BY <1>3, <2>2
<1>8. CASE BackupDns \/ BackupDnsFails
  <2>1. pc = "apply" /\ snap' \in {snap, BackedUp} /\ pc' \in {"setdns", "anchors"}
    BY <1>8 DEF BackupDns, BackupDnsFails, Rollback, DnsTurn
  <2>2. snap \in Snapshot /\ snap # NoSnap BY <1>s, <2>1 DEF Working
  <2>3. Routes(snap') = Routes(snap) BY <2>1, <2>2, BackedUpRoutes DEF Routes
  <2>4. snap' # NoSnap
    BY <2>1, ShapeNext, NoSnapAssumption DEF Shape, WorkOK, BusyHasSnap, Working
  <2>. QED BY <1>4, <2>2, <2>3, <2>4
<1>9. CASE MarkUp
  <2>1. pc = "apply" /\ disk = [snap EXCEPT !.state = "Up"] BY <1>9 DEF MarkUp, DnsTurn
  <2>2. SameRoutes(snap) BY <1>s, <2>1, MarkedRoutes DEF Working, SameRoutes
  <2>. QED BY <2>2, AheadNone
<1>10. CASE MarkUpFails
  <2>1. CASE Abort BY <1>1, <2>1 DEF Abort, Rollback
  <2>2. CASE ~Abort
    <3>1. pc = "apply" /\ op = "up" BY <1>10, <2>2 DEF MarkUpFails, DnsTurn
    <3>2. ~Behind BY <3>1 DEF Behind, Rolling
    <3>. QED BY <1>3, <3>2
  <2>. QED BY <2>1, <2>2
<1>11. CASE SaveAnchors \/ SaveAnchorsFails \/ Recover
  <2>1. pc \notin Installing \cup Rolling \cup {"done"}
    BY <1>11 DEF SaveAnchors, SaveAnchorsFails, Recover, Boot, BootAnchors,
                 SaveBootAnchors, LeaveRunning, RollbackStale, Reconcile, Installing,
                 Rolling
  <2>2. ~Behind BY <2>1 DEF Behind, Installing
  <2>. QED BY <1>3, <2>2
<1>12. CASE UndoAnchors \/ UndoDns \/ DeleteRoute \/ RestoreRoute \/ SkipChecks
            \/ CheckRoutes \/ CheckDns \/ Clear \/ EndBoot
  BY <1>1, <1>12 DEF UndoAnchors, UndoDns, DeleteRoute, RestoreRoute, SkipChecks,
                     CheckRoutes, CheckDns, Clear, EndBoot
<1>13. CASE EndSession \/ EndCommit \/ Crash
  BY <1>2, <1>13 DEF EndSession, EndCommit, Crash
<1>14. CASE EndRestore \/ EndTerm
  <2>1. op \in {"restore", "term"} BY <1>14 DEF EndRestore, EndTerm
  <2>2. ~Behind BY <2>1 DEF Behind
  <2>. QED BY <1>3, <2>2
<1>15. CASE AppExit \/ (\E v \in Gateway \cup {NoRoute} : NetworkSwitch(v)) \/ UNCHANGED vars
  BY <1>1, <1>15 DEF AppExit, NetworkSwitch, work, vars
<1>. QED
  BY <1>5, <1>6, <1>7, <1>8, <1>9, <1>10, <1>11, <1>12, <1>13, <1>14, <1>15
     DEF Next, Apply, Undo, Environment

LEMMA SameWhole ==
    ASSUME NEW s, NEW t, NEW d, NEW row, Whole(s, d, row),
           t.installed = s.installed, t.pending = s.pending,
           t.iface = s.iface, t.gw = s.gw
    PROVE  Whole(t, d, row)
<1>1. Routes(t) = Routes(s) BY DEF Routes
<1>2. Home(t, Len(Routes(s)), d, row) BY SameHome DEF Whole
<1>. QED BY <1>1, <1>2 DEF Whole

LEMMA AllKept ==
    ASSUME NEW s, NEW t, AllHome(s, table, lost), lost \subseteq lost',
           t.installed = s.installed, t.pending = s.pending,
           t.iface = s.iface, t.gw = s.gw, \A d \in Dest : Back(d)
    PROVE  AllHome(t, table', lost')
<1>1. SUFFICES ASSUME NEW d \in Dest, d \notin lost' PROVE Whole(t, d, table'[d])
  BY DEF AllHome
<1>2. Whole(s, d, table[d]) BY <1>1 DEF AllHome
<1>3. Whole(s, d, table'[d]) BY <1>2, BackRow
<1>. QED BY <1>3, SameWhole

(* The file speaks for every key when no handler is ahead of it.           *)
LEMMA FromDisk ==
    ASSUME DiskHome, Ahead = {}, disk # NoSnap, NEW s,
           s.installed = disk.installed, s.pending = disk.pending,
           s.iface = disk.iface, s.gw = disk.gw
    PROVE  AllHome(s, table, lost)
<1>1. SUFFICES ASSUME NEW d \in Dest, d \notin lost PROVE Whole(s, d, table[d])
  BY DEF AllHome
<1>2. Whole(disk, d, table[d]) BY <1>1 DEF DiskHome
<1>. QED BY <1>2, SameWhole

LEMMA IdleAhead == ASSUME FileOK, pc \in {"idle", "down"} PROVE Ahead = {}
  BY AheadNone DEF FileOK, FromFile

LEMMA DiskFrom ==
    ASSUME disk' # NoSnap, AllHome(disk', table', lost') PROVE DiskHome'
  BY DEF DiskHome, AllHome

(* A new session starts where everything not given up is as it was.        *)
LEMMA FreshHome ==
    ASSUME Shape, FileOK, DiskHome, NEW t \in Tun, NEW defer \in DeferModes,
           TunUp(t, defer)
    PROVE  /\ \A d \in Dest \ lost' : table[d] = InitTable[d]
           /\ AllHome(NewSnapshot(t), table, lost')
<1>1. /\ pc = "idle" /\ lost \subseteq lost'
      /\ {r.dest : r \in Records(disk)} \subseteq lost'
  BY DEF TunUp
<1>2. Ahead = {} BY <1>1, IdleAhead
<1>3. ASSUME NEW d \in Dest, d \notin lost' PROVE table[d] = InitTable[d]
  <2>1. IF disk = NoSnap THEN table[d] = InitTable[d] ELSE Whole(disk, d, table[d])
    BY <1>1, <1>2, <1>3 DEF DiskHome
  <2>2. CASE disk # NoSnap
    <3>1. Of(disk, Len(Routes(disk)), d) = {}
      BY <1>1, <1>3, <2>2 DEF Of, Records
    <3>. QED BY <2>1, <2>2, <3>1 DEF Whole, Home, Retold
  <2>. QED BY <2>1, <2>2
<1>4. Len(Routes(NewSnapshot(t))) = 0
  BY ConcatEmptySeq, EmptySeq DEF NewSnapshot, Routes
<1>5. ASSUME NEW d \in Dest, d \notin lost' PROVE Whole(NewSnapshot(t), d, table[d])
  <2>1. Of(NewSnapshot(t), 0, d) = {} BY <1>4 DEF Of
  <2>. QED BY <1>3, <1>4, <1>5, <2>1 DEF Whole, Home, Untouched
<1>. QED BY <1>3, <1>5 DEF AllHome

LEMMA InstallHome ==
    ASSUME CleanMachine, Shape, SessionOK, SnapHome, InstallRoute, ~Silent
    PROVE  AllHome(snap', table', lost')
<1>1. PICK k \in Dest :
        LET via == IF k \in Capture THEN snap.iface ELSE snap.gw
            r   == [dest |-> k, via |-> via, replaced |-> table[PrefixRow(k)]]
        IN  /\ snap \in Snapshot /\ snap.pending = <<>> /\ pc = "apply"
            /\ table' = [table EXCEPT ![k] = via]
            /\ snap' = [snap EXCEPT !.installed = Append(snap.installed, r)]
            /\ r \in RouteRec
  BY InstallStep
<1>. DEFINE seen == table[PrefixRow(k)]
            r == [dest |-> k, via |-> Through(snap, k), replaced |-> seen]
<1>2. /\ snap \in Snapshot /\ snap.pending = <<>> /\ pc = "apply"
      /\ table' = [table EXCEPT ![k] = Through(snap, k)]
      /\ snap' = [snap EXCEPT !.installed = Append(snap.installed, r)]
  BY <1>1 DEF Through
<1>3. seen \in Via BY <1>1 DEF RouteRec
<1>4. lost' = lost BY DEF InstallRoute
<1>5. table \in [Dest -> Via] BY DEF Shape, SystemOK
<1>6. k # Scoped => seen = table[k] BY DEF PrefixRow
<1>. HIDE DEF seen
<1>7. SUFFICES ASSUME NEW d \in Dest, d \notin lost PROVE Whole(snap', d, table'[d])
  BY <1>4 DEF AllHome
<1>8. Whole(snap, d, table[d]) BY <1>2, <1>7 DEF SnapHome, AllHome, Preparing
<1>9. /\ d # k => Whole(snap', d, table[d])
      /\ d = k /\ (d # Scoped => seen = table[d]) => Whole(snap', d, Through(snap, d))
  <2>1. r.dest = k /\ r.via = Through(snap, k) /\ r.replaced = seen OBVIOUS
  <2>2. r \in RouteRec BY <1>1 DEF Through, seen
  <2>. HIDE DEF r
  <2>3. Grown(Routes(snap), Routes(snap'), r) BY <1>2, <2>2, InstalledGrows
  <2>4. snap'.iface = snap.iface /\ snap'.gw = snap.gw BY <1>2 DEF Snapshot
  <2>5. /\ d # r.dest => Whole(snap', d, table[d])
        /\ d = r.dest /\ (d # Scoped => r.replaced = table[d]) => Whole(snap', d, Through(snap, d))
    <3>. DEFINE next == snap'
    <3>1. snap \in Snapshot /\ snap.pending = <<>> /\ r.via = Through(snap, r.dest) BY <1>2, <2>1
    <3>2. Grown(Routes(snap), Routes(next), r) /\ next.iface = snap.iface /\ next.gw = snap.gw
      BY <2>3, <2>4
    <3>. HIDE DEF next
    <3>3. /\ d # r.dest => Whole(next, d, table[d])
          /\ d = r.dest /\ (d # Scoped => r.replaced = table[d]) => Whole(next, d, Through(snap, d))
      BY <1>8, <3>1, <3>2, InstalledHome
    <3>. QED BY <3>3 DEF next
  <2>. QED BY <2>1, <2>5
<1>10. CASE d = k BY <1>2, <1>5, <1>6, <1>9, <1>10
<1>11. CASE d # k BY <1>2, <1>5, <1>9, <1>11
<1>. QED BY <1>10, <1>11

(* What the file says of a key that is being installed over holds on, when *)
(* the record is one it has.                                               *)
LEMMA DiskInstall ==
    ASSUME CleanMachine, Shape, SessionOK, FileOK, DefaultOK, DiskHome, InstallRoute, ~Silent
    PROVE  DiskHome'
<1>1. PICK k \in Dest :
        LET via == IF k \in Capture THEN snap.iface ELSE snap.gw
            r   == [dest |-> k, via |-> via, replaced |-> table[PrefixRow(k)]]
        IN  /\ snap \in Snapshot /\ snap.pending = <<>> /\ pc = "apply"
            /\ table' = [table EXCEPT ![k] = via]
            /\ snap' = [snap EXCEPT !.installed = Append(snap.installed, r)]
            /\ r \in RouteRec
  BY InstallStep
<1>. DEFINE via == Through(snap, k)
            r == [dest |-> k, via |-> via, replaced |-> table[PrefixRow(k)]]
<1>2. /\ snap \in Snapshot /\ snap.pending = <<>> /\ pc = "apply" /\ r \in RouteRec
      /\ table' = [table EXCEPT ![k] = via]
      /\ snap' = [snap EXCEPT !.installed = Append(snap.installed, r)]
  BY <1>1 DEF Through
<1>3. disk' = disk /\ lost' = lost BY DEF InstallRoute
<1>4. disk \in Snapshot /\ disk # NoSnap /\ snap # NoSnap
  BY <1>2, NoSnapAssumption DEF FileOK, FromFile, Preparing
<1>5. table \in [Dest -> Via] BY DEF Shape, SystemOK
<1>6. r.dest = k /\ r.replaced = table[PrefixRow(k)] OBVIOUS
<1>7. via = Through(disk, k)
  <2>1. disk.iface = snap.iface BY <1>2 DEF SessionOK, SameDevice, Preparing
  <2>2. disk.gw = snap.gw BY <1>4 DEF DefaultOK, DefaultIn
  <2>. QED BY <2>1, <2>2 DEF Through
<1>. HIDE DEF via, r
<1>8. Grown(Routes(snap), Routes(snap'), r) BY <1>2, InstalledGrows
<1>9. snap' # NoSnap
  <2>1. snap' \in Snapshot
    <3>1. Append(snap.installed, r) \in Seq(RouteRec)
      BY <1>2, AppendProperties DEF Snapshot
    <3>. QED BY <1>2, <3>1 DEF Snapshot
  <2>. QED BY <2>1, NoSnapAssumption
<1>10. Records(snap) \cup {r} \subseteq Records(snap')
  <2>1. \A i \in 1 .. Len(Routes(snap)) :
          i \in 1 .. Len(Routes(snap')) /\ Routes(snap')[i] = Routes(snap)[i]
    BY <1>8 DEF Grown
  <2>2. Len(Routes(snap)) + 1 \in 1 .. Len(Routes(snap'))
        /\ Routes(snap')[Len(Routes(snap)) + 1] = r
    BY <1>8 DEF Grown
  <2>. QED BY <1>4, <1>9, <2>1, <2>2 DEF Records
<1>11. Ahead' = {q.dest : q \in Records(snap') \ Records(disk)}
  BY <1>3, <1>4, <1>9 DEF Ahead
<1>12. Ahead \subseteq Ahead' BY <1>4, <1>10, <1>11 DEF Ahead
<1>13. SUFFICES ASSUME NEW d \in Dest, d \notin lost, d \notin Ahead'
                PROVE  Whole(disk, d, table'[d])
  BY <1>3, <1>4 DEF DiskHome
<1>14. Whole(disk, d, table[d]) BY <1>4, <1>12, <1>13 DEF DiskHome
<1>15. CASE d # k BY <1>2, <1>5, <1>14, <1>15
<1>16. CASE d = k
  <2>1. r \in Records(disk) BY <1>6, <1>10, <1>11, <1>13, <1>16
  <2>2. PICK j \in 1 .. Len(Routes(disk)) : Routes(disk)[j] = r
    BY <1>4, <2>1 DEF Records
  <2>3. j \in Of(disk, Len(Routes(disk)), d)
    <3>1. Len(Routes(disk)) \in Nat BY <1>4, RoutesType
    <3>. QED BY <1>6, <1>16, <2>2, <3>1 DEF Of
  <2>4. Retold(disk, Len(Routes(disk)), d)
    <3>1. SUFFICES ASSUME table[d] = InitTable[d], Untouched(disk, Len(Routes(disk)), d)
                   PROVE  Retold(disk, Len(Routes(disk)), d)
      BY <1>14 DEF Whole, Home
    <3>2. d \in Capture /\ r.replaced = NoRoute BY <2>2, <2>3, <3>1 DEF Untouched
    <3>3. d # Scoped BY <3>2, MachineKeys
    <3>4. InitTable[d] = NoRoute BY <1>6, <1>16, <3>1, <3>2, <3>3 DEF PrefixRow
    <3>. QED BY <2>3, <3>1, <3>4 DEF Untouched, Retold
  <2>5. table'[d] = Through(disk, d) BY <1>2, <1>5, <1>7, <1>16
  <2>. QED BY <1>14, <2>4, <2>5 DEF Whole, Home
<1>. QED BY <1>15, <1>16

LEMMA DeferHome ==
    ASSUME CleanMachine, Shape, SnapHome, HeldOut, DeferTurn,
           Len(snap.pending) < Len(CapturePlan)
    PROVE  AllHome(Deferred, table, lost)
<1>1. pc = "apply" /\ op = "prepare" BY DEF DeferTurn
<1>2. snap \in Snapshot /\ snap # NoSnap
  BY <1>1, NoSnapAssumption DEF Shape, WorkOK, BusyHasSnap, Working
<1>3. PICK c \in Capture :
        Deferred = [snap EXCEPT !.pending = Append(snap.pending,
            [dest |-> c, via |-> snap.iface, replaced |-> NoRoute])]
  BY <1>2, DeferredGrows
<1>4. \A x \in Capture \ lost : table[x] = InitTable[x]
  BY <1>1, <1>2 DEF HeldOut, Serving
<1>5. SUFFICES ASSUME NEW d \in Dest, d \notin lost PROVE Whole(Deferred, d, table[d])
  BY DEF AllHome
<1>6. Whole(snap, d, table[d]) BY <1>1, <1>5 DEF SnapHome, AllHome, Preparing
<1>7. d = c => table[d] = InitTable[c] BY <1>4, <1>5
<1>. DEFINE r == [dest |-> c, via |-> snap.iface, replaced |-> NoRoute]
<1>8. r.dest = c /\ r.via = snap.iface /\ r.replaced = NoRoute OBVIOUS
<1>9. r \in RouteRec
  <2>1. snap.iface \in Via /\ NoRoute \in Via BY <1>2 DEF Snapshot, Via
  <2>. QED BY <2>1, MachineKeys DEF RouteRec
<1>. HIDE DEF r
<1>10. Deferred = [snap EXCEPT !.pending = Append(snap.pending, r)] BY <1>3 DEF r
<1>11. Grown(Routes(snap), Routes(Deferred), r) BY <1>2, <1>9, <1>10, PendingGrows
<1>12. /\ Deferred.installed = snap.installed /\ Deferred.iface = snap.iface
       /\ Deferred.gw = snap.gw
  BY <1>2, <1>10 DEF Snapshot
<1>. QED BY <1>2, <1>6, <1>7, <1>8, <1>11, <1>12, HeldBackHome

LEMMA SaveSteps ==
    ASSUME [Next]_vars, disk' # disk
    PROVE  \/ \E t \in Tun, defer \in DeferModes : TunUp(t, defer)
           \/ SaveRoute \/ DeferRoute \/ BackupDns \/ MarkUp \/ SaveAnchors
           \/ SaveBootAnchors \/ Clear
<1>1. CASE Request
  BY <1>1 DEF Request, CommitRoutes, TakeTunFd, TunDown, Restore, Sigterm,
              InstallAnchor, RemoveAnchor, Exit
<1>2. CASE Apply
  BY <1>2 DEF Apply, InstallRoute, RouteFails, SaveRouteFails, Abort,
              ConfigureFails, DeferRouteFails, Prepared, BackupDnsFails, SetDns,
              SetDnsFails, MarkUpFails, SaveAnchorsFails
<1>3. CASE Undo
  BY <1>3 DEF Undo, UndoAnchors, UndoDns, DeleteRoute, RestoreRoute, SkipChecks,
              CheckRoutes, CheckDns, EndSession, EndCommit, EndRestore, EndBoot,
              EndTerm, Exit
<1>4. CASE Recover
  BY <1>4 DEF Recover, Boot, BootAnchors, LeaveRunning, RollbackStale, Reconcile
<1>5. CASE Environment
  BY <1>5 DEF Environment, Crash, Exit, AppExit, NetworkSwitch
<1>6. CASE UNCHANGED vars BY <1>6 DEF vars
<1>. QED BY <1>1, <1>2, <1>3, <1>4, <1>5, <1>6 DEF Next

LEMMA DiskNext ==
    ASSUME CleanMachine, Shape, SessionOK, FileOK, HomeInv, [Next]_vars, Steady'
    PROVE  DiskHome'
<1>n. ~Silent BY StillSteady
<1>h. DefaultOK /\ DiskHome /\ SnapHome /\ DeletedFirst /\ HeldOut BY DEF HomeInv
<1>s. pc \in Working => snap \in Snapshot /\ snap # NoSnap
  BY NoSnapAssumption DEF Shape, WorkOK, BusyHasSnap
<1>1. CASE InstallRoute BY <1>h, <1>n, <1>1, DiskInstall
<1>2. CASE ~InstallRoute /\ disk' = disk BY <1>h, <1>2, AheadStays, DiskKept
<1>3. ASSUME NEW t \in Tun, NEW defer \in DeferModes, TunUp(t, defer) PROVE DiskHome'
  <2>1. disk' = NewSnapshot(t) /\ table' = table /\ table[Default] \in Gateway
    BY <1>3 DEF TunUp
  <2>2. disk' # NoSnap
    BY <2>1, NewSnapshotType, NoSnapAssumption DEF Shape, StoreOK
  <2>3. AllHome(disk', table', lost') BY <1>h, <1>3, <2>1, FreshHome
  <2>. QED BY <2>2, <2>3, DiskFrom
<1>4. ASSUME pc \in Preparing, AllHome(disk', table, lost), disk' # NoSnap,
             UNCHANGED <<table, lost>>
      PROVE  DiskHome'
  BY <1>4, DiskFrom
<1>5. pc \in Preparing => AllHome(snap, table, lost) /\ snap \in Snapshot /\ snap # NoSnap
  BY <1>h, <1>s DEF SnapHome, Preparing, Working
<1>6. CASE SaveRoute \/ SaveAnchors
  BY <1>4, <1>5, <1>6 DEF SaveRoute, SaveAnchors, Preparing, system
<1>7. CASE DeferRoute
  <2>1. /\ DeferTurn /\ Len(snap.pending) < Len(CapturePlan)
        /\ disk' = Deferred /\ UNCHANGED <<table, lost>>
    BY <1>7 DEF DeferRoute, system
  <2>2. AllHome(Deferred, table, lost) BY <1>h, <2>1, DeferHome
  <2>3. pc \in Preparing BY <2>1 DEF DeferTurn, Preparing
  <2>4. Deferred # NoSnap BY <1>5, <2>1, <2>3, DeferredType, NoSnapAssumption
  <2>. QED BY <1>4, <2>1, <2>2, <2>3, <2>4
<1>8. CASE BackupDns \/ MarkUp
  <2>1. /\ pc \in Preparing /\ UNCHANGED <<table, lost>>
        /\ disk' \in {BackedUp, [snap EXCEPT !.state = "Up"]}
    BY <1>8 DEF BackupDns, MarkUp, DnsTurn, system, Preparing
  <2>2. /\ disk'.installed = snap.installed /\ disk'.pending = snap.pending
        /\ disk'.iface = snap.iface /\ disk'.gw = snap.gw
    BY <1>5, <2>1, BackedUpRoutes, MarkedRoutes
  <2>3. \A d \in Dest : Back(d) BY <2>1 DEF Back
  <2>4. AllHome(disk', table', lost') BY <1>5, <2>1, <2>2, <2>3, AllKept
  <2>5. disk' # NoSnap
    <3>1. snap' = disk' \/ mem' = disk' BY <1>8 DEF BackupDns, MarkUp
    <3>2. BackupDns => snap' # NoSnap
      <4>1. BackupDns => pc' = "setdns" BY DEF BackupDns
      <4>. QED BY <4>1, ShapeNext, NoSnapAssumption DEF Shape, WorkOK, BusyHasSnap, Working
    <3>3. [snap EXCEPT !.state = "Up"] \in Snapshot BY <1>5, <2>1 DEF Snapshot
    <3>. QED BY <1>8, <2>1, <3>2, <3>3, NoSnapAssumption DEF BackupDns, MarkUp
  <2>. QED BY <2>4, <2>5, DiskFrom
<1>9. CASE SaveBootAnchors /\ disk' # disk
  <2>1. pc = "bootsave" /\ disk' = snap /\ UNCHANGED <<table, lost>>
    BY <1>9 DEF SaveBootAnchors, system
  <2>2. disk # NoSnap /\ snap # NoSnap /\ SameRoutes(snap)
    BY <1>s, <2>1, NoSnapAssumption
       DEF Working, FileOK, FromFile, Behind, Installing, Rolling
  <2>3. Ahead = {} BY <2>2, AheadNone
  <2>4. AllHome(snap, table, lost) BY <1>h, <2>2, <2>3, FromDisk DEF SameRoutes
  <2>. QED BY <2>1, <2>2, <2>4, DiskFrom
<1>10. CASE Clear /\ disk' # disk
  <2>1. pc = "verify" /\ ok /\ disk' = NoSnap /\ UNCHANGED <<table, lost>>
    BY <1>10 DEF Clear, system
  <2>. QED BY <1>h, <2>1 DEF SnapHome, DiskHome
<1>. QED BY <1>1, <1>2, <1>3, <1>6, <1>7, <1>8, <1>9, <1>10, SaveSteps

HandlerHome == SnapHome /\ DeletedFirst /\ HeldOut

LEMMA RollbackHome ==
    ASSUME NEW s \in Snapshot, Rollback(s), AllHome(s, table', lost')
    PROVE  HandlerHome'
<1>1. pc' = "anchors" /\ snap' = s /\ left' = Count(s) BY DEF Rollback
<1>2. PICK n, m : n = Len(Routes(s)) /\ m = Len(s.dns) OBVIOUS
<1>3. n \in Nat /\ m \in Nat BY <1>2, RoutesType
<1>4. Count(s) = n + m BY <1>2 DEF Count
<1>5. n + m \in Nat /\ n + m >= n BY <1>3
<1>6. ASSUME NEW d \in Dest, d \notin lost' PROVE Home(s, left', d, table'[d])
  <2>1. Whole(s, d, table'[d]) BY <1>6 DEF AllHome
  <2>2. left' \in Nat /\ left' >= Len(Routes(s)) BY <1>1, <1>2, <1>4, <1>5
  <2>. QED BY <2>1, <2>2, WholeHome
<1>7. SnapHome' BY <1>1, <1>6 DEF SnapHome, Preparing
<1>8. Serving' = NoSnap BY <1>1 DEF Serving
<1>. QED BY <1>1, <1>7, <1>8 DEF HandlerHome, DeletedFirst, HeldOut

LEMMA QuietHome ==
    ASSUME pc' \notin Preparing \cup {"anchors", "undo", "restore", "verify"},
           pc' = "idle" => mem' = NoSnap \/ HeldOut'
    PROVE  HandlerHome'
<1>1. HeldOut' BY DEF HeldOut, Serving, Preparing
<1>. QED BY <1>1 DEF HandlerHome, SnapHome, DeletedFirst

LEMMA HeldKept ==
    ASSUME HeldOut, \A d \in Dest : Back(d), lost \subseteq lost',
           Serving' # NoSnap /\ (op' = "prepare" \/ (Serving.pending)' # <<>>) =>
             Serving # NoSnap /\ (op = "prepare" \/ Serving.pending # <<>>)
    PROVE  HeldOut'
<1>1. SUFFICES ASSUME Serving' # NoSnap, op' = "prepare" \/ (Serving.pending)' # <<>>,
                      NEW c \in Capture, c \notin lost'
               PROVE  table'[c] = InitTable[c]
  BY DEF HeldOut
<1>2. table[c] = InitTable[c] BY <1>1 DEF HeldOut
<1>. QED BY <1>2, BackRow, MachineKeys

LEMMA HomeRequest ==
    ASSUME CleanMachine, Shape, SessionOK, FileOK, RoutesOK, HomeInv, Request, Steady'
    PROVE  HandlerHome'
<1>h. DefaultOK /\ DiskHome /\ SnapHome /\ HeldOut BY DEF HomeInv
<1>n. [Next]_vars BY DEF Next
<1>p. pc = "idle"
  BY DEF Request, TunUp, CommitRoutes, TakeTunFd, TunDown, Restore, Sigterm,
         InstallAnchor, RemoveAnchor
<1>b. \A d \in Dest : Back(d)
  <2>1. ~InstallRoute /\ ~DeleteRoute /\ ~RestoreRoute
    BY <1>p DEF InstallRoute, DeleteRoute, RestoreRoute
  <2>. QED BY <1>h, <1>n, <2>1, MostlyBack
<1>l. lost \subseteq lost' BY <1>n, LostGrows
<1>i. Ahead = {} BY <1>p, IdleAhead
<1>0. /\ mem # NoSnap => mem \in Snapshot /\ disk \in Snapshot /\ SameRoutes(mem)
      /\ disk # NoSnap => disk \in Snapshot
  BY <1>p DEF Shape, StoreOK, FileOK, FromFile
<1>m. mem # NoSnap => AllHome(mem, table, lost) /\ AllHome(mem, table', lost')
  <2>1. SUFFICES ASSUME mem # NoSnap
                 PROVE  AllHome(mem, table, lost) /\ AllHome(mem, table', lost')
    OBVIOUS
  <2>2. AllHome(mem, table, lost)
    BY <1>h, <1>i, <1>0, <2>1, FromDisk, NoSnapAssumption DEF SameRoutes
  <2>. QED BY <1>b, <1>l, <2>2, AllKept
<1>d. disk # NoSnap => AllHome(disk, table', lost')
  <2>1. SUFFICES ASSUME disk # NoSnap PROVE AllHome(disk, table', lost')
    OBVIOUS
  <2>2. AllHome(disk, table, lost) BY <1>h, <1>i, <2>1, FromDisk
  <2>. QED BY <1>b, <1>l, <2>2, AllKept
<1>s. Serving = mem BY <1>p DEF Serving
<1>1. ASSUME NEW t \in Tun, NEW defer \in DeferModes, TunUp(t, defer)
      PROVE  HandlerHome'
  <2>1. pc' = "apply" /\ snap' = NewSnapshot(t) /\ table' = table BY <1>1 DEF TunUp
  <2>2. /\ \A d \in Dest \ lost' : table[d] = InitTable[d]
        /\ AllHome(NewSnapshot(t), table, lost')
    BY <1>h, <1>1, FreshHome
  <2>3. SnapHome' BY <2>1, <2>2 DEF SnapHome
  <2>4. HeldOut' BY <2>1, <2>2, MachineKeys DEF HeldOut
  <2>. QED BY <2>1, <2>3, <2>4 DEF HandlerHome, DeletedFirst
<1>2. CASE CommitRoutes
  <2>1. /\ mem # NoSnap /\ mem.pending # <<>> /\ pc' = "apply" /\ op' = "commit"
        /\ snap' = [mem EXCEPT !.pending = <<>>] /\ table' = table /\ lost' = lost
    BY <1>2 DEF CommitRoutes, system
  <2>2. Captures(mem.pending) BY <1>s, <2>1 DEF RoutesOK, PendingAreCaptures
  <2>3. \A c \in Capture \ lost : table[c] = InitTable[c]
    BY <1>h, <1>s, <2>1 DEF HeldOut
  <2>4. ASSUME NEW d \in Dest, d \notin lost PROVE Whole(snap', d, table[d])
    <3>1. Whole(mem, d, table[d]) BY <1>m, <2>1, <2>4 DEF AllHome
    <3>2. d \in Capture => table[d] = InitTable[d] BY <2>3, <2>4
    <3>3. Whole([mem EXCEPT !.pending = <<>>], d, table[d])
      BY <1>0, <2>1, <2>2, <3>1, <3>2, TakenHome
    <3>. QED BY <2>1, <3>3
  <2>5. SnapHome' BY <2>1, <2>4 DEF SnapHome, AllHome
  <2>6. snap'.pending = <<>> BY <1>0, <2>1 DEF Snapshot
  <2>7. HeldOut' BY <2>1, <2>6 DEF HeldOut, Serving
  <2>. QED BY <2>1, <2>5, <2>7 DEF HandlerHome, DeletedFirst
<1>3. CASE TakeTunFd
  <2>1. UNCHANGED <<mem, work>> BY <1>3 DEF TakeTunFd
  <2>2. HeldOut' BY <1>h, <1>b, <1>l, <2>1, HeldKept DEF work, Serving
  <2>. QED BY <1>p, <2>1, <2>2, QuietHome DEF work, Preparing
<1>4. CASE TunDown
  BY <1>0, <1>m, <1>4, RollbackHome DEF TunDown
<1>5. CASE Restore
  BY <1>0, <1>m, <1>d, <1>5, RollbackHome DEF Restore
<1>6. CASE Sigterm
  <2>1. CASE Exit BY <2>1, QuietHome DEF Exit, Preparing
  <2>2. CASE ~Exit BY <1>0, <1>d, <1>6, <2>2, RollbackHome DEF Sigterm
  <2>. QED BY <2>1, <2>2
<1>7. ASSUME NEW a \in Anchor, InstallAnchor(a) \/ RemoveAnchor(a)
      PROVE  HandlerHome'
  <2>1. /\ mem # NoSnap /\ pc' = "anchorsave" /\ op' \in {"install", "remove"}
        /\ \E X : snap' = [mem EXCEPT !.anchors = X]
    BY <1>7 DEF InstallAnchor, RemoveAnchor
  <2>2. /\ snap'.installed = mem.installed /\ snap'.pending = mem.pending
        /\ snap'.iface = mem.iface /\ snap'.gw = mem.gw
    BY <1>0, <2>1 DEF Snapshot
  <2>3. AllHome(mem, table, lost) BY <1>m, <2>1
  <2>4. AllHome(snap', table', lost') BY <1>b, <1>l, <2>2, <2>3, AllKept
  <2>5. SnapHome' BY <2>1, <2>4 DEF SnapHome
  <2>6. Serving' = snap' BY <2>1 DEF Serving
  <2>7. HeldOut' BY <1>h, <1>b, <1>l, <1>s, <2>1, <2>2, <2>6, HeldKept
  <2>. QED BY <2>1, <2>5, <2>7 DEF HandlerHome, DeletedFirst
<1>. QED BY <1>1, <1>2, <1>3, <1>4, <1>5, <1>6, <1>7 DEF Request

LEMMA HomeApply ==
    ASSUME CleanMachine, Shape, SessionOK, FileOK, HomeInv, Apply, Steady'
    PROVE  HandlerHome'
<1>h. DefaultOK /\ DiskHome /\ SnapHome /\ HeldOut BY DEF HomeInv
<1>n. [Next]_vars BY DEF Next
<1>p. pc \in Preparing
  BY DEF Apply, InstallRoute, RouteFails, SaveRoute, SaveRouteFails, ConfigureFails,
         DeferRoute, DeferRouteFails, Prepared, BackupDns, BackupDnsFails, SetDns,
         SetDnsFails, MarkUp, MarkUpFails, SaveAnchors, SaveAnchorsFails, DeferTurn,
         DnsTurn, Preparing
<1>s. /\ snap \in Snapshot /\ snap # NoSnap /\ Serving = snap
      /\ AllHome(snap, table, lost)
  BY <1>h, <1>p, NoSnapAssumption
     DEF Shape, WorkOK, BusyHasSnap, Working, Preparing, Serving, SnapHome
<1>b. ~InstallRoute => \A d \in Dest : Back(d)
  <2>1. ~DeleteRoute /\ ~RestoreRoute
    BY <1>p DEF DeleteRoute, RestoreRoute, Preparing
  <2>. QED BY <1>h, <1>n, <2>1, MostlyBack
<1>l. lost \subseteq lost' BY <1>n, LostGrows
<1>a. ASSUME ~InstallRoute, NEW s, Rollback(s), s \in Snapshot,
             s.installed = snap.installed, s.pending = snap.pending,
             s.iface = snap.iface, s.gw = snap.gw
      PROVE  HandlerHome'
  <2>1. AllHome(s, table', lost') BY <1>a, <1>b, <1>l, <1>s, AllKept
  <2>. QED BY <1>a, <2>1, RollbackHome
(* A handler goes on with the same routes. *)
<1>c. ASSUME ~InstallRoute, pc' \in Preparing, op' = op,
             snap'.installed = snap.installed, snap'.pending = snap.pending,
             snap'.iface = snap.iface, snap'.gw = snap.gw
      PROVE  HandlerHome'
  <2>1. AllHome(snap', table', lost') BY <1>b, <1>c, <1>l, <1>s, AllKept
  <2>2. SnapHome' BY <1>c, <2>1 DEF SnapHome, Preparing
  <2>3. Serving' = snap' BY <1>c DEF Serving, Preparing
  <2>4. HeldOut' BY <1>h, <1>b, <1>c, <1>l, <1>s, <2>3, HeldKept
  <2>. QED BY <1>c, <2>2, <2>4 DEF HandlerHome, DeletedFirst, Preparing
(* A handler leaves its session in memory. *)
<1>m. ASSUME ~InstallRoute, Idle, mem' = NoSnap \/ mem'.pending = snap.pending
      PROVE  HandlerHome'
  <2>1. Serving' = mem' /\ op' = "none" /\ pc' = "idle" BY <1>m DEF Idle, Serving
  <2>2. mem' # NoSnap => HeldOut'
    BY <1>h, <1>b, <1>l, <1>m, <1>s, <2>1, HeldKept
  <2>. QED BY <2>1, <2>2, QuietHome DEF Preparing
<1>1. CASE InstallRoute
  <2>0. ~Silent BY <1>n, StillSteady
  <2>1. AllHome(snap', table', lost') BY <1>h, <1>1, <2>0, InstallHome
  <2>2. pc = "apply" /\ pc' = "record" /\ op' = op /\ lost' = lost
    BY <1>1 DEF InstallRoute
  <2>3. SnapHome' BY <2>1, <2>2 DEF SnapHome
  <2>4. PICK k \in Dest :
          LET via == IF k \in Capture THEN snap.iface ELSE snap.gw
              r   == [dest |-> k, via |-> via, replaced |-> table[PrefixRow(k)]]
          IN  /\ plan # <<>> /\ k = Head(plan).dest /\ snap.pending = <<>>
              /\ table' = [table EXCEPT ![k] = via]
              /\ snap' = [snap EXCEPT !.installed = Append(snap.installed, r)]
    BY <1>1, <2>0, InstallStep
  <2>5. snap'.pending = <<>> BY <1>s, <2>4 DEF Snapshot
  <2>6. op = "prepare" => k \notin Capture
    <3>1. plan \in Seq(PlanRec) /\ plan # <<>> BY <2>4 DEF Shape, WorkOK
    <3>2. 1 \in 1 .. Len(plan) /\ Head(plan) = plan[1] BY <3>1
    <3>. QED BY <2>2, <2>4, <3>2 DEF FileOK, BypassesOnly, Installing
  <2>7. HeldOut'
    <3>1. SUFFICES ASSUME op = "prepare", NEW c \in Capture, c \notin lost
                   PROVE  table'[c] = InitTable[c]
      BY <2>2, <2>5 DEF HeldOut, Serving
    <3>2. table[c] = InitTable[c] BY <1>h, <1>s, <3>1 DEF HeldOut
    <3>3. c \in Dest /\ table \in [Dest -> Via]
      BY MachineKeys DEF Shape, SystemOK
    <3>. QED BY <2>4, <2>6, <3>1, <3>2, <3>3
  <2>. QED BY <2>2, <2>3, <2>7 DEF HandlerHome, DeletedFirst
<1>2. CASE RouteFails
  <2>0. ~InstallRoute
    <3>1. pc' # "record" BY <1>2 DEF RouteFails, Abort, Rollback
    <3>. QED BY <3>1 DEF InstallRoute
  <2>1. CASE Abort BY <1>a, <1>s, <2>0, <2>1 DEF Abort
  <2>2. CASE ~Abort
    <3>1. UNCHANGED <<snap, pc, op>> BY <1>2, <2>2 DEF RouteFails
    <3>. QED BY <1>c, <1>p, <2>0, <3>1
  <2>. QED BY <2>1, <2>2
<1>0. pc' # "record" => ~InstallRoute BY DEF InstallRoute
<1>3. CASE SaveRoute \/ SetDns
  BY <1>0, <1>3, <1>c DEF SaveRoute, SetDns, Preparing
<1>4. CASE SaveRouteFails \/ ConfigureFails \/ SetDnsFails
  BY <1>0, <1>4, <1>a, <1>s DEF SaveRouteFails, ConfigureFails, SetDnsFails, Abort, Rollback
<1>5. CASE DeferRoute \/ DeferRouteFails
  <2>1. /\ DeferTurn /\ Len(snap.pending) < Len(CapturePlan)
        /\ table' = table /\ lost' = lost /\ op' = op
        /\ snap' = Deferred
        /\ pc' = "apply" \/ Rollback(Deferred)
    BY <1>5 DEF DeferRoute, DeferRouteFails, Rollback, DeferTurn, system
  <2>2. AllHome(Deferred, table, lost) BY <1>h, <2>1, DeferHome
  <2>3. Deferred \in Snapshot BY <1>s, <2>1, DeferredType
  <2>4. CASE Rollback(Deferred) BY <2>1, <2>2, <2>3, <2>4, RollbackHome
  <2>5. CASE pc' = "apply"
    <3>1. SnapHome' BY <2>1, <2>2, <2>5 DEF SnapHome
    <3>2. ~InstallRoute BY <2>5 DEF InstallRoute
    <3>3. HeldOut' BY <1>h, <1>b, <1>l, <1>s, <2>1, <3>2, HeldKept DEF DeferTurn
    <3>. QED BY <2>5, <3>1, <3>3 DEF HandlerHome, DeletedFirst
  <2>. QED BY <2>1, <2>4, <2>5
<1>6. CASE Prepared
  BY <1>0, <1>6, <1>m DEF Prepared, Idle
<1>7. CASE BackupDns
  BY <1>0, <1>7, <1>c, <1>s, BackedUpRoutes DEF BackupDns, Preparing
<1>8. CASE BackupDnsFails
  <2>1. pc' = "anchors" /\ \E s \in {snap, BackedUp} : Rollback(s)
    BY <1>8 DEF BackupDnsFails, Rollback
  <2>2. snap' \in Snapshot /\ Rollback(snap')
    BY <1>n, <2>1, ShapeNext DEF Shape, WorkOK, BusyHasSnap, Working, Rollback
  <2>3. /\ snap'.installed = snap.installed /\ snap'.pending = snap.pending
        /\ snap'.iface = snap.iface /\ snap'.gw = snap.gw
    BY <1>s, <2>1, BackedUpRoutes DEF Rollback
  <2>. QED BY <1>0, <1>a, <2>1, <2>2, <2>3
<1>9. CASE MarkUp
  <2>1. Idle /\ mem' = [snap EXCEPT !.state = "Up"] BY <1>9 DEF MarkUp
  <2>2. mem'.pending = snap.pending BY <1>s, <2>1, MarkedRoutes
  <2>. QED BY <1>0, <1>m, <2>1, <2>2 DEF Idle
<1>10. CASE MarkUpFails
  <2>1. CASE Abort BY <1>0, <1>a, <1>s, <2>1 DEF Abort, Rollback
  <2>2. CASE ~Abort
    BY <1>0, <1>m, <1>10, <2>2 DEF MarkUpFails, Idle
  <2>. QED BY <2>1, <2>2
<1>11. CASE SaveAnchors \/ SaveAnchorsFails
  BY <1>0, <1>m, <1>11 DEF SaveAnchors, SaveAnchorsFails, Idle
<1>. QED
  BY <1>1, <1>2, <1>3, <1>4, <1>5, <1>6, <1>7, <1>8, <1>9, <1>10, <1>11 DEF Apply

LEMMA HomeUndo ==
    ASSUME CleanMachine, Shape, DnsOK, FileOK, HomeInv, Undo, Steady'
    PROVE  HandlerHome'
<1>h. DefaultOK /\ DiskHome /\ SnapHome /\ DeletedFirst BY DEF HomeInv
<1>n. [Next]_vars BY DEF Next
<1>q. ~Silent BY <1>n, StillSteady
<1>l. lost \subseteq lost' BY <1>n, LostGrows
<1>v. Serving' = NoSnap /\ mem' = NoSnap BY NothingToServe
<1>o. HeldOut' BY <1>v DEF HeldOut
<1>s. pc \in Working => snap \in Snapshot /\ snap # NoSnap
  BY NoSnapAssumption DEF Shape, WorkOK, BusyHasSnap
<1>i. ~InstallRoute
  BY DEF Undo, UndoAnchors, UndoDns, DeleteRoute, RestoreRoute, SkipChecks, CheckRoutes,
         CheckDns, Clear, EndSession, EndCommit, EndRestore, EndBoot, EndTerm,
         InstallRoute
<1>1. CASE UndoAnchors
  <2>1. /\ pc = "anchors" /\ pc' = "undo" /\ (ok' => ok)
        /\ UNCHANGED <<table, snap, left, lost>>
    BY <1>q, <1>1 DEF UndoAnchors, Missed
  <2>2. SnapHome' BY <1>h, <2>1 DEF SnapHome, Preparing
  <2>. QED BY <1>o, <2>1, <2>2 DEF HandlerHome, DeletedFirst
<1>2. CASE UndoDns
  <2>1. /\ pc = "undo" /\ pc' = "undo" /\ (ok' => ok) /\ left > Len(Routes(snap))
        /\ left' = left - 1 /\ UNCHANGED <<table, snap, lost>>
    BY <1>q, <1>2 DEF UndoDns, Missed
  <2>2. snap \in Snapshot /\ left \in Nat BY <1>s, <2>1 DEF Working, Shape, WorkOK
  <2>3. PICK n : n = Len(Routes(snap)) OBVIOUS
  <2>4. n \in Nat BY <2>2, <2>3, RoutesType
  <2>5. left' \in Nat /\ left' >= n /\ left >= n BY <2>1, <2>2, <2>3, <2>4
  <2>6. ASSUME ok', NEW d \in Dest, d \notin lost PROVE Home(snap, left', d, table[d])
    <3>1. Home(snap, left, d, table[d]) BY <1>h, <2>1, <2>6 DEF SnapHome
    <3>2. Whole(snap, d, table[d]) BY <2>2, <2>3, <2>5, <3>1, WholeHome
    <3>. QED BY <2>2, <2>3, <2>5, <3>2, WholeHome
  <2>7. SnapHome' BY <2>1, <2>6 DEF SnapHome, Preparing
  <2>. QED BY <1>o, <2>1, <2>7 DEF HandlerHome, DeletedFirst
<1>3. CASE DeleteRoute
  <2>. DEFINE r == Routes(snap)[left]
  <2>1. /\ snap \in Snapshot /\ left \in 1 .. Len(Routes(snap)) /\ r \in RouteRec
        /\ snap' = snap /\ lost' = lost
    BY <1>3, UndoRecord
  <2>2. /\ pc = "undo"
        /\ \/ r.replaced = NoRoute /\ left' = left - 1 /\ pc' = "undo"
           \/ r.replaced # NoRoute /\ left' = left /\ pc' = "restore"
    BY <1>3 DEF DeleteRoute
  <2>3. ASSUME ok', NEW d \in Dest, d \notin lost
        PROVE  /\ ok /\ Home(snap, left, d, table[d])
               /\ Home(snap, left', d, table'[d])
               /\ d = Scoped /\ r.dest = Scoped /\ r.replaced # NoRoute =>
                    table'[d] = NoRoute
    <3>0. ok BY <1>3, <1>q, <2>3 DEF DeleteRoute, Missed
    <3>1. Home(snap, left, d, table[d]) BY <1>h, <2>2, <2>3, <3>0 DEF SnapHome
    <3>2. CASE d # r.dest
      <4>1. table'[d] = table[d] BY <1>3, <3>2, DeleteRow
      <4>2. Home(snap, left - 1, d, table[d]) BY <2>1, <3>1, <3>2, OthersHome
      <4>. QED BY <2>2, <3>0, <3>1, <3>2, <4>1, <4>2
    <3>3. CASE d = r.dest
      <4>1. table'[d] = Deleted(table[d], r.via) BY <1>3, <1>q, <2>3, <3>3, DeleteRow
      <4>2. left \in Of(snap, left, d)
        BY <2>1, <3>3, OneLess
      <4>3. CASE r.replaced = NoRoute
        <5>1. Home(snap, left - 1, d, Deleted(table[d], r.via))
          BY <2>1, <3>1, <3>3, <4>3, DeletedHome
        <5>. QED BY <2>2, <3>0, <3>1, <4>1, <4>3, <5>1
      <4>4. CASE r.replaced # NoRoute
        <5>1. Home(snap, left, d, Deleted(table[d], r.via))
          BY <2>1, <3>1, <4>2, DeleteHome
        <5>2. d = Scoped => Deleted(table[d], r.via) = NoRoute
          BY <2>1, <3>1, <4>2, <4>4, ScopedGone
        <5>. QED BY <2>2, <3>0, <3>1, <4>1, <4>4, <5>1, <5>2
      <4>. QED BY <4>3, <4>4
    <3>. QED BY <3>2, <3>3
  <2>4. SnapHome' BY <2>1, <2>2, <2>3 DEF SnapHome, Preparing
  <2>5. DeletedFirst'
    <3>1. Scoped \in Dest BY MachineKeys
    <3>. QED BY <2>1, <2>2, <2>3, <3>1 DEF DeletedFirst
  <2>. QED BY <1>o, <2>4, <2>5 DEF HandlerHome
<1>4. CASE RestoreRoute
  <2>. DEFINE r == Routes(snap)[left]
  <2>1. /\ snap \in Snapshot /\ left \in 1 .. Len(Routes(snap)) /\ r \in RouteRec
        /\ snap' = snap /\ lost' = lost
    BY <1>4, UndoRecord
  <2>2. /\ pc = "restore" /\ pc' = "undo" /\ left' = left - 1 /\ (ok' => ok)
    BY <1>4, <1>q DEF RestoreRoute, Missed
  <2>3. r.replaced # NoRoute /\ (ok /\ r.dest = Scoped /\ Scoped \notin lost =>
                                   table[Scoped] = NoRoute)
    BY <1>h, <2>2 DEF DeletedFirst
  <2>4. ASSUME ok', NEW d \in Dest, d \notin lost
        PROVE  Home(snap, left - 1, d, table'[d])
    <3>1. Home(snap, left, d, table[d]) BY <1>h, <2>2, <2>4 DEF SnapHome
    <3>2. CASE d # r.dest
      <4>1. Home(snap, left - 1, d, table[d]) BY <2>1, <3>1, <3>2, OthersHome
      <4>2. Back(d) BY <1>4, <1>h, <3>2, RestoreRow
      <4>. QED BY <4>1, <4>2, BackRow
    <3>3. CASE d = r.dest /\ d # Scoped
      <4>1. table'[d] = r.replaced BY <1>4, <1>h, <1>q, <2>4, <3>3, RestoreRow
      <4>2. Home(snap, left - 1, d, r.replaced)
        BY <2>1, <2>3, <3>1, <3>3, RestoredHome
      <4>. QED BY <4>1, <4>2
    <3>4. CASE d = r.dest /\ d = Scoped
      <4>1. table'[d] = table[d] BY <1>4, <1>h, <3>4, RestoreRow
      <4>2. table[d] = NoRoute BY <2>2, <2>3, <2>4, <3>4
      <4>3. Home(snap, left - 1, d, table[d])
        BY <2>1, <2>3, <3>1, <3>4, <4>2, RestoredHome
      <4>. QED BY <4>1, <4>3
    <3>. QED BY <3>2, <3>3, <3>4
  <2>5. SnapHome' BY <2>1, <2>2, <2>4 DEF SnapHome, Preparing
  <2>. QED BY <1>o, <2>2, <2>5 DEF HandlerHome, DeletedFirst
<1>b. ~DeleteRoute /\ ~RestoreRoute => \A d \in Dest : Back(d)
  BY <1>h, <1>i, <1>n, MostlyBack
<1>5. CASE CheckRoutes
  <2>1. /\ pc = "undo" /\ left = 0 /\ ok /\ pc' = "verify" /\ lost' = lost
    BY <1>5 DEF CheckRoutes
  <2>2. ~DeleteRoute /\ ~RestoreRoute BY <2>1 DEF DeleteRoute, RestoreRoute
  <2>3. ASSUME NEW d \in Dest, d \notin lost PROVE table'[d] = InitTable[d]
    <3>1. Home(snap, 0, d, table[d]) BY <1>h, <2>1, <2>3 DEF SnapHome
    <3>2. table[d] = InitTable[d] BY <3>1, NothingLeft
    <3>. QED BY <1>b, <2>2, <3>2, BackRow
  <2>4. SnapHome' BY <2>1, <2>3 DEF SnapHome, Preparing
  <2>. QED BY <1>o, <2>1, <2>4 DEF HandlerHome, DeletedFirst
<1>6. CASE CheckDns
  <2>1. /\ pc = "verify" /\ pc' = "verify" /\ (ok' => ok) /\ UNCHANGED <<table, lost>>
    BY <1>6 DEF CheckDns
  <2>2. SnapHome' BY <1>h, <2>1 DEF SnapHome, Preparing
  <2>. QED BY <1>o, <2>1, <2>2 DEF HandlerHome, DeletedFirst
<1>7. CASE SkipChecks \/ Clear \/ EndBoot \/ EndSession \/ EndCommit \/ EndTerm
  <2>1. pc' \in {"done", "reconcile", "idle", "down"}
    BY <1>7 DEF SkipChecks, Clear, EndBoot, EndSession, EndCommit, EndTerm, Exit, Idle
  <2>. QED BY <1>v, <2>1, QuietHome DEF Preparing
<1>8. CASE EndRestore
  <2>1. CASE Idle BY <1>v, <2>1, QuietHome DEF Idle, Preparing
  <2>2. CASE ~Idle
    <3>1. pc = "done" /\ op = "restore" /\ disk # NoSnap /\ Rollback(disk)
      BY <1>8, <2>2 DEF EndRestore
    <3>2. ~Behind BY <3>1 DEF Behind
    <3>3. Ahead = {} BY <3>2, AheadNone DEF FileOK, FromFile
    <3>4. AllHome(disk, table, lost) BY <1>h, <3>1, <3>3, FromDisk
    <3>5. ~DeleteRoute /\ ~RestoreRoute BY <3>1 DEF DeleteRoute, RestoreRoute
    <3>6. AllHome(disk, table', lost') BY <1>b, <1>l, <3>4, <3>5, AllKept
    <3>7. disk \in Snapshot BY <3>1 DEF Shape, StoreOK
    <3>. QED BY <3>1, <3>6, <3>7, RollbackHome
  <2>. QED BY <2>1, <2>2
<1>. QED BY <1>1, <1>2, <1>3, <1>4, <1>5, <1>6, <1>7, <1>8 DEF Undo

LEMMA HomeRecover ==
    ASSUME Shape, DnsOK, FileOK, HomeInv, Recover
    PROVE  HandlerHome'
<1>v. mem' = NoSnap BY NothingToServe
<1>1. CASE ~RollbackStale
  <2>1. pc' \in {"reconcile", "probe", "bootanchors", "bootsave", "idle"}
    BY <1>1 DEF Recover, Boot, BootAnchors, SaveBootAnchors, LeaveRunning, Reconcile, Idle
  <2>. QED BY <1>v, <2>1, QuietHome DEF Preparing
<1>2. CASE RollbackStale
  <2>1. pc = "probe" /\ Rollback(snap) /\ table' = table /\ lost' = lost
    BY <1>2 DEF RollbackStale, system
  <2>2. snap \in Snapshot /\ snap # NoSnap /\ disk # NoSnap /\ SameRoutes(snap)
    BY <2>1, NoSnapAssumption
       DEF Shape, WorkOK, BusyHasSnap, Working, FileOK, FromFile, Behind, Installing,
           Rolling
  <2>3. Ahead = {} BY <2>2, AheadNone
  <2>4. AllHome(snap, table, lost)
    BY <2>2, <2>3, FromDisk DEF HomeInv, SameRoutes
  <2>. QED BY <2>1, <2>2, <2>4, RollbackHome
<1>. QED BY <1>1, <1>2

LEMMA HomeStill ==
    ASSUME CleanMachine, Shape, HomeInv, Steady', [Next]_vars,
           UNCHANGED <<mem, work, lost>>, ~InstallRoute, ~DeleteRoute, ~RestoreRoute
    PROVE  HandlerHome'
<1>h. DefaultOK /\ SnapHome /\ DeletedFirst /\ HeldOut BY DEF HomeInv
<1>b. \A d \in Dest : Back(d) BY <1>h, MostlyBack
<1>1. snap' = snap /\ pc' = pc /\ op' = op /\ left' = left /\ ok' = ok /\ mem' = mem
  BY DEF work
<1>2. Serving' = Serving BY <1>1 DEF Serving
<1>3. HeldOut' BY <1>h, <1>b, <1>1, <1>2, HeldKept
<1>4. pc \in Preparing => AllHome(snap', table', lost')
  BY <1>h, <1>b, <1>1, AllKept DEF SnapHome
<1>5. SnapHome'
  <2>1. pc \in {"anchors", "undo", "restore"} /\ ok =>
          \A d \in Dest \ lost : Home(snap, left, d, table'[d])
    BY <1>h, <1>b, BackRow DEF SnapHome
  <2>2. pc = "verify" /\ ok => \A d \in Dest \ lost : table'[d] = InitTable[d]
    BY <1>h, <1>b, BackRow DEF SnapHome
  <2>. QED BY <1>1, <1>4, <2>1, <2>2 DEF SnapHome
<1>6. table[Scoped] = NoRoute => table'[Scoped] = NoRoute
  BY <1>b, MachineKeys DEF Back, CleanMachine
<1>7. DeletedFirst' BY <1>h, <1>1, <1>6 DEF DeletedFirst
<1>. QED BY <1>3, <1>5, <1>7 DEF HandlerHome

(* Everything together.                                                    *)
HomeOK == CleanMachine /\ Steady => HomeInv

LEMMA HomeInit == Init => HomeOK
<1>. SUFFICES ASSUME Init, CleanMachine PROVE HomeInv
  BY DEF HomeOK
<1>1. /\ table = InitTable /\ disk = NoSnap /\ mem = NoSnap /\ snap = NoSnap
      /\ pc = "idle"
  BY DEF Init
<1>2. DefaultOK BY <1>1 DEF DefaultOK, DefaultIn
<1>3. DiskHome BY <1>1 DEF DiskHome
<1>4. Serving = NoSnap BY <1>1 DEF Serving
<1>. QED BY <1>1, <1>2, <1>3, <1>4 DEF HomeInv, SnapHome, DeletedFirst, HeldOut, Preparing

LEMMA HomeNext ==
    ASSUME Shape, DnsOK, RoutesOK, SessionOK, FileOK, HomeOK, [Next]_vars
    PROVE  HomeOK'
<1>. SUFFICES ASSUME CleanMachine, Steady' PROVE HomeInv'
  BY DEF HomeOK
<1>1. Steady /\ \A v \in Gateway \cup {NoRoute} : ~NetworkSwitch(v) BY StillSteady
<1>2. HomeInv BY <1>1 DEF HomeOK
<1>3. DefaultOK' BY <1>2, DefaultNext DEF HomeInv
<1>4. DiskHome' BY <1>2, DiskNext
<1>5. HandlerHome'
  <2>1. CASE Request BY <1>2, <2>1, HomeRequest
  <2>2. CASE Apply BY <1>2, <2>2, HomeApply
  <2>3. CASE Undo BY <1>2, <2>3, HomeUndo
  <2>4. CASE Recover BY <1>2, <2>4, HomeRecover
  <2>5. CASE Crash BY <2>5, QuietHome DEF Crash, Exit, Preparing
  <2>6. CASE AppExit \/ UNCHANGED vars
    <3>1. UNCHANGED <<mem, work, lost>> BY <2>6 DEF AppExit, vars
    <3>2. CASE ~InstallRoute /\ ~DeleteRoute /\ ~RestoreRoute
      BY <1>2, <3>1, <3>2, HomeStill
    <3>3. CASE InstallRoute \/ DeleteRoute \/ RestoreRoute
      BY <1>2, <3>3, HomeApply, HomeUndo DEF Apply, Undo
    <3>. QED BY <3>2, <3>3
  <2>. QED BY <1>1, <2>1, <2>2, <2>3, <2>4, <2>5, <2>6 DEF Next, Environment
<1>. QED BY <1>3, <1>4, <1>5 DEF HomeInv, HandlerHome

LEMMA HomeEnd ==
    ASSUME CleanMachine, Shape, NotesTrue, FileOK, HomeOK
    PROVE  RestoredExactly
<1>. SUFFICES ASSUME pc = "idle", mem = NoSnap, disk = NoSnap, Steady
              PROVE  /\ \A d \in Dest \ lost : table[d] = InitTable[d]
                     /\ \A s \in Service \ lost : dns[s] = InitDns[s]
  BY DEF RestoredExactly, Steady
<1>1. Ahead = {} BY IdleAhead
<1>2. DiskHome BY DEF HomeOK, HomeInv
<1>3. \A d \in Dest \ lost : table[d] = InitTable[d] BY <1>1, <1>2 DEF DiskHome
<1>4. ASSUME NEW s \in Service \ lost PROVE dns[s] = InitDns[s]
  <2>1. disk \notin Snapshot BY NoSnapAssumption
  <2>2. Noted[s] = {} BY <2>1, NotedBlank
  <2>. QED BY <2>2 DEF NotesTrue, AsBefore
<1>. QED BY <1>3, <1>4

(* Once no session is recorded anywhere, every route and every resolver is *)
(* what it was before the first session, whatever commands failed, whoever *)
(* died on the way, and however often: only a key whose record was dropped *)
(* is an exception (controller.rs, rollback), as long as no command lies,  *)
(* the network is the same, and the machine had no scoped default and, for *)
(* a `route delete` that goes by the prefix, no route on the captures.     *)
THEOREM GivesBackExactly == CleanMachine => (Spec => []RestoredExactly)
<1>. SUFFICES ASSUME CleanMachine PROVE Spec => []RestoredExactly
  OBVIOUS
<1>. DEFINE Inv == Shape /\ DnsOK /\ LoanOK /\ Begun /\ NotesTrue /\ FileOK /\ HomeOK
<1>1. Init => Inv
  <2>1. Init => Shape /\ DnsOK /\ LoanOK /\ Begun /\ Loan!Init
    BY ShapeInit, DnsInit, LoanInit DEF Init, Begun
  <2>2. Loan!Init => NotesTrue BY DEF Loan!Init, Loan!Blank, NotesTrue, AsBefore
  <2>. QED BY <2>1, <2>2, FileInit, HomeInit
<1>2. Inv /\ RoutesOK /\ TunnelOK /\ [Next]_vars => Inv'
  <2>. SUFFICES ASSUME Inv, RoutesOK, TunnelOK, [Next]_vars PROVE Inv'
    OBVIOUS
  <2>1. (Shape /\ DnsOK)' BY ShapeNext, DnsNext
  <2>2. (LoanOK /\ Begun)' /\ LoanStep BY LoanNext
  <2>3. NotesTrue' BY <2>1, <2>2, NotesTrueNext
  <2>4. SessionOK BY DEF TunnelOK
  <2>5. FileOK' BY <2>4, FileNext
  <2>6. HomeOK' BY <2>4, HomeNext
  <2>. QED BY <2>1, <2>2, <2>3, <2>5, <2>6
<1>3. Inv => RestoredExactly BY HomeEnd
<1>. QED BY <1>1, <1>2, <1>3, TunnelInvariance, PTL DEF Spec
==============================================================================
