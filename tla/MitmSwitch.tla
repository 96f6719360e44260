------------------------------ MODULE MitmSwitch ------------------------------
(***************************************************************************)
(* Switching the inspection of HTTPS on and off.  Three things must agree: *)
(* the helper has put the App's root certificate into the keychain, the    *)
(* App runs the proxy that signs with it, and the core was started with    *)
(* the rules that steer the opted-in domains there.  The helper ties a     *)
(* root to its TUN session and takes it back when that session ends.       *)
(*                                                                         *)
(* The helper is cut down to its session and the roots on record there:    *)
(* TunSession has the record's own crashes, ConnectFlow the requests.      *)
(* Helper requests exclude one another and a start, which holds the        *)
(* client; settings, mitm_apply, dying cores and helpers do not wait.      *)
(***************************************************************************)
EXTENDS Naturals, FiniteSets

CONSTANTS
    MaxRoots,   \* bound: roots made; one per process of the App
    MaxUndos,   \* bound: roots the keychain does not let go
    MaxApplies  \* bound: calls of mitm_apply under way at once

ASSUME MitmAssumption == {MaxRoots, MaxUndos, MaxApplies} \subseteq Nat

VARIABLES
    tunnel,         \* the helper has a session
    record,         \* the roots on record in its snapshot
    keychain,       \* the roots the system trusts
    root, made,     \* MitmRuntime.ca, 0 if there is none; roots made so far
    mitmOn,         \* settings.mitm.is_active()
    proxy,          \* MitmRuntime.handle
    applies,        \* what the running mitm_apply calls have read
    held,           \* Supervisor.session_id is there
    process, steers, \* the core process; whether it was given steering rules
    starting,       \* the running start_core
    followed, why,  \* history: see SteeredIsServed
    stuck           \* bound: roots not let go

helperVars == <<tunnel, record, keychain>>
appVars    == <<root, made, mitmOn, proxy, applies>>
coreVars   == <<held, process, steers, starting>>
toldVars   == <<followed, why>>
mitmVars   == <<helperVars, appVars, coreVars, toldVars, stuck>>

NoStart == [phase |-> "none", tun |-> FALSE, steers |-> FALSE]

ClientFree == starting.phase = "none"

Excused(reason) == why' = why \cup {reason}

Lost(reason) == IF keychain' = keychain THEN UNCHANGED why ELSE Excused(reason)

ca_is_trusted == root \in keychain

MitmInit ==
    /\ tunnel = FALSE /\ record = {} /\ keychain = {}
    /\ root = 0 /\ made = 0 /\ mitmOn \in BOOLEAN /\ proxy = FALSE /\ applies = {}
    /\ held = FALSE /\ process = "none" /\ steers = FALSE /\ starting = NoStart
    /\ followed = TRUE /\ why = {} /\ stuck = 0

------------------------------------------------------------------------------
(* The helper *)

(* A session ends: what is on record leaves the keychain, and then the     *)
(* record goes.  A root that does not leave keeps the whole record.        *)
EndedKeepingRoots == tunnel' = FALSE /\ record' = {} /\ UNCHANGED <<keychain, stuck>>

Ended ==
    /\ tunnel' = FALSE
    /\ \/ keychain' = keychain \ record /\ record' = {} /\ UNCHANGED stuck
       \/ /\ stuck < MaxUndos /\ stuck' = stuck + 1
          /\ \E bad \in SUBSET record \ {{}} : keychain' = keychain \ (record \ bad)
          /\ UNCHANGED record

(* launchd starts it again, with its session forgotten; at boot every root *)
(* on record goes, even if the tunnel of that session is still up.  Then a *)
(* root that does not leave is all that stays on record.                   *)
HelperRestarts ==
    /\ tunnel' = FALSE
    /\ \E bad \in SUBSET record :
         /\ Cardinality(bad) + stuck <= MaxUndos /\ stuck' = stuck + Cardinality(bad)
         /\ keychain' = keychain \ (record \ bad) /\ record' = bad
    /\ Lost("helper") /\ UNCHANGED <<appVars, coreVars, followed>>

------------------------------------------------------------------------------
(* The commands of the user *)

Toggle ==
    /\ mitmOn' = ~mitmOn /\ followed' = FALSE /\ Excused("unapplied")
    /\ UNCHANGED <<helperVars, root, made, proxy, applies, coreVars, stuck>>

(* The root is made before the helper is asked, which refuses if it has no *)
(* session to tie it to.                                                   *)
mitm_ca_install ==
    /\ ClientFree
    /\ IF root # 0 THEN UNCHANGED <<root, made>>
       ELSE made < MaxRoots /\ made' = made + 1 /\ root' = made + 1
    /\ \/ UNCHANGED <<helperVars, toldVars>>
       \/ /\ tunnel
          /\ keychain' = keychain \cup {root'} /\ record' = record \cup {root'}
          /\ followed' = FALSE /\ Excused("unapplied") /\ UNCHANGED tunnel
    /\ UNCHANGED <<mitmOn, proxy, applies, coreVars, stuck>>

(* The proxy is stopped if the helper's answer arrives.                    *)
mitm_ca_remove ==
    /\ ClientFree /\ root # 0 /\ tunnel
    /\ keychain' = keychain \ {root} /\ record' = record \ {root}
    /\ proxy' \in {FALSE, proxy} /\ Excused("removed")
    /\ UNCHANGED <<tunnel, root, made, mitmOn, applies, coreVars, followed, stuck>>

(* mitm_apply reads under the lock of the App's state, and acts under it a *)
(* second time.  Installing a root ends with it, if the answer arrives.    *)
ApplyReads ==
    LET a == [on |-> mitmOn, trusted |-> ca_is_trusted]
    IN  /\ a \notin applies /\ Cardinality(applies) < MaxApplies
        /\ applies' = applies \cup {a}
        /\ UNCHANGED <<helperVars, root, made, mitmOn, proxy, coreVars, toldVars, stuck>>

mitm_apply(a) ==
    /\ a \in applies /\ applies' = applies \ {a}
    /\ \/ /\ proxy' = (a.on /\ a.trusted)
          /\ followed' = (a.on = mitmOn /\ a.trusted = ca_is_trusted)
       \/ a.on /\ a.trusted /\ proxy' = FALSE /\ followed' = FALSE
    /\ IF followed' THEN UNCHANGED why ELSE Excused("unapplied")
    /\ UNCHANGED <<helperVars, root, made, mitmOn, coreVars, stuck>>

(* "Repair the network", from the window or from the tray.                 *)
RepairNetwork ==
    /\ ClientFree /\ Ended /\ Lost("removed")
    /\ UNCHANGED <<appVars, coreVars, followed>>

------------------------------------------------------------------------------
(* The core *)

core_settingsAsTheyAre(trusted) == mitmOn

core_settings(trusted) == mitmOn /\ trusted

(* The keychain is asked once, before the helper; no answer counts as no.  *)
StartReads(tun) ==
    /\ ClientFree /\ process # "running" /\ process' = "none"
    /\ \E trusted \in {FALSE, ca_is_trusted} :
         starting' = [phase |-> "node", tun |-> tun, steers |-> core_settings(trusted)]
    /\ why' = IF followed THEN {} ELSE {"unapplied"}
    /\ UNCHANGED <<helperVars, appVars, held, steers, followed, stuck>>

(* One node of the list.  A session that is in the way is ended first, and *)
(* a new one adopts the roots the last one did not get rid of.             *)
TunUp ==
    /\ starting.phase = "node" /\ starting.tun /\ ~tunnel
    /\ tunnel' = TRUE /\ held' = TRUE /\ starting' = [starting EXCEPT !.phase = "spawn"]
    /\ UNCHANGED <<record, keychain, appVars, process, steers, toldVars, stuck>>

SelfHeal ==
    /\ starting.phase = "node" /\ starting.tun /\ tunnel
    /\ Ended /\ Lost("start")
    /\ starting' = IF record' = {} THEN starting ELSE [starting EXCEPT !.phase = "failed"]
    /\ UNCHANGED <<appVars, held, process, steers, followed>>

NoTunnelWanted ==
    /\ starting.phase = "node" /\ ~starting.tun /\ starting' = [starting EXCEPT !.phase = "spawn"]
    /\ UNCHANGED <<helperVars, appVars, held, process, steers, toldVars, stuck>>

(* The core listens, the gate has passed, the helper has the routes.       *)
CoreListens ==
    /\ starting.phase = "spawn" /\ (starting.tun => tunnel)
    /\ process' = "running" /\ steers' = starting.steers /\ starting' = NoStart
    /\ UNCHANGED <<helperVars, appVars, held, toldVars, stuck>>

(* TunDown, with the id the supervisor gives up whatever the answer is.    *)
rollback_tun ==
    /\ held' = FALSE
    /\ IF held /\ tunnel THEN Ended ELSE UNCHANGED <<helperVars, stuck>>

(* Without a descriptor or a process nothing is rolled back.               *)
NodeFails ==
    /\ starting.phase = "spawn" /\ starting' = [starting EXCEPT !.phase = "failed"]
    /\ \/ rollback_tun /\ Lost("start")
       \/ UNCHANGED <<helperVars, held, stuck, why>>
    /\ UNCHANGED <<appVars, process, steers, followed>>

TunUpFails ==
    /\ starting.phase = "node" /\ starting.tun /\ starting' = [starting EXCEPT !.phase = "failed"]
    /\ UNCHANGED <<helperVars, appVars, held, process, steers, toldVars, stuck>>

(* The next node is tried with the settings the first one was given.       *)
NextNode ==
    /\ starting.phase = "failed"
    /\ starting' \in {NoStart, [starting EXCEPT !.phase = "node"]}
    /\ UNCHANGED <<helperVars, appVars, held, process, steers, toldVars, stuck>>

stop_core ==
    /\ ClientFree /\ process' = "none" /\ rollback_tun
    /\ UNCHANGED <<appVars, steers, starting, toldVars>>

(* The supervisor finds out when it is asked to start again.               *)
CoreExits ==
    /\ process = "running" /\ process' = "dead"
    /\ UNCHANGED <<helperVars, appVars, held, steers, starting, toldVars, stuck>>

(* Quit or killed, and started again: the root's key is gone with it.  The *)
(* session is ended on the way out or at the next start, if the helper     *)
(* answers; the core of a killed App is left to ConnectFlow.               *)
RelaunchApp ==
    /\ root' = 0 /\ proxy' = FALSE /\ applies' = {} /\ followed' = FALSE /\ why' = {}
    /\ process' = "none" /\ steers' = FALSE /\ held' = FALSE /\ starting' = NoStart
    /\ Ended \/ UNCHANGED <<helperVars, stuck>>
    /\ UNCHANGED <<made, mitmOn>>

------------------------------------------------------------------------------
MitmNext ==
    \/ HelperRestarts \/ Toggle \/ mitm_ca_install \/ mitm_ca_remove \/ ApplyReads
    \/ \E a \in applies : mitm_apply(a)
    \/ RepairNetwork \/ \E tun \in BOOLEAN : StartReads(tun)
    \/ TunUp \/ SelfHeal \/ NoTunnelWanted \/ CoreListens \/ NodeFails \/ TunUpFails \/ NextNode
    \/ stop_core \/ CoreExits \/ RelaunchApp

MitmSpec == MitmInit /\ [][MitmNext]_mitmVars
------------------------------------------------------------------------------
(* Correctness *)

Roots == 1 .. MaxRoots

MitmTypeOK ==
    /\ keychain \subseteq Roots /\ record \subseteq Roots /\ root \in 0 .. made
    /\ tunnel \in BOOLEAN /\ (process = "running" => ClientFree)
    /\ why \subseteq {"helper", "unapplied", "removed", "start"}

(* A running core that steers finds a proxy to steer to, whose root the    *)
(* system trusts.  From the moment the start read the keychain only these  *)
(* break it: the helper is restarted; the user removes the root, repairs   *)
(* the network or changes settings that mitm_apply has not followed; the   *)
(* start itself ends a session, of an earlier core or of a node that       *)
(* failed, and takes the root away with it.                                *)
SteeredIsServed ==
    process = "running" /\ steers => (ca_is_trusted /\ proxy) \/ why # {}

(* A root goes with its session, so a reconnect never finds one: a start   *)
(* steers only if somebody failed to end the session before it, or to get  *)
(* a root out of the keychain.                                             *)
SteersOnLeftovers ==
    [][starting.phase = "none" /\ starting'.steers => tunnel \/ stuck > 0]_mitmVars

===============================================================================
