----------------------------- MODULE HelperServer -----------------------------
(***************************************************************************)
(* xraytun-helper as a server: one thread per connection, one mutex around *)
(* State.session, the thread that waits for SIGTERM, and launchd.  What a  *)
(* handler does to the system is that of TunSession, cut down to what two  *)
(* handlers can do to each other: TunUp, the second half of Restore and    *)
(* the SIGTERM thread work on the system and on the snapshot file without  *)
(* the lock.  A client that gave up waiting is a request on another        *)
(* thread.  There is one bypass route, one pair of captures, one service.  *)
(***************************************************************************)
EXTENDS Naturals, FiniteSets

CONSTANTS
    Conn,      \* connection threads
    Signal,    \* the sigwait thread
    Session,   \* session ids clients may use
    None,      \* no session, no file, no thread
    MaxAsk,    \* bound: requests and SIGTERMs
    MaxFault   \* bound: commands and writes that report an error

ASSUME NamesAssumption ==
    Signal \notin Conn /\ None \notin Conn \cup {Signal} \cup Session

ASSUME LimitsAssumption == MaxAsk \in Nat /\ MaxFault \in Nat

Thread == Conn \cup {Signal}

(* A snapshot.  "over" is a route that replaced one that was there; taken  *)
(* is the tunnel the captures replaced.                                    *)
Rec == [id       : Session,
        bypass   : {"none", "fresh", "over"},
        captures : {"none", "pending", "installed"},
        taken    : Session \cup {None},
        dns      : {"none", "user", "dhcp"}]

ASSUME NoneAssumption == None \notin Rec

Fresh(id) ==
    [id |-> id, bypass |-> "none", captures |-> "none", taken |-> None, dns |-> "none"]

VARIABLES
    alive,     \* "running", "down" (launchd will restart it), "removed"
    lock,      \* the thread that holds State's mutex
    session,   \* State.session
    file,      \* helper-session.json
    bypass,    \* the host route to the proxy server is in the table
    capture,   \* the session whose utun the captures go through
    resolver,  \* what the network service resolves through
    fd,        \* sessions whose utun descriptor the helper holds
    pc, op,    \* where each thread is, and in which handler
    arg,       \* the session id of the request it handles
    rec,       \* the snapshot it works on
    clean,     \* no step of its rollback has failed
    issued,    \* session ids clients have used
    asked, faults,   \* counters of the bounds
    overlapped,  \* history: an unlocked handler ran beside another handler
    dropped      \* history: TunUp overwrote the file of another session

net    == <<bypass, capture, resolver, fd>>
local  == <<pc, op, arg, rec, clean>>
bounds == <<issued, asked, faults>>
vars   == <<alive, lock, session, file, net, local, bounds, overlapped, dropped>>

------------------------------------------------------------------------------
(* Helpers *)

Goto(t, p) == pc' = [pc EXCEPT ![t] = p]

Active(t) == pc[t] \notin {"idle", "wait", "gone"}

(* Entering a handler's body; the overlap counts from here.                *)
Enter(t, p) ==
    /\ Goto(t, p)
    /\ overlapped' = (overlapped \/ \E o \in Thread \ {t} : Active(o))

Fault == faults < MaxFault /\ faults' = faults + 1

Close(ids) ==
    /\ fd' = fd \ ids
    /\ capture' = IF capture \in ids THEN None ELSE capture

Rollback(t, s) ==
    /\ rec' = [rec EXCEPT ![t] = s] /\ clean' = [clean EXCEPT ![t] = TRUE]

------------------------------------------------------------------------------
Init ==
    /\ alive = "running" /\ lock = None /\ session = None /\ file = None
    /\ bypass = FALSE /\ capture = None /\ resolver = "user" /\ fd = {}
    /\ pc = [t \in Thread |-> "idle"] /\ op = [t \in Thread |-> "none"]
    /\ arg = [t \in Thread |-> None] /\ rec = [t \in Thread |-> None]
    /\ clean = [t \in Thread |-> TRUE]
    /\ issued = {} /\ asked = 0 /\ faults = 0
    /\ overlapped = FALSE /\ dropped = FALSE

(* dispatch: a request arrives on an idle connection.                      *)
Receive(t, what, id) ==
    /\ alive = "running" /\ pc[t] = "idle" /\ asked < MaxAsk
    /\ \/ what \in {"prepare", "up"} /\ id \in Session \ issued
       \/ what \in {"commit", "down"} /\ id \in issued
       \/ what \in {"restore", "uninstall", "shutdown"} /\ id = None
    /\ asked' = asked + 1 /\ issued' = issued \cup ({id} \ {None})
    /\ op' = [op EXCEPT ![t] = what] /\ arg' = [arg EXCEPT ![t] = id]
    /\ Goto(t, "wait")
    /\ UNCHANGED <<alive, lock, session, file, net, rec, clean, faults, overlapped, dropped>>

Answer(t) ==
    /\ pc' = [pc EXCEPT ![t] = "idle"] /\ op' = [op EXCEPT ![t] = "none"]
    /\ arg' = [arg EXCEPT ![t] = None] /\ rec' = [rec EXCEPT ![t] = None]
    /\ clean' = [clean EXCEPT ![t] = TRUE]

(* The request does not apply: a session is there already, or not the one  *)
(* the request names.                                                      *)
Names(t) == session # None /\ session.id = arg[t]

Applies(t) ==
    CASE op[t] \in {"prepare", "up"} -> session = None
      [] op[t] = "commit" -> Names(t) /\ session.captures = "pending"
      [] op[t] = "down"   -> Names(t)
      [] OTHER -> TRUE

Refuse(t) ==
    /\ pc[t] = "wait" /\ lock = None /\ ~Applies(t) /\ Answer(t)
    /\ UNCHANGED <<alive, lock, session, file, net, bounds, overlapped, dropped>>

------------------------------------------------------------------------------
(* tun_up: the check under the lock, bring_up without it.                  *)
UpCheck(t) ==
    /\ pc[t] = "wait" /\ lock = None /\ op[t] \in {"prepare", "up"} /\ Applies(t)
    /\ Enter(t, "create")
    /\ UNCHANGED <<alive, lock, session, file, net, op, arg, rec, clean, bounds, dropped>>

UpCreate(t) ==
    /\ pc[t] = "create" /\ Goto(t, "bypass")
    /\ fd' = fd \cup {arg[t]}
    /\ rec' = [rec EXCEPT ![t] = Fresh(arg[t])] /\ file' = Fresh(arg[t])
    /\ dropped' = (dropped \/ file # None)
    /\ UNCHANGED <<alive, lock, session, bypass, capture, resolver, op, arg, clean,
                   bounds, overlapped>>

(* One step of bring_up or of the commit: change the system, then save.    *)
Save(t, s, p) ==
    /\ rec' = [rec EXCEPT ![t] = s] /\ file' = s /\ Goto(t, p)
    /\ UNCHANGED <<alive, lock, session, fd, op, arg, clean, bounds, overlapped, dropped>>

UpBypass(t) ==
    /\ pc[t] = "bypass" /\ bypass' = TRUE
    /\ Save(t, [rec[t] EXCEPT !.bypass = IF bypass THEN "over" ELSE "fresh"],
            IF op[t] = "prepare" THEN "defer" ELSE "captures")
    /\ UNCHANGED <<capture, resolver>>

(* Mutant: the pending routes are recorded in memory only. *)
UpDeferUnsaved(t) ==
    /\ pc[t] = "defer" /\ Goto(t, "publish")
    /\ rec' = [rec EXCEPT ![t].captures = "pending"]
    /\ UNCHANGED <<alive, lock, session, file, net, op, arg, clean, bounds, overlapped, dropped>>

UpDefer(t) ==
    /\ pc[t] = "defer"
    /\ Save(t, [rec[t] EXCEPT !.captures = "pending"], "publish")
    /\ UNCHANGED <<bypass, capture, resolver>>

(* The last save of a one-phase bring_up; when it fails, nothing is rolled *)
(* back and the device is dropped.                                         *)
UpSaved(t) ==
    /\ pc[t] = "markup" /\ op[t] = "up" /\ Save(t, rec[t], "publish")
    /\ UNCHANGED <<bypass, capture, resolver>>

UpSaveFails(t) ==
    /\ pc[t] = "markup" /\ op[t] = "up" /\ Fault /\ Close({rec[t].id}) /\ Answer(t)
    /\ UNCHANGED <<alive, lock, session, file, bypass, resolver, issued, asked,
                   overlapped, dropped>>

(* State.session is set under the lock, whatever is there by now.          *)
UpPublish(t) ==
    /\ pc[t] = "publish" /\ lock = None
    /\ session' = rec[t] /\ Answer(t)
    /\ UNCHANGED <<alive, lock, file, net, bounds, overlapped, dropped>>

------------------------------------------------------------------------------
(* commit_routes holds the lock from its check to its answer.              *)
(* Mutant: the lock is released once the session has been read. *)
CommitCheckUnlocked(t) ==
    /\ pc[t] = "wait" /\ lock = None /\ op[t] = "commit" /\ Applies(t)
    /\ rec' = [rec EXCEPT ![t] = session]
    /\ Enter(t, "captures")
    /\ UNCHANGED <<alive, lock, session, file, net, op, arg, clean, bounds, dropped>>

CommitCheck(t) ==
    /\ pc[t] = "wait" /\ lock = None /\ op[t] = "commit" /\ Applies(t)
    /\ lock' = t /\ rec' = [rec EXCEPT ![t] = session]
    /\ Enter(t, "captures")
    /\ UNCHANGED <<alive, session, file, net, op, arg, clean, bounds, dropped>>

Captures(t) ==
    /\ pc[t] = "captures" /\ capture' = rec[t].id
    /\ Save(t, [rec[t] EXCEPT !.captures = "installed", !.taken = capture], "backup")
    /\ UNCHANGED <<bypass, resolver>>

(* Mutant: the sentinel is backed up as if it were the user's. *)
BackupRaw(t) ==
    /\ pc[t] = "backup"
    /\ Save(t, [rec[t] EXCEPT !.dns = resolver], "setdns")
    /\ UNCHANGED <<bypass, capture, resolver>>

Backup(t) ==
    /\ pc[t] = "backup"
    /\ Save(t, [rec[t] EXCEPT !.dns = IF resolver = "user" THEN "user" ELSE "dhcp"], "setdns")
    /\ UNCHANGED <<bypass, capture, resolver>>

SetDns(t) ==
    /\ pc[t] = "setdns" /\ resolver' = "sentinel"
    /\ Goto(t, "markup")
    /\ UNCHANGED <<alive, lock, session, file, bypass, capture, fd, op, arg, rec, clean,
                   bounds, overlapped, dropped>>

CommitDone(t) ==
    /\ pc[t] = "markup" /\ op[t] = "commit"
    /\ file' = rec[t] /\ session' = rec[t] /\ lock' = None /\ Answer(t)
    /\ UNCHANGED <<alive, net, bounds, overlapped, dropped>>

(* A step reports an error: the session is given up and rolled back, by    *)
(* bring_up without the lock, by commit_routes with it.                    *)
StepFails(t) ==
    /\ pc[t] \in {"bypass", "defer", "captures", "backup", "setdns", "markup"}
    /\ pc[t] = "markup" => op[t] = "commit"
    /\ Fault
    /\ Rollback(t, rec[t]) /\ Goto(t, "rbdns")
    /\ session' = IF op[t] = "commit" THEN None ELSE session
    /\ UNCHANGED <<alive, lock, file, net, op, arg, issued, asked, overlapped, dropped>>

------------------------------------------------------------------------------
(* tun_down and the first half of Restore and Uninstall hold the lock.     *)
(* Mutant: the session is rolled back where it is, not taken out. *)
TearDownInPlace(t) ==
    /\ pc[t] = "wait" /\ lock = None /\ Applies(t)
    /\ \/ op[t] = "down"
       \/ op[t] \in {"restore", "uninstall"} /\ session # None
    /\ lock' = t
    /\ Rollback(t, session) /\ Enter(t, "rbdns")
    /\ UNCHANGED <<alive, session, file, net, op, arg, bounds, dropped>>

TearDown(t) ==
    /\ pc[t] = "wait" /\ lock = None /\ Applies(t)
    /\ \/ op[t] = "down"
       \/ op[t] \in {"restore", "uninstall"} /\ session # None
    /\ lock' = t /\ session' = None
    /\ Rollback(t, session) /\ Enter(t, "rbdns")
    /\ UNCHANGED <<alive, file, net, op, arg, bounds, dropped>>

NothingLive(t) ==
    /\ pc[t] = "wait" /\ lock = None /\ op[t] \in {"restore", "uninstall"} /\ session = None
    /\ Enter(t, "force")
    /\ UNCHANGED <<alive, lock, session, file, net, op, arg, rec, clean, bounds, dropped>>

(* force_cleanup reads the file without the lock.                          *)
ForceCleanup(t) ==
    /\ pc[t] = "force" /\ Rollback(t, file)
    /\ Goto(t, IF file = None THEN "end" ELSE "rbdns")
    /\ UNCHANGED <<alive, lock, session, file, net, op, arg, bounds, overlapped, dropped>>

(* SIGTERM: graceful_shutdown reads the file and takes no lock at all.     *)
Sigterm ==
    /\ alive = "running" /\ pc[Signal] = "idle"
    /\ asked < MaxAsk /\ asked' = asked + 1
    /\ op' = [op EXCEPT ![Signal] = "term"] /\ Enter(Signal, "force")
    /\ UNCHANGED <<alive, lock, session, file, net, arg, rec, clean, issued, faults, dropped>>

------------------------------------------------------------------------------
(* rollback, step by step; its caller is op[t].                            *)
RbStep(t, from, to) ==
    /\ pc[t] = from /\ Goto(t, to)
    /\ UNCHANGED <<alive, lock, session, fd, op, arg, rec, issued, asked, overlapped, dropped>>

RbFails(t) == Fault /\ clean' = [clean EXCEPT ![t] = FALSE] /\ UNCHANGED <<bypass, capture, resolver>>

RbDns(t) ==
    /\ RbStep(t, "rbdns", "rbroutes") /\ UNCHANGED file
    /\ \/ /\ resolver' = IF rec[t].dns = "none" THEN resolver ELSE rec[t].dns
          /\ UNCHANGED <<bypass, capture, clean, faults>>
       \/ RbFails(t)

(* Delete, then restore what was replaced, if that tunnel still exists.    *)
RbRoutes(t) ==
    /\ RbStep(t, "rbroutes", "rbverify") /\ UNCHANGED <<file, resolver>>
    /\ \/ /\ bypass' = IF rec[t].bypass = "none" THEN bypass ELSE rec[t].bypass = "over"
          /\ capture' = IF rec[t].captures = "installed" /\ rec[t].taken \in fd THEN rec[t].taken
                        ELSE IF capture = rec[t].id THEN None ELSE capture
          /\ clean' = [clean EXCEPT ![t] = @ /\ rec[t].taken \in fd \cup {None}]
          /\ UNCHANGED faults
       \/ RbFails(t)

RbVerify(t) ==
    /\ RbStep(t, "rbverify", "rbclear") /\ UNCHANGED <<file, bypass, capture, faults>>
    /\ resolver' = IF clean[t] /\ rec[t].dns # "none" THEN rec[t].dns ELSE resolver
    /\ clean' = [clean EXCEPT ![t] = @ /\ capture # rec[t].id]

(* SessionSnapshot::clear removes the file, whichever session is in it.    *)
RbClear(t) ==
    /\ RbStep(t, "rbclear", "end")
    /\ file' = IF clean[t] THEN None ELSE file
    /\ UNCHANGED <<bypass, capture, resolver, clean, faults>>

------------------------------------------------------------------------------
(* What each caller does when rollback returns *)
EndUp(t) ==
    /\ pc[t] = "end" /\ op[t] \in {"prepare", "up"}
    /\ Close({rec[t].id}) /\ Answer(t)
    /\ UNCHANGED <<alive, lock, session, file, bypass, resolver, bounds, overlapped, dropped>>

(* Mutant: the guard is kept when the commit fails. *)
EndCommitLocked(t) ==
    /\ pc[t] = "end" /\ op[t] = "commit" /\ Answer(t)
    /\ UNCHANGED <<alive, lock, session, file, net, bounds, overlapped, dropped>>

EndCommit(t) ==
    /\ pc[t] = "end" /\ op[t] = "commit" /\ lock' = None /\ Answer(t)
    /\ UNCHANGED <<alive, session, file, net, bounds, overlapped, dropped>>

EndDown(t) ==
    /\ pc[t] = "end" /\ op[t] = "down"
    /\ Close({rec[t].id}) /\ lock' = None /\ Answer(t)
    /\ UNCHANGED <<alive, session, file, bypass, resolver, bounds, overlapped, dropped>>

(* Restore closes the tunnel, releases the lock and goes on to the file;   *)
(* Uninstall does the same but leaves the descriptor to its exit.          *)
EndTearDown(t) ==
    /\ pc[t] = "end" /\ op[t] \in {"restore", "uninstall"} /\ lock = t
    /\ Close(IF op[t] = "restore" THEN {rec[t].id} ELSE {}) /\ lock' = None
    /\ Enter(t, "force")
    /\ UNCHANGED <<alive, session, file, bypass, resolver, op, arg, rec, clean, bounds, dropped>>

EndRestore(t) ==
    /\ pc[t] = "end" /\ op[t] = "restore" /\ lock # t /\ Answer(t)
    /\ UNCHANGED <<alive, lock, session, file, net, bounds, overlapped, dropped>>

(* The process is gone with all its threads and descriptors.               *)
Exit(state) ==
    /\ alive' = state /\ lock' = None /\ session' = None /\ Close(Session)
    /\ pc' = [t \in Thread |-> "gone"] /\ op' = [t \in Thread |-> "none"]
    /\ arg' = [t \in Thread |-> None] /\ rec' = [t \in Thread |-> None]
    /\ clean' = [t \in Thread |-> TRUE]
    /\ UNCHANGED <<file, bypass, resolver, bounds, overlapped, dropped>>

EndTerm == pc[Signal] = "end" /\ Exit("down")

EndUninstall(t) ==
    pc[t] = "end" /\ op[t] = "uninstall" /\ lock # t /\ Exit("removed")

Shutdown(t) == pc[t] = "wait" /\ op[t] = "shutdown" /\ Exit("down")

(* launchd restarts the helper; recover_from_crash runs alone.  The tunnel *)
(* is gone with the descriptors, so what the file records is rolled back,  *)
(* and a sentinel without a record becomes DHCP.                           *)
Boot ==
    /\ alive = "down" /\ alive' = "running"
    /\ pc' = [t \in Thread |-> "idle"]
    /\ bypass' = IF file = None \/ file.bypass = "none" THEN bypass ELSE file.bypass = "over"
    /\ LET back == IF file # None /\ file.dns # "none" THEN file.dns ELSE resolver
       IN  resolver' = IF back = "sentinel" THEN "dhcp" ELSE back
    /\ file' = IF file # None /\ file.taken # None THEN file ELSE None
    /\ UNCHANGED <<lock, session, capture, fd, op, arg, rec, clean, bounds, overlapped, dropped>>

------------------------------------------------------------------------------
BringUp(t) ==
    \/ UpCheck(t) \/ UpCreate(t) \/ UpBypass(t) \/ UpDefer(t)
    \/ UpSaved(t) \/ UpSaveFails(t) \/ UpPublish(t)

Commit(t) ==
    CommitCheck(t) \/ Captures(t) \/ Backup(t) \/ SetDns(t) \/ CommitDone(t) \/ StepFails(t)

Undo(t) == ForceCleanup(t) \/ RbDns(t) \/ RbRoutes(t) \/ RbVerify(t) \/ RbClear(t)

Finish(t) ==
    EndUp(t) \/ EndCommit(t) \/ EndDown(t) \/ EndTearDown(t) \/ EndRestore(t) \/ EndUninstall(t)

Handle(t) ==
    \/ Refuse(t) \/ BringUp(t) \/ Commit(t) \/ TearDown(t) \/ NothingLive(t)
    \/ Undo(t) \/ Finish(t) \/ Shutdown(t)

Arrive ==
    \E t \in Conn, id \in Session \cup {None},
       what \in {"prepare", "up", "commit", "down", "restore", "uninstall", "shutdown"} :
        Receive(t, what, id)

Next ==
    \/ Arrive \/ Sigterm \/ EndTerm \/ Boot \/ Undo(Signal)
    \/ \E t \in Conn : Handle(t)

Spec == Init /\ [][Next]_vars

(* Each thread runs on, and launchd restarts the helper.                   *)
FairSpec ==
    /\ Spec /\ WF_vars(Boot) /\ WF_vars(EndTerm) /\ WF_vars(Undo(Signal))
    /\ \A t \in Conn : WF_vars(Handle(t))

------------------------------------------------------------------------------
(* Correctness *)

(* Every variable stays in its range.                                      *)
TypeOK ==
    /\ alive \in {"running", "down", "removed"}
    /\ lock \in Conn \cup {None}
    /\ session \in Rec \cup {None} /\ file \in Rec \cup {None}
    /\ bypass \in BOOLEAN /\ capture \in Session \cup {None}
    /\ resolver \in {"user", "dhcp", "sentinel"} /\ fd \in SUBSET Session
    /\ pc \in [Thread -> {"idle", "wait", "gone", "create", "bypass", "defer",
                          "captures", "backup", "setdns", "markup", "publish", "force",
                          "rbdns", "rbroutes", "rbverify", "rbclear", "end"}]
    /\ op \in [Thread -> {"none", "prepare", "up", "commit", "down", "restore",
                          "uninstall", "shutdown", "term"}]
    /\ arg \in [Thread -> Session \cup {None}]
    /\ rec \in [Thread -> Rec \cup {None}]
    /\ clean \in [Thread -> BOOLEAN]
    /\ issued \in SUBSET Session /\ asked \in Nat /\ faults \in Nat
    /\ overlapped \in BOOLEAN /\ dropped \in BOOLEAN

(* commit_routes and tun_down work on the routes and resolvers only while  *)
(* they hold the state lock, so they never interleave with each other, nor *)
(* with the first half of Restore.                                         *)
LockedAlone == \A t \in Conn : Active(t) /\ op[t] \in {"commit", "down"} => lock = t

(* The session in memory always has its utun descriptor: however requests  *)
(* interleave, take_tun_fd never finds one that has been closed.           *)
SessionHasTunnel == session # None => session.id \in fd

(* As long as handlers do not overlap, the file says all that the session  *)
(* in memory says whenever no request is being served, so that a kill or a *)
(* SIGTERM then undoes the whole session.                                  *)
FileIsSession ==
    (/\ session # None /\ lock = None
     /\ ~overlapped /\ ~Active(Signal)) => file = session

(* Every request is answered, or the helper exits; in particular nobody    *)
(* waits for ever for the state lock.                                      *)
Answered == \A t \in Conn : []<>(pc[t] \in {"idle", "gone"})

(* Claims of the code that overlapping handlers break *)

(* tun_up refuses when there is a session, so that there are never two     *)
(* whose routes trample each other (server.rs, tun_up).                    *)
NoSecondSession == [][session # None /\ session' # None => session'.id = session.id]_vars

(* graceful_shutdown rolls the network back or keeps the snapshot for the  *)
(* next start (main.rs): at the exit on SIGTERM a service on the sentinel  *)
(* has its resolvers on file.                                              *)
TermKeepsRecord ==
    [][EndTerm /\ resolver = "sentinel" => file # None /\ file.dns = "user"]_vars

==============================================================================
