------------------------------ MODULE ConnectFlow ------------------------------
(***************************************************************************)
(* The desktop app's side of a connection: one command at a time holds the *)
(* supervisor and the helper client and talks to the helper over one       *)
(* stream of requests and answers.  A command gives up on an answer that   *)
(* is late; the helper then still serves the request, from the connection  *)
(* the app has dropped or, after TakeTunFd, from the one it goes on using. *)
(* The helper is the contract of HelperServer: one request is one step.    *)
(* A session id, a core process and an attempt to start share a number.    *)
(***************************************************************************)
EXTENDS Naturals, Sequences

CONSTANTS
    MaxAttempt,  \* bound: attempts to start, over the whole behaviour
    MaxTry,      \* candidate nodes of one start
    Max,         \* bounds: how often each kind of Bounded event may happen
    MaxTrouble,  \* bound: how many of them one behaviour has
    MaxUpdates   \* bound: updates of the shown state under way at a time

Bounded == {"step", "undo", "late", "die", "exit", "repair"}

ASSUME LimitsAssumption == MaxAttempt \in Nat /\ MaxTry \in Nat \ {0}

ASSUME MaxAssumption == Max \in [Bounded -> Nat] /\ MaxTrouble \in Nat /\ MaxUpdates \in Nat

None == 0

Attempt == 1 .. MaxAttempt
Id      == Attempt \cup {None}

Request  == [req : {"up", "fd", "commit", "down", "restore"}, id : Id]
Response == [resp : {"ok", "conflict", "error", "fd", "fdmsg"}, id : Id]

VARIABLES
    app,       \* the app's process runs
    pc,        \* where the command that holds the locks is
    mode,      \* what the running start is for: "tun" or "proxy"
    tries,     \* candidate nodes the running start has left
    n,         \* attempts so far; the number of the running one
    proc, sid, tunFd,  \* Supervisor.process, .session_id, .tun_fd
    fds,       \* utun descriptors the app's process holds
    shown,     \* AppState.runtime
    claim,     \* what the last command told the user
    updates,   \* what finished commands and tasks are still to write there
    overlap,   \* history: two of them were under way at once
    inbox, unread,  \* the connection: requests sent, answers not read
    orphans,   \* requests left on connections the app has dropped
    stray,     \* history: a Restore was among them
    session,   \* the helper's State.session
    file,      \* the session in helper-session.json
    saved,     \* the resolvers that file has on record
    hfd,       \* sessions whose descriptor the helper holds
    routes,    \* the session whose utun the captures go through
    resolver,  \* what the network services resolve through
    cores,     \* core processes that run
    coreTun,   \* the utun each core was given
    watch,     \* cores whose output the app is still reading
    used       \* how many Bounded events have happened

super  == <<proc, sid, tunFd, fds>>
late   == <<orphans, stray>>
conn   == <<inbox, unread, late>>
helper == <<session, file, saved, hfd>>
net    == <<routes, resolver>>
core   == <<cores, coreTun>>
told   == <<shown, claim, updates, overlap>>
work   == <<mode, tries, n>>
vars   == <<app, pc, work, super, told, conn, helper, net, core, watch, used>>

------------------------------------------------------------------------------
(* Helpers *)

Trouble == used["step"] + used["undo"] + used["late"] + used["die"] + used["exit"] + used["repair"]

Spend(b) ==
    used[b] < Max[b] /\ Trouble < MaxTrouble /\ used' = [used EXCEPT ![b] = @ + 1]

Stopped == [running |-> FALSE, pid |-> None, sid |-> None]

(* A utun lives, and its routes with it, while anybody holds it.           *)
Held(helperFds, appFds, running) ==
    helperFds \cup appFds \cup {coreTun[p] : p \in running}

Sweep(held) == routes' = IF routes \in held THEN routes ELSE None

(* The shown state has a lock of its own: a command writes it after it has *)
(* given the supervisor and the helper back, the task that follows a core  *)
(* after it has read it.                                                   *)
Update(what, id, s) == [what |-> what, pid |-> id, sid |-> s]

Owe(u) ==
    /\ updates' = Append(updates, u) /\ overlap' = (overlap \/ updates # <<>>)
    /\ UNCHANGED <<shown, claim>>

Req(what, id) == [req |-> what, id |-> id]

Send(what, id) == inbox' = Append(inbox, Req(what, id)) /\ UNCHANGED <<unread, late>>

(* The stream is closed; what was sent may still be served.                *)
Abandon(queue) ==
    /\ orphans' = orphans \cup ({queue} \ {<<>>})
    /\ stray' = (stray \/ \E i \in DOMAIN queue : queue[i].req = "restore")

Drop == inbox' = <<>> /\ unread' = <<>> /\ Abandon(inbox)

(* call: drop the stream, reconnect, send on the new one.                  *)
DropAndSend(what, id) ==
    inbox' = <<Req(what, id)>> /\ unread' = <<>> /\ Abandon(inbox)

Answer == Head(unread)

Take == unread' = Tail(unread) /\ UNCHANGED <<inbox, late>>

(* call_once: whatever is not an error is success; a descriptor message    *)
(* where an answer should start is a framing error.                        *)
Good == Answer.resp \in {"ok", "fd"}

CloseFd ==
    /\ tunFd' = None /\ fds' = fds \ {tunFd}
    /\ Sweep(Held(hfd, fds \ {tunFd}, cores))

------------------------------------------------------------------------------
Init ==
    /\ app = "on" /\ pc = "idle" /\ mode = "tun" /\ tries = 0 /\ n = 0
    /\ proc = None /\ sid = None /\ tunFd = None /\ fds = {}
    /\ shown = Stopped /\ claim = "none" /\ updates = <<>> /\ overlap = FALSE
    /\ inbox = <<>> /\ unread = <<>> /\ orphans = {} /\ stray = FALSE
    /\ session = None /\ file = None /\ saved = "none" /\ hfd = {}
    /\ routes = None /\ resolver = "user"
    /\ cores = {} /\ coreTun = [p \in Attempt |-> None] /\ watch = {}
    /\ used = [b \in Bounded |-> 0]

------------------------------------------------------------------------------
(* The helper serves one request *)

ServeUp(id, resp) ==
    /\ \/ session # None /\ resp = "conflict" /\ UNCHANGED <<session, file, saved, hfd, used>>
       \/ /\ session = None /\ resp = "error" /\ Spend("step")
          /\ \/ UNCHANGED <<file, saved>>
             \/ file' = None /\ saved' = "none"
          /\ UNCHANGED <<session, hfd>>
       \/ /\ session = None /\ resp = "ok"
          /\ session' = id /\ file' = id /\ saved' = "none" /\ hfd' = hfd \cup {id}
          /\ UNCHANGED used
    /\ UNCHANGED net

ServeFd(id, resp) ==
    /\ resp = IF session = id THEN "fd" ELSE "error"
    /\ UNCHANGED <<helper, net, used>>

(* A commit that fails is rolled back, and the session is gone; its utun   *)
(* descriptor is not closed.                                               *)
ServeCommit(id, resp) ==
    \/ (session # id \/ saved # "none") /\ resp = "error" /\ UNCHANGED <<helper, net, used>>
    \/ /\ session = id /\ saved = "none" /\ resp = "ok"
       /\ saved' = (IF resolver = "user" THEN "user" ELSE "dhcp")
       /\ routes' = id /\ resolver' = "sentinel"
       /\ UNCHANGED <<session, file, hfd, used>>
    \/ /\ session = id /\ saved = "none" /\ resp = "error" /\ Spend("step")
       /\ session' = None /\ file' = None
       /\ UNCHANGED <<saved, hfd, net>>

(* What is recorded is undone, or some command fails and the record stays. *)
(* The helper closes its descriptor either way.                            *)
Undo(id, resp) ==
    LET before == IF saved = "none" THEN resolver ELSE saved
    IN  /\ session' = None /\ hfd' = hfd \ {id}
        /\ \/ /\ resp = "ok" /\ file' = None /\ saved' = "none"
              /\ resolver' = before
              /\ routes' = IF routes \in {file, id} THEN None ELSE routes
              /\ UNCHANGED used
           \/ /\ resp = "error" /\ file # None /\ Spend("undo")
              /\ resolver' \in {resolver, before}
              /\ Sweep(Held(hfd \ {id}, fds, cores))
              /\ UNCHANGED <<file, saved>>

(* Mutant: the session torn down is not compared with the one asked for. *)
ServeDownAny(id, resp) ==
    \/ session = None /\ resp = "error" /\ UNCHANGED <<helper, net, used>>
    \/ session # None /\ Undo(session, resp)

ServeDown(id, resp) ==
    \/ session # id /\ resp = "error" /\ UNCHANGED <<helper, net, used>>
    \/ session = id /\ Undo(id, resp)

ServeRestore(id, resp) == Undo(session, resp)

Serve(r, resp) ==
    \/ r.req = "up" /\ ServeUp(r.id, resp)
    \/ r.req = "fd" /\ ServeFd(r.id, resp)
    \/ r.req = "commit" /\ ServeCommit(r.id, resp)
    \/ r.req = "down" /\ ServeDown(r.id, resp)
    \/ r.req = "restore" /\ ServeRestore(r.id, resp)

(* An answer is a frame; the descriptor follows its frame as a message.    *)
Frames(resp, id) ==
    IF resp = "fd" THEN << [resp |-> "fd", id |-> id], [resp |-> "fdmsg", id |-> id] >>
    ELSE << [resp |-> resp, id |-> id] >>

HelperServes ==
    /\ inbox # <<>>
    /\ \E resp \in {"ok", "conflict", "error", "fd"} :
         /\ Serve(Head(inbox), resp)
         /\ unread' = unread \o Frames(resp, Head(inbox).id)
    /\ inbox' = Tail(inbox)
    /\ UNCHANGED <<app, pc, work, super, told, late, core, watch>>

HelperServesLate ==
    /\ \E q \in orphans, resp \in {"ok", "conflict", "error", "fd"} :
         /\ Serve(Head(q), resp)
         /\ orphans' = (orphans \ {q}) \cup (IF Len(q) = 1 THEN {} ELSE {Tail(q)})
    /\ UNCHANGED <<app, pc, work, super, told, inbox, unread, stray, core, watch>>

------------------------------------------------------------------------------
(* start_core: the locks are taken, a core that has gone is reaped, and    *)
(* the ranked candidates are tried in turn.                                *)
Begin(m) ==
    /\ app = "on" /\ pc = "idle" /\ Len(updates) < MaxUpdates
    /\ IF proc \in cores
       THEN claim' = "connected" /\ UNCHANGED <<pc, work, proc>>
       ELSE /\ n + MaxTry <= MaxAttempt
            /\ proc' = None /\ mode' = m /\ pc' = "attempt"
            /\ tries' \in 1 .. MaxTry
            /\ UNCHANGED <<n, claim>>
    /\ UNCHANGED <<app, sid, tunFd, fds, shown, updates, overlap, conn, helper, net, core, watch, used>>

(* Supervisor::start up to its first request, under a fresh session id.    *)
StartAttempt ==
    /\ pc = "attempt" /\ n' = n + 1
    /\ \/ mode = "tun" /\ Send("up", n + 1) /\ pc' = "up"
       \/ mode = "proxy" /\ pc' = "spawn" /\ UNCHANGED conn
    /\ UNCHANGED <<app, mode, tries, super, told, helper, net, core, watch, used>>

(* Mutant: the loop runs past the last candidate. *)
NextOrFailPast ==
    /\ \/ tries >= 1 /\ pc' = "attempt" /\ tries' = tries - 1 /\ UNCHANGED told
       \/ pc' = "idle" /\ tries' = 0 /\ Owe(Update("failed", None, None))
    /\ UNCHANGED <<app, mode, n>>

(* An attempt has failed.  The next candidate follows, unless there is     *)
(* none or the failure is not the node's; then the start has failed.       *)
NextOrFail ==
    /\ \/ tries > 1 /\ pc' = "attempt" /\ tries' = tries - 1 /\ UNCHANGED told
       \/ pc' = "idle" /\ tries' = 0 /\ Owe(Update("failed", None, None))
    /\ UNCHANGED <<app, mode, n>>

(* No default route, a node that does not resolve, a bad configuration.    *)
RefusedEarly ==
    /\ pc = "attempt" /\ Spend("step") /\ NextOrFail
    /\ UNCHANGED <<super, conn, helper, net, core, watch>>

(* tun_up_with_self_heal: on a session conflict, Restore once and ask once *)
(* more.  tun_up drops the stream on every error.                          *)
UpAnswered ==
    /\ pc \in {"up", "up2"} /\ unread # <<>>
    /\ \/ /\ Good /\ pc' = "fd" /\ sid' = n
          /\ inbox' = Append(inbox, Req("fd", n)) /\ unread' = Tail(unread)
          /\ UNCHANGED <<late, app, work, told>>
       \/ /\ Answer.resp = "conflict" /\ pc = "up" /\ pc' = "heal"
          /\ DropAndSend("restore", None) /\ UNCHANGED <<app, work, sid, told>>
       \/ /\ ~Good /\ (pc = "up" => Answer.resp # "conflict")
          /\ Drop /\ NextOrFail /\ UNCHANGED sid
    /\ UNCHANGED <<proc, tunFd, fds, helper, net, core, watch, used>>

Healed ==
    /\ pc = "heal" /\ unread # <<>>
    /\ \/ /\ Good /\ pc' = "up2"
          /\ inbox' = Append(inbox, Req("up", n)) /\ unread' = Tail(unread)
          /\ UNCHANGED <<late, app, work, told>>
       \/ ~Good /\ Drop /\ NextOrFail
    /\ UNCHANGED <<super, helper, net, core, watch, used>>

(* Mutant: a descriptor left by an earlier attempt is kept. *)
FdAnsweredKept ==
    /\ pc = "fd" /\ unread # <<>>
    /\ \/ /\ Answer.resp = "fd" /\ tunFd' = (IF tunFd = None THEN Answer.id ELSE tunFd)
          /\ fds' = fds \cup {Answer.id}
          /\ unread' = Tail(Tail(unread)) /\ pc' = "spawn"
          /\ UNCHANGED <<inbox, late, app, work, told>>
       \/ Answer.resp # "fd" /\ Take /\ NextOrFail /\ UNCHANGED <<tunFd, fds>>
    /\ UNCHANGED <<proc, sid, helper, net, core, watch, used>>

(* take_tun_fd: a frame that announces the descriptor, then the message    *)
(* that carries it.  Any other answer is an error, which neither drops the *)
(* stream nor undoes the session.                                          *)
FdAnswered ==
    /\ pc = "fd" /\ unread # <<>>
    /\ \/ /\ Answer.resp = "fd" /\ tunFd' = Answer.id /\ fds' = fds \cup {Answer.id}
          /\ unread' = Tail(Tail(unread)) /\ pc' = "spawn"
          /\ UNCHANGED <<inbox, late, app, work, told>>
       \/ Answer.resp # "fd" /\ Take /\ NextOrFail /\ UNCHANGED <<tunFd, fds>>
    /\ UNCHANGED <<proc, sid, helper, net, core, watch, used>>

SpawnCore ==
    /\ pc = "spawn" /\ pc' = "ready"
    /\ cores' = cores \cup {n} /\ coreTun' = [coreTun EXCEPT ![n] = tunFd]
    /\ UNCHANGED <<app, work, super, told, conn, helper, net, watch, used>>

(* spawn_core fails: the session and its descriptor stay as they are.      *)
SpawnFails ==
    /\ pc = "spawn" /\ Spend("step") /\ NextOrFail
    /\ UNCHANGED <<super, conn, helper, net, core, watch>>

(* wait_ready asks whether somebody listens on the port, then the probes   *)
(* of verify_paths_then_commit go through whoever does.                    *)
Ready ==
    /\ pc = "ready" /\ cores # {}
    /\ pc' = IF mode = "tun" THEN "gate" ELSE "success"
    /\ UNCHANGED <<app, work, super, told, conn, helper, net, core, watch, used>>

PassGate ==
    /\ pc = "gate" /\ cores # {} /\ pc' = "commit" /\ Send("commit", sid)
    /\ UNCHANGED <<app, work, super, told, helper, net, core, watch, used>>

(* Not ready in time, a probe or the check for a routing loop fails: the   *)
(* core is shut down first, then the tunnel is rolled back.                *)
(* Mutant: the core is shut down, but the tunnel is left. *)
GiveUpDirty ==
    /\ pc \in {"ready", "gate", "recheck"}
    /\ IF n \in cores THEN Spend("step") ELSE UNCHANGED used
    /\ cores' = cores \ {n} /\ Sweep(Held(hfd, fds, cores \ {n}))
    /\ sid' = None /\ NextOrFail
    /\ UNCHANGED <<proc, tunFd, fds, conn, helper, resolver, coreTun, watch>>

GiveUp ==
    /\ pc \in {"ready", "gate", "recheck"}
    /\ IF n \in cores THEN Spend("step") ELSE UNCHANGED used
    /\ cores' = cores \ {n} /\ Sweep(Held(hfd, fds, cores \ {n}))
    /\ pc' = "undo"
    /\ UNCHANGED <<app, work, super, told, conn, helper, resolver, coreTun, watch>>

CommitAnswered ==
    /\ pc = "commit" /\ unread # <<>>
    /\ \/ Good /\ Take /\ pc' = "recheck" /\ UNCHANGED <<cores, routes>>
       \/ /\ ~Good /\ Drop /\ pc' = "undo"
          /\ cores' = cores \ {n} /\ Sweep(Held(hfd, fds, cores \ {n}))
    /\ UNCHANGED <<app, work, super, told, helper, resolver, coreTun, watch, used>>

StillReachable ==
    /\ pc = "recheck" /\ pc' = "success"
    /\ UNCHANGED <<app, work, super, told, conn, helper, net, core, watch, used>>

Started ==
    /\ pc = "success" /\ pc' = "idle" /\ tries' = 0 /\ proc' = n
    /\ Owe(Update("connected", n, sid))
    /\ UNCHANGED <<app, mode, n, sid, tunFd, fds, conn, helper, net, core, watch, used>>

------------------------------------------------------------------------------
(* rollback_tun_inner: TunDown with the session id taken out; on success   *)
(* the descriptor is closed, on failure it is not.                         *)
RollbackAsks ==
    /\ pc \in {"undo", "stop"} /\ sid # None /\ sid' = None
    /\ Send("down", sid) /\ pc' = IF pc = "undo" THEN "undowait" ELSE "stopwait"
    /\ UNCHANGED <<app, work, proc, tunFd, fds, told, helper, net, core, watch, used>>

(* Mutant: a TunDown that fails is not the end of the attempt. *)
UndoEndsGood ==
    /\ \/ pc = "undo" /\ sid = None /\ CloseFd /\ UNCHANGED conn
       \/ pc = "undowait" /\ unread # <<>> /\ Good /\ Take /\ CloseFd
    /\ NextOrFail
    /\ UNCHANGED <<proc, sid, helper, resolver, core, watch, used>>

UndoEnds ==
    /\ \/ pc = "undo" /\ sid = None /\ CloseFd /\ UNCHANGED conn
       \/ pc = "undowait" /\ unread # <<>> /\ Good /\ Take /\ CloseFd
       \/ /\ pc = "undowait" /\ unread # <<>> /\ ~Good /\ Drop
          /\ UNCHANGED <<tunFd, fds, routes>>
    /\ NextOrFail
    /\ UNCHANGED <<proc, sid, helper, resolver, core, watch, used>>

(* stop_core: the data plane first, then the network.                      *)
Stop ==
    /\ app = "on" /\ pc = "idle" /\ pc' = "stop" /\ Len(updates) < MaxUpdates
    /\ cores' = cores \ {proc} /\ proc' = None
    /\ Sweep(Held(hfd, fds, cores \ {proc}))
    /\ UNCHANGED <<app, work, sid, tunFd, fds, told, conn, helper, resolver, coreTun, watch, used>>

StopEnds ==
    /\ \/ /\ \/ pc = "stop" /\ sid = None /\ UNCHANGED conn
             \/ pc = "stopwait" /\ unread # <<>> /\ Good /\ Take
          /\ CloseFd /\ Owe(Update("rolled back", None, None))
       \/ /\ pc = "stopwait" /\ unread # <<>> /\ ~Good /\ Drop
          /\ Owe(Update("unconfirmed", None, None))
          /\ UNCHANGED <<tunFd, fds, routes>>
    /\ pc' = "idle"
    /\ UNCHANGED <<app, work, proc, sid, helper, resolver, core, watch, used>>

------------------------------------------------------------------------------
(* The answer is late: tun_up and call drop the stream, take_tun_fd keeps  *)
(* it, with the answer still to come.                                      *)
Waiting == {"up", "heal", "up2", "fd", "commit", "undowait", "stopwait", "repair",
            "leave", "boot"}

TimesOut ==
    /\ pc \in Waiting /\ unread = <<>> /\ Spend("late")
    /\ \/ pc = "fd" /\ NextOrFail /\ UNCHANGED <<conn, cores, routes>>
       \/ /\ pc \in {"up", "heal", "up2", "undowait"}
          /\ Drop /\ NextOrFail /\ UNCHANGED <<cores, routes>>
       \/ /\ pc = "commit" /\ Drop /\ pc' = "undo" /\ UNCHANGED <<app, work, told>>
          /\ cores' = cores \ {n} /\ Sweep(Held(hfd, fds, cores \ {n}))
       \/ /\ pc = "stopwait" /\ Drop /\ pc' = "idle"
          /\ Owe(Update("unconfirmed", None, None))
          /\ UNCHANGED <<app, work, cores, routes>>
       \/ /\ pc \in {"repair", "boot"} /\ Drop /\ pc' = "idle"
          /\ UNCHANGED <<app, work, told, cores, routes>>
       \/ pc = "leave" /\ Drop /\ pc' = "exit" /\ UNCHANGED <<app, work, told, cores, routes>>
    /\ UNCHANGED <<super, helper, resolver, coreTun, watch>>

(* The user repairs the network, from the tray or the settings page.       *)
Repair ==
    /\ app = "on" /\ pc = "idle" /\ Spend("repair") /\ Send("restore", None) /\ pc' = "repair"
    /\ UNCHANGED <<app, work, super, told, helper, net, core, watch>>

RepairEnds ==
    /\ pc \in {"repair", "boot"} /\ unread # <<>>
    /\ IF Good THEN Take ELSE Drop
    /\ pc' = "idle"
    /\ UNCHANGED <<app, work, super, told, helper, net, core, watch, used>>

------------------------------------------------------------------------------
(* A core ends by itself; the task that forwards its output notices.       *)
CoreDies(p) ==
    /\ p \in cores /\ Spend("die") /\ cores' = cores \ {p}
    /\ Sweep(Held(hfd, fds, cores \ {p}))
    /\ UNCHANGED <<app, pc, work, super, told, conn, helper, resolver, coreTun, watch>>

(* Mutant: whichever core is shown is taken for the one that has ended. *)
OutputEndsAny(p) ==
    /\ p \in watch \ cores /\ Len(updates) < MaxUpdates /\ watch' = watch \ {p}
    /\ IF shown.running THEN Owe(Update("ended", p, None)) ELSE UNCHANGED told
    /\ UNCHANGED <<app, pc, work, super, conn, helper, net, core, used>>

OutputEnds(p) ==
    /\ p \in watch \ cores /\ Len(updates) < MaxUpdates /\ watch' = watch \ {p}
    /\ IF shown.running /\ shown.pid = p
       THEN Owe(Update("ended", p, None)) ELSE UNCHANGED told
    /\ UNCHANGED <<app, pc, work, super, conn, helper, net, core, used>>

(* The update is written: for a stop runtime_after_stop and stop_log_line, *)
(* and from then on the output of a core that has started is followed.     *)
Shows(u) ==
    CASE u.what = "connected"   -> [running |-> TRUE, pid |-> u.pid, sid |-> u.sid]
      [] u.what = "unconfirmed" -> [Stopped EXCEPT !.sid = shown.sid]
      [] u.what = "ended"       -> [shown EXCEPT !.running = FALSE]
      [] OTHER                  -> Stopped

Publish ==
    /\ app = "on"
    /\ \E i \in DOMAIN updates :
         /\ shown' = Shows(updates[i])
         /\ claim' = (IF updates[i].what = "ended" THEN claim ELSE updates[i].what)
         /\ watch' = (IF updates[i].what = "connected" THEN watch \cup {updates[i].pid} ELSE watch)
         /\ updates' = [k \in 1 .. Len(updates) - 1 |-> updates[IF k < i THEN k ELSE k + 1]]
    /\ UNCHANGED <<app, pc, work, super, overlap, conn, helper, net, core, used>>

(* sync_cleanup: nothing when nothing is shown to run; otherwise Restore,  *)
(* unless a command holds the helper, and SIGTERM to the core that is      *)
(* shown.  The exit runs no destructor, so any other core lives on.        *)
Quit ==
    /\ app = "on" /\ pc \notin {"leave", "exit"} /\ Spend("exit")
    /\ IF shown.pid # None /\ pc = "idle"
       THEN pc' = "leave" /\ Send("restore", None)
       ELSE pc' = "exit" /\ Drop
    /\ UNCHANGED <<app, work, super, told, helper, net, core, watch>>

LeaveAnswered ==
    /\ pc = "leave" /\ unread # <<>> /\ pc' = "exit" /\ Drop
    /\ UNCHANGED <<app, work, super, told, helper, net, core, watch, used>>

(* Killed, or gone without ExitRequested.                                  *)
Crash ==
    /\ app = "on" /\ pc # "exit" /\ Spend("exit") /\ pc' = "exit" /\ Drop /\ shown' = Stopped
    /\ UNCHANGED <<app, work, super, claim, updates, overlap, helper, net, core, watch>>

Exit ==
    /\ pc = "exit" /\ app' = "off" /\ pc' = "idle" /\ tries' = 0
    /\ cores' = cores \ {shown.pid} /\ Sweep(Held(hfd, {}, cores \ {shown.pid}))
    /\ proc' = None /\ sid' = None /\ tunFd' = None /\ fds' = {}
    /\ shown' = Stopped /\ claim' = "none" /\ watch' = {} /\ updates' = <<>>
    /\ UNCHANGED <<mode, n, overlap, conn, helper, resolver, coreTun, used>>

(* bootstrap: a session that is live or was cut short is rolled back.      *)
Launch ==
    /\ app = "off" /\ app' = "on"
    /\ IF session # None \/ (file # None /\ saved = "none")
       THEN pc' = "boot" /\ Send("restore", None)
       ELSE UNCHANGED <<pc, conn>>
    /\ UNCHANGED <<work, super, told, helper, net, core, watch, used>>

------------------------------------------------------------------------------
Attempting ==
    \/ StartAttempt \/ RefusedEarly \/ UpAnswered \/ Healed \/ FdAnswered
    \/ SpawnCore \/ SpawnFails \/ Ready \/ PassGate \/ GiveUp
    \/ CommitAnswered \/ StillReachable \/ Started

Ending == RollbackAsks \/ UndoEnds \/ StopEnds \/ RepairEnds \/ LeaveAnswered \/ Exit

User == Stop \/ Repair \/ Quit \/ Crash \/ Launch \/ \E m \in {"tun", "proxy"} : Begin(m)

Next ==
    \/ User \/ Attempting \/ Ending \/ Publish \/ TimesOut \/ HelperServes \/ HelperServesLate
    \/ \E p \in Attempt : CoreDies(p) \/ OutputEnds(p)

Spec == Init /\ [][Next]_vars

(* The app's tasks and the helper's threads run on.  What users do, late   *)
(* answers and dying cores are not owed to anybody.                        *)
FairSpec ==
    /\ Spec /\ WF_vars(Attempting \/ Ending) /\ WF_vars(HelperServes)

------------------------------------------------------------------------------
(* Correctness *)

Claim == {"connected", "failed", "rolled back", "unconfirmed"}

(* Every variable stays in its range.                                      *)
TypeOK ==
    /\ app \in {"on", "off"}
    /\ pc \in {"idle", "attempt", "spawn", "ready", "gate", "recheck", "success",
               "undo", "stop", "exit"} \cup Waiting
    /\ mode \in {"tun", "proxy"} /\ tries \in 0 .. MaxTry /\ n \in 0 .. MaxAttempt
    /\ proc \in Id /\ sid \in Id /\ tunFd \in Id /\ fds \in SUBSET Id
    /\ shown \in [running : BOOLEAN, pid : Id, sid : Id]
    /\ claim \in Claim \cup {"none"} /\ overlap \in BOOLEAN
    /\ updates \in Seq([what : Claim \cup {"ended"}, pid : Id, sid : Id])
    /\ inbox \in Seq(Request) /\ unread \in Seq(Response)
    /\ orphans \in SUBSET Seq(Request) /\ stray \in BOOLEAN
    /\ session \in Id /\ file \in Id /\ saved \in {"none", "user", "dhcp"}
    /\ hfd \in SUBSET Id /\ routes \in Id /\ resolver \in {"user", "dhcp", "sentinel"}
    /\ cores \in SUBSET Attempt /\ coreTun \in [Attempt -> Id] /\ watch \in SUBSET Attempt
    /\ used \in [Bounded -> Nat]

(* Whatever answer is late or misread, a tunnel that has taken over the    *)
(* traffic is never forgotten while the app runs: between commands the     *)
(* supervisor knows its id, or the request that ends it is on its way.     *)
(* Only a rollback that fails in the helper breaks this, and two late      *)
(* answers, of which the second is TunUp's, served after TunDown.          *)
Ends(id) == {Req("down", id), Req("restore", None)}

OnItsWay(id) ==
    \E q \in orphans \cup {inbox} : \E i \in DOMAIN q : q[i] \in Ends(id)

CaptureIsKnown ==
    (/\ pc = "idle" /\ routes # None
     /\ used["undo"] = 0 /\ used["exit"] = 0 /\ used["late"] < 2)
    => sid = routes \/ OnItsWay(routes)

(* A connection the app shows as running, with its core alive, does carry  *)
(* the traffic: no request left over from an earlier attempt can take it   *)
(* down, but for a Restore.                                                *)
ShownIsCaptured ==
    (/\ app = "on" /\ pc = "idle" /\ mode = "tun" /\ shown.running
     /\ shown.pid \in cores /\ updates = <<>> /\ ~stray /\ used["repair"] = 0)
    => routes = shown.sid /\ resolver = "sentinel"

(* Once every command and task has written what it owes, a core the        *)
(* supervisor runs is the one that is shown: the end of an earlier core's  *)
(* output never marks its successor as stopped.  Two updates under way at  *)
(* once may do that, as nothing orders them.                               *)
RunningIsShown ==
    (app = "on" /\ pc = "idle" /\ proc \in cores /\ updates = <<>> /\ ~overlap)
    => shown.running /\ shown.pid = proc

(* A session some earlier attempt left in the helper, because take_tun_fd  *)
(* or spawn_core failed or an answer was late, never ends up under a later *)
(* attempt's core: up to the commit everything is the attempt's own.       *)
StartOwnsSession ==
    (mode = "tun" /\ pc \in {"spawn", "ready", "gate"} /\ ~stray)
    => session = n /\ sid = n /\ tunFd = n

(* Every command ends and gives the locks back.                            *)
CommandsEnd == (pc # "idle") ~> (pc = "idle")

(* Claims of the code that it does not keep *)

(* "Stopped, network configuration rolled back" is said only after the     *)
(* helper has answered TunDown with success (core.rs, runtime_after_stop). *)
HonestStop ==
    [][StopEnds /\ Owe(Update("rolled back", None, None))
       => routes' = None /\ resolver' # "sentinel"]_vars

(* The gate proves the proxy works before the default route is taken over: *)
(* the core whose path is probed is the one that was started.              *)
GateProbesOwnCore == [][PassGate => n \in cores]_vars

==============================================================================
