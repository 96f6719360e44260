-------------------------- MODULE ConnectFlow_proofs --------------------------
(***************************************************************************)
(* What TLAPS proves of ConnectFlow for any number of attempts, candidates *)
(* and troubles: the variables keep their types, a core that runs is the   *)
(* one that is shown, a start never goes on with another attempt's         *)
(* session, a connection that is shown carries the traffic, and a tunnel   *)
(* that has taken it over is not forgotten; every step of a command brings *)
(* it nearer its end, and the answer it waits for is on its way.           *)
(***************************************************************************)
EXTENDS ConnectFlow, SequenceTheorems, TLAPS

UpdateRec == [what : Claim \cup {"ended"}, pid : Id, sid : Id]

Trying == {"attempt", "up", "heal", "up2", "fd", "spawn", "ready", "gate", "commit",
           "recheck", "success", "undo", "undowait"}

(* A start counts its candidates down and numbers its attempts up; their   *)
(* sum stays below the bound that Begin has checked.                       *)
AttemptOK ==
    /\ pc \in Trying => tries >= 1
    /\ pc = "attempt" => n + tries <= MaxAttempt
    /\ pc \in Trying \ {"attempt"} => n >= 1 /\ n + tries <= MaxAttempt + 1

(* TypeOK, regrouped by the part of the state that changes together; an    *)
(* announced descriptor always follows, no empty queue is kept, and only a *)
(* real core is ever connected.                                            *)
WorkOK ==
    /\ app \in {"on", "off"}
    /\ pc \in {"idle", "attempt", "spawn", "ready", "gate", "recheck", "success",
               "undo", "stop", "exit"} \cup Waiting
    /\ mode \in {"tun", "proxy"} /\ tries \in 0 .. MaxTry /\ n \in 0 .. MaxAttempt
    /\ AttemptOK

SuperOK == proc \in Id /\ sid \in Id /\ tunFd \in Id /\ fds \in SUBSET Id

ToldOK ==
    /\ shown \in [running : BOOLEAN, pid : Id, sid : Id]
    /\ claim \in Claim \cup {"none"} /\ overlap \in BOOLEAN
    /\ updates \in Seq(UpdateRec)
    /\ \A i \in 1 .. Len(updates) : updates[i].what = "connected" => updates[i].pid # None

Announced ==
    \A i \in 1 .. Len(unread) :
        unread[i].resp = "fd" => i + 1 \in 1 .. Len(unread) /\ unread[i + 1].resp = "fdmsg"

ConnOK ==
    /\ inbox \in Seq(Request) /\ unread \in Seq(Response) /\ Announced
    /\ orphans \in SUBSET Seq(Request) /\ <<>> \notin orphans /\ stray \in BOOLEAN

HelperOK ==
    /\ session \in Id /\ file \in Id /\ saved \in {"none", "user", "dhcp"}
    /\ hfd \in SUBSET Id /\ resolver \in {"user", "dhcp", "sentinel"}

CoreOK ==
    /\ routes \in Id /\ cores \in SUBSET Attempt /\ coreTun \in [Attempt -> Id]
    /\ watch \in SUBSET Attempt /\ used \in [Bounded -> Nat]

Shape == WorkOK /\ SuperOK /\ ToldOK /\ ConnOK /\ HelperOK /\ CoreOK

LEMMA ShapeIsTypeOK == Shape => TypeOK
  BY DEF Shape, WorkOK, SuperOK, ToldOK, ConnOK, HelperOK, CoreOK, TypeOK, UpdateRec

------------------------------------------------------------------------------
(* Numbers of attempts, and bounds.                                        *)
LEMMA Numbers ==
    ASSUME Shape
    PROVE  /\ n \in Nat /\ tries \in Nat /\ MaxTry \in Nat /\ MaxAttempt \in Nat
           /\ n \in Id /\ None \in Id /\ Attempt \subseteq Id
           /\ pc \in Trying \ {"attempt"} => n \in Attempt
           /\ pc = "attempt" => n + 1 \in Attempt
<1>1. MaxTry \in Nat /\ MaxAttempt \in Nat /\ n \in 0 .. MaxAttempt /\ tries \in 0 .. MaxTry
  BY LimitsAssumption DEF Shape, WorkOK
<1>2. n \in Nat /\ tries \in Nat BY <1>1
<1>3. None \in Id /\ Attempt \subseteq Id BY DEF Id
<1>4. n \in Id
  <2>1. n = 0 \/ n \in 1 .. MaxAttempt BY <1>1
  <2>. QED BY <2>1 DEF Id, Attempt, None
<1>5. pc \in Trying \ {"attempt"} => n \in Attempt
  BY <1>1 DEF Shape, WorkOK, AttemptOK, Attempt
<1>6. pc = "attempt" => n + 1 \in Attempt
  <2>1. pc = "attempt" => tries >= 1 /\ n + tries <= MaxAttempt
    BY DEF Shape, WorkOK, AttemptOK, Trying
  <2>2. pc = "attempt" => n + 1 \in 1 .. MaxAttempt BY <1>1, <1>2, <2>1
  <2>. QED BY <2>2 DEF Attempt
<1>. QED BY <1>1, <1>2, <1>3, <1>4, <1>5, <1>6

LEMMA SpendType ==
    ASSUME Shape, NEW b \in Bounded, Spend(b) PROVE used' \in [Bounded -> Nat]
  BY DEF Shape, CoreOK, Spend

LEMMA OweType ==
    ASSUME Shape, NEW u \in UpdateRec, Owe(u), u.what = "connected" => u.pid # None
    PROVE  ToldOK'
<1>1. updates \in Seq(UpdateRec) BY DEF Shape, ToldOK
<1>2. /\ updates' \in Seq(UpdateRec) /\ Len(updates') = Len(updates) + 1
      /\ \A i \in 1 .. Len(updates) : updates'[i] = updates[i]
      /\ updates'[Len(updates) + 1] = u
  BY <1>1 DEF Owe
<1>3. \A i \in 1 .. Len(updates') : i \in 1 .. Len(updates) \/ i = Len(updates) + 1
  BY <1>1, <1>2
<1>. QED BY <1>2, <1>3 DEF Shape, ToldOK, Owe

LEMMA ToldKept == ASSUME Shape, UNCHANGED told PROVE ToldOK'
  BY DEF Shape, ToldOK, told

LEMMA ConnKept == ASSUME Shape, UNCHANGED conn PROVE ConnOK'
  BY DEF Shape, ConnOK, Announced, conn, late

(* The next candidate, or none.                                            *)
LEMMA NextOrFailType ==
    ASSUME Shape, NextOrFail, pc \in Trying
    PROVE  WorkOK' /\ ToldOK' /\ app' = app /\ n' = n /\ mode' = mode
           /\ pc' \in {"attempt", "idle"}
<1>1. CASE tries > 1 /\ pc' = "attempt" /\ tries' = tries - 1 /\ UNCHANGED told
  <2>1. ToldOK' BY <1>1, ToldKept
  <2>. QED
    BY <1>1, <2>1, Numbers DEF NextOrFail, Shape, WorkOK, AttemptOK, Trying
<1>2. CASE pc' = "idle" /\ tries' = 0 /\ Owe(Update("failed", None, None))
  <2>1. Update("failed", None, None) \in UpdateRec /\ Update("failed", None, None).what = "failed"
    BY DEF Update, UpdateRec, Claim, Id
  <2>2. ToldOK' BY <1>2, <2>1, OweType
  <2>. QED
    BY <1>2, <2>2, Numbers DEF NextOrFail, Shape, WorkOK, AttemptOK, Trying
<1>. QED BY <1>1, <1>2 DEF NextOrFail

LEMMA SendType ==
    ASSUME Shape, NEW what \in {"up", "fd", "commit", "down", "restore"}, NEW id \in Id,
           Send(what, id)
    PROVE  ConnOK'
<1>1. Req(what, id) \in Request BY DEF Req, Request
<1>. QED BY <1>1 DEF Send, Shape, ConnOK, Announced, late

LEMMA AbandonType ==
    ASSUME Shape, NEW q \in Seq(Request), Abandon(q)
    PROVE  orphans' \in SUBSET Seq(Request) /\ <<>> \notin orphans' /\ stray' \in BOOLEAN
  BY DEF Abandon, Shape, ConnOK

LEMMA DropType == ASSUME Shape, Drop PROVE ConnOK'
<1>1. inbox \in Seq(Request) BY DEF Shape, ConnOK
<1>2. Abandon(inbox) /\ inbox' = <<>> /\ unread' = <<>> BY DEF Drop
<1>. QED BY <1>1, <1>2, AbandonType DEF ConnOK, Announced

LEMMA DropAndSendType ==
    ASSUME Shape, NEW what \in {"up", "fd", "commit", "down", "restore"}, NEW id \in Id,
           DropAndSend(what, id)
    PROVE  ConnOK'
<1>1. inbox \in Seq(Request) BY DEF Shape, ConnOK
<1>2. Abandon(inbox) /\ inbox' = <<Req(what, id)>> /\ unread' = <<>> BY DEF DropAndSend
<1>3. Req(what, id) \in Request BY DEF Req, Request
<1>. QED BY <1>1, <1>2, <1>3, AbandonType DEF ConnOK, Announced

(* Reading one frame, or an announcement with its descriptor.              *)
LEMMA FirstFrame ==
    ASSUME Shape, unread # <<>>
    PROVE  /\ Answer \in Response /\ Tail(unread) \in Seq(Response)
           /\ Len(unread) \in Nat \ {0} /\ Answer = unread[1]
           /\ Len(Tail(unread)) = Len(unread) - 1
           /\ \A i \in 1 .. Len(unread) - 1 : Tail(unread)[i] = unread[i + 1]
  BY DEF Shape, ConnOK, Answer

LEMMA Read ==
    ASSUME Shape, unread # <<>>, unread' = Tail(unread), inbox' \in Seq(Request),
           UNCHANGED late
    PROVE  ConnOK'
<1>1. Announced'
  <2>. SUFFICES ASSUME NEW i \in 1 .. Len(unread) - 1, unread[i + 1].resp = "fd"
                PROVE  /\ i + 1 \in 1 .. Len(unread) - 1
                       /\ unread'[i + 1].resp = "fdmsg"
    BY FirstFrame DEF Announced
  <2>1. i + 1 \in 1 .. Len(unread) BY FirstFrame
  <2>2. (i + 1) + 1 \in 1 .. Len(unread) /\ unread[(i + 1) + 1].resp = "fdmsg"
    BY <2>1 DEF Shape, ConnOK, Announced
  <2>3. i + 1 \in 1 .. Len(unread) - 1 BY FirstFrame, <2>2
  <2>. QED BY FirstFrame, <2>2, <2>3
<1>. QED BY <1>1, FirstFrame DEF Shape, ConnOK, late

LEMMA ReadBoth ==
    ASSUME Shape, unread # <<>>, Answer.resp = "fd", unread' = Tail(Tail(unread)),
           UNCHANGED <<inbox, late>>
    PROVE  ConnOK' /\ Len(unread) >= 2 /\ Tail(unread) # <<>>
<1>1. 1 + 1 \in 1 .. Len(unread)
  BY FirstFrame DEF Shape, ConnOK, Announced
<1>2. Len(unread) >= 2 BY <1>1, FirstFrame
<1>3. Tail(unread) # <<>> /\ Len(Tail(unread)) \in Nat
  <2>. DEFINE t == Tail(unread)
  <2>1. Len(t) = Len(unread) - 1 /\ Len(unread) \in Nat BY FirstFrame
  <2>2. Len(t) \in Nat /\ Len(t) # 0 BY <1>2, <2>1
  <2>. HIDE DEF t
  <2>3. t # <<>> BY <2>2
  <2>. QED BY <2>2, <2>3 DEF t
<1>4. /\ Tail(Tail(unread)) \in Seq(Response) /\ Len(Tail(Tail(unread))) = Len(unread) - 2
      /\ \A i \in 1 .. Len(unread) - 2 : Tail(Tail(unread))[i] = unread[i + 2]
  <2>. DEFINE t == Tail(unread)
  <2>1. t \in Seq(Response) /\ t # <<>> /\ Len(t) = Len(unread) - 1 BY <1>3, FirstFrame
  <2>2. \A i \in 1 .. Len(unread) - 1 : t[i] = unread[i + 1] BY FirstFrame
  <2>. HIDE DEF t
  <2>3. Tail(t) \in Seq(Response) /\ Len(Tail(t)) = Len(t) - 1
        /\ \A i \in 1 .. Len(t) - 1 : Tail(t)[i] = t[i + 1]
    BY <2>1
  <2>4. \A i \in 1 .. Len(unread) - 2 : i \in 1 .. Len(t) - 1 /\ i + 1 \in 1 .. Len(unread) - 1
        /\ (i + 1) + 1 = i + 2
    BY <2>1, FirstFrame
  <2>5. Len(t) - 1 = Len(unread) - 2 BY <2>1, FirstFrame
  <2>6. ASSUME NEW i \in 1 .. Len(unread) - 2 PROVE Tail(t)[i] = unread[i + 2]
    BY <2>2, <2>3, <2>4
  <2>. QED BY <2>3, <2>5, <2>6 DEF t
<1>5. Announced'
  <2>. SUFFICES ASSUME NEW i \in 1 .. Len(unread) - 2, unread[i + 2].resp = "fd"
                PROVE  /\ i + 1 \in 1 .. Len(unread) - 2
                       /\ unread'[i + 1].resp = "fdmsg"
    BY <1>4 DEF Announced
  <2>1. i + 2 \in 1 .. Len(unread) BY FirstFrame
  <2>2. (i + 2) + 1 \in 1 .. Len(unread) /\ unread[(i + 2) + 1].resp = "fdmsg"
    BY <2>1 DEF Shape, ConnOK, Announced
  <2>3. i + 1 \in 1 .. Len(unread) - 2 /\ (i + 1) + 2 = (i + 2) + 1 BY FirstFrame, <2>2
  <2>. QED BY <1>4, <2>2, <2>3
<1>. QED BY <1>2, <1>3, <1>4, <1>5 DEF Shape, ConnOK, late

LEMMA SweepType ==
    ASSUME Shape, NEW held, Sweep(held) PROVE routes' \in Id
  BY Numbers DEF Sweep, Shape, CoreOK

------------------------------------------------------------------------------
(* The helper's side *)

LEMMA UndoType ==
    ASSUME Shape, NEW id \in Id, NEW resp, Undo(id, resp)
    PROVE  HelperOK' /\ routes' \in Id /\ used' \in [Bounded -> Nat]
<1>1. \/ /\ resp = "ok" /\ file' = None /\ saved' = "none"
         /\ resolver' = (IF saved = "none" THEN resolver ELSE saved)
         /\ routes' = (IF routes \in {file, id} THEN None ELSE routes)
         /\ UNCHANGED used
      \/ /\ Spend("undo")
         /\ resolver' \in {resolver, IF saved = "none" THEN resolver ELSE saved}
         /\ Sweep(Held(hfd \ {id}, fds, cores))
         /\ UNCHANGED <<file, saved>>
  BY DEF Undo
<1>2. session' = None /\ hfd' = hfd \ {id} BY DEF Undo
<1>3. HelperOK' BY <1>1, <1>2, Numbers DEF Shape, HelperOK
<1>4. routes' \in Id BY <1>1, Numbers, SweepType DEF Shape, CoreOK
<1>5. used' \in [Bounded -> Nat]
  <2>1. "undo" \in Bounded BY DEF Bounded
  <2>. QED BY <1>1, <2>1, SpendType DEF Shape, CoreOK
<1>. QED BY <1>3, <1>4, <1>5

LEMMA ServeType ==
    ASSUME Shape, NEW r \in Request, NEW resp, Serve(r, resp)
    PROVE  HelperOK' /\ routes' \in Id /\ used' \in [Bounded -> Nat]
<1>0. r.id \in Id /\ session \in Id BY DEF Request, Shape, HelperOK
<1>k. /\ \A b \in Bounded : Spend(b) => used' \in [Bounded -> Nat]
      /\ UNCHANGED used => used' \in [Bounded -> Nat]
  BY SpendType DEF Shape, CoreOK
<1>n. UNCHANGED net => routes' \in Id /\ resolver' = resolver
  BY DEF net, Shape, CoreOK
<1>1. CASE ServeUp(r.id, resp)
  <2>1. used' \in [Bounded -> Nat] BY <1>1, <1>k DEF ServeUp, Bounded
  <2>. QED BY <1>0, <1>1, <1>n, <2>1, Numbers DEF ServeUp, Shape, HelperOK
<1>2. CASE ServeFd(r.id, resp)
  BY <1>2, <1>n, <1>k DEF ServeFd, helper, Shape, HelperOK
<1>3. CASE ServeCommit(r.id, resp)
  <2>1. used' \in [Bounded -> Nat] BY <1>3, <1>k DEF ServeCommit, Bounded
  <2>2. CASE UNCHANGED <<helper, net, used>>
    BY <2>2, <1>n, <1>k DEF helper, Shape, HelperOK
  <2>3. CASE /\ saved' = (IF resolver = "user" THEN "user" ELSE "dhcp")
             /\ routes' = r.id /\ resolver' = "sentinel"
             /\ UNCHANGED <<session, file, hfd, used>>
    BY <2>3, <1>0, <1>k DEF Shape, HelperOK
  <2>4. CASE session' = None /\ file' = None /\ UNCHANGED <<saved, hfd, net>>
    BY <2>1, <2>4, <1>n, Numbers DEF Shape, HelperOK
  <2>. QED BY <1>3, <2>2, <2>3, <2>4 DEF ServeCommit
<1>4. CASE ServeDown(r.id, resp)
  <2>1. CASE UNCHANGED <<helper, net, used>>
    BY <2>1, <1>n, <1>k DEF helper, Shape, HelperOK
  <2>2. CASE Undo(r.id, resp) BY <1>0, <2>2, UndoType
  <2>. QED BY <1>4, <2>1, <2>2 DEF ServeDown
<1>5. CASE ServeRestore(r.id, resp) BY <1>0, <1>5, UndoType DEF ServeRestore
<1>. QED BY <1>1, <1>2, <1>3, <1>4, <1>5 DEF Serve

(* An answer is one frame, or an announcement and the descriptor.          *)
LEMMA FramesType ==
    ASSUME NEW resp \in {"ok", "conflict", "error", "fd"}, NEW id \in Id
    PROVE  /\ Frames(resp, id) \in Seq(Response)
           /\ Frames(resp, id)[1] = [resp |-> resp, id |-> id]
           /\ resp # "fd" => Len(Frames(resp, id)) = 1
           /\ resp = "fd" => Len(Frames(resp, id)) = 2
                             /\ Frames(resp, id)[2] = [resp |-> "fdmsg", id |-> id]
<1>1. [resp |-> resp, id |-> id] \in Response /\ [resp |-> "fdmsg", id |-> id] \in Response
  BY DEF Response
<1>. QED BY <1>1 DEF Frames

LEMMA FramesLength ==
    ASSUME NEW resp \in {"ok", "conflict", "error", "fd"}, NEW id \in Id
    PROVE  /\ resp # "fd" => Len(Frames(resp, id)) = 1
           /\ resp = "fd" => Len(Frames(resp, id)) = 2
BY DEF Frames

LEMMA AnsweredType ==
    ASSUME Shape, NEW resp \in {"ok", "conflict", "error", "fd"}, NEW id \in Id,
           unread' = unread \o Frames(resp, id)
    PROVE  /\ unread' \in Seq(Response) /\ Announced'
           /\ Len(unread) \in Nat /\ Len(unread') = Len(unread) + Len(Frames(resp, id))
           /\ \A i \in 1 .. Len(unread) : unread'[i] = unread[i]
           /\ unread'[Len(unread) + 1] = [resp |-> resp, id |-> id]
           /\ resp = "fd" => unread'[Len(unread) + 2] = [resp |-> "fdmsg", id |-> id]
<1>. DEFINE f == Frames(resp, id)
            m == Len(unread)
<1>1. /\ f \in Seq(Response) /\ f[1] = [resp |-> resp, id |-> id]
      /\ resp # "fd" => Len(f) = 1
      /\ resp = "fd" => Len(f) = 2 /\ f[2] = [resp |-> "fdmsg", id |-> id]
  BY FramesType
<1>2. unread \in Seq(Response) BY DEF Shape, ConnOK
<1>3. unread' = unread \o f OBVIOUS
<1>. HIDE DEF f
<1>4. /\ unread' \in Seq(Response) /\ Len(unread') = Len(unread) + Len(f)
      /\ \A i \in 1 .. Len(unread) : unread'[i] = unread[i]
      /\ \A i \in Len(unread) + 1 .. Len(unread) + Len(f) : unread'[i] = f[i - Len(unread)]
  BY <1>1, <1>2, <1>3, ConcatProperties
<1>5. m \in Nat BY <1>2
<1>. HIDE DEF m
<1>6. /\ unread'[m + 1] = [resp |-> resp, id |-> id]
      /\ resp = "fd" => unread'[m + 2] = [resp |-> "fdmsg", id |-> id]
  <2>1. m + 1 \in m + 1 .. m + Len(f) /\ (m + 1) - m = 1 BY <1>1, <1>5
  <2>2. resp = "fd" => m + 2 \in m + 1 .. m + Len(f) /\ (m + 2) - m = 2
    <3>1. m + 2 \in m + 1 .. m + 2 /\ (m + 2) - m = 2 BY <1>5
    <3>. QED BY <1>1, <3>1
  <2>. QED BY <1>1, <1>4, <2>1, <2>2 DEF m
<1>7. ASSUME NEW i \in 1 .. Len(unread'), unread'[i].resp = "fd"
      PROVE  i + 1 \in 1 .. Len(unread') /\ unread'[i + 1].resp = "fdmsg"
  <2>1. CASE i \in 1 .. m
    <3>1. unread[i].resp = "fd" BY <1>4, <1>7, <2>1 DEF m
    <3>2. i + 1 \in 1 .. m /\ unread[i + 1].resp = "fdmsg"
      BY <2>1, <3>1 DEF Shape, ConnOK, Announced, m
    <3>. QED BY <1>1, <1>4, <1>5, <3>2 DEF m
  <2>2. CASE i = m + 1
    <3>1. resp = "fd" BY <1>6, <1>7, <2>2
    <3>2. Len(unread') = m + 2 BY <1>1, <1>4, <3>1 DEF m
    <3>3. i + 1 = m + 2 /\ m + 2 \in 1 .. m + 2 BY <1>5, <2>2
    <3>. QED BY <1>6, <3>1, <3>2, <3>3
  <2>3. CASE i = m + 2
    <3>1. resp = "fd" BY <1>1, <1>4, <1>5, <1>7, <2>3 DEF m
    <3>. QED BY <1>6, <1>7, <2>3, <3>1
  <2>4. i \in 1 .. m \/ i = m + 1 \/ i = m + 2 BY <1>1, <1>4, <1>5, <1>7 DEF m
  <2>. QED BY <2>1, <2>2, <2>3, <2>4
<1>. QED BY <1>4, <1>5, <1>6, <1>7 DEF m, f, Announced

------------------------------------------------------------------------------
(* Each part of the state, where a step leaves it alone or moves on.       *)
LEMMA Kept ==
    ASSUME Shape
    PROVE  /\ UNCHANGED <<app, pc, work>> => WorkOK'
           /\ UNCHANGED super => SuperOK'
           /\ UNCHANGED told => ToldOK'
           /\ UNCHANGED conn => ConnOK'
           /\ UNCHANGED <<helper, resolver>> => HelperOK'
           /\ UNCHANGED <<routes, core, watch, used>> => CoreOK'
<1>1. UNCHANGED <<app, pc, work>> => WorkOK' BY DEF Shape, WorkOK, AttemptOK, work
<1>2. UNCHANGED super => SuperOK' BY DEF Shape, SuperOK, super
<1>3. UNCHANGED <<helper, resolver>> => HelperOK' BY DEF Shape, HelperOK, helper
<1>4. UNCHANGED <<routes, core, watch, used>> => CoreOK' BY DEF Shape, CoreOK, core
<1>. QED BY <1>1, <1>2, <1>3, <1>4, ToldKept, ConnKept

Elsewhere == {"idle", "stop", "stopwait", "repair", "boot", "leave", "exit"}

LEMMA MovesOn ==
    ASSUME Shape, UNCHANGED <<app, work>>,
           \/ pc' \in Elsewhere
           \/ pc \in Trying \ {"attempt"} /\ pc' \in Trying \ {"attempt"}
    PROVE  WorkOK'
<1>1. app \in {"on", "off"} /\ mode \in {"tun", "proxy"} /\ tries \in 0 .. MaxTry /\ n \in 0 .. MaxAttempt
  BY DEF Shape, WorkOK
<1>2. CASE pc' \in Elsewhere
  BY <1>1, <1>2 DEF Elsewhere, WorkOK, AttemptOK, Trying, work, Waiting
<1>3. CASE pc \in Trying \ {"attempt"} /\ pc' \in Trying \ {"attempt"}
  <2>1. tries >= 1 /\ n >= 1 /\ n + tries <= MaxAttempt + 1
    BY <1>3 DEF Shape, WorkOK, AttemptOK
  <2>2. pc' # "attempt" /\ tries' = tries /\ n' = n /\ app' = app /\ mode' = mode
    BY <1>3 DEF work
  <2>3. AttemptOK' BY <1>3, <2>1, <2>2 DEF AttemptOK
  <2>4. pc' \in {"spawn", "ready", "gate", "recheck", "success", "undo"} \cup Waiting
    BY <1>3 DEF Trying, Waiting
  <2>. QED BY <1>1, <2>2, <2>3, <2>4 DEF WorkOK
<1>. QED BY <1>2, <1>3

LEMMA CoreDown ==
    ASSUME Shape, NEW p, NEW held, cores' = cores \ {p}, Sweep(held),
           UNCHANGED coreTun, watch' \in SUBSET Attempt, used' \in [Bounded -> Nat]
    PROVE  CoreOK'
  BY SweepType DEF Shape, CoreOK

LEMMA CloseFdType ==
    ASSUME Shape, CloseFd, UNCHANGED <<proc, sid>> PROVE SuperOK' /\ routes' \in Id
<1>1. tunFd' = None /\ fds' = fds \ {tunFd} /\ Sweep(Held(hfd, fds \ {tunFd}, cores))
  BY DEF CloseFd
<1>2. routes' \in Id BY <1>1, SweepType
<1>. QED BY <1>1, <1>2, Numbers DEF Shape, SuperOK

------------------------------------------------------------------------------
(* Every action keeps the shape of the state *)

LEMMA BeginShape == ASSUME Shape, NEW m \in {"tun", "proxy"}, Begin(m) PROVE Shape'
<1>1. UNCHANGED <<app, sid, tunFd, fds, shown, updates, overlap, conn, helper, net, core, watch, used>>
  BY DEF Begin
<1>2. UNCHANGED <<routes, resolver>> BY <1>1 DEF net
<1>3. ConnOK' /\ HelperOK' /\ CoreOK' BY <1>1, <1>2, Kept
<1>4. CASE claim' = "connected" /\ UNCHANGED <<pc, work, proc>>
  <2>1. WorkOK' BY <1>1, <1>4, Kept
  <2>2. SuperOK' BY <1>1, <1>4 DEF Shape, SuperOK
  <2>3. ToldOK' BY <1>1, <1>4 DEF Shape, ToldOK, Claim
  <2>. QED BY <1>3, <2>1, <2>2, <2>3 DEF Shape
<1>5. CASE /\ n + MaxTry <= MaxAttempt
           /\ proc' = None /\ mode' = m /\ pc' = "attempt"
           /\ tries' \in 1 .. MaxTry
           /\ UNCHANGED <<n, claim>>
  <2>1. WorkOK'
    <3>1. tries' >= 1 /\ tries' \in 0 .. MaxTry /\ n' + tries' <= MaxAttempt
      BY <1>5, Numbers
    <3>. QED BY <1>1, <1>5, <3>1 DEF Shape, WorkOK, AttemptOK, Trying
  <2>2. SuperOK' BY <1>1, <1>5, Numbers DEF Shape, SuperOK
  <2>3. ToldOK' BY <1>1, <1>5 DEF Shape, ToldOK
  <2>. QED BY <1>3, <2>1, <2>2, <2>3 DEF Shape
<1>. QED BY <1>4, <1>5 DEF Begin

LEMMA StartAttemptShape == ASSUME Shape, StartAttempt PROVE Shape'
<1>1. pc = "attempt" /\ n' = n + 1
      /\ UNCHANGED <<app, mode, tries, super, told, helper, net, core, watch, used>>
      /\ \/ mode = "tun" /\ Send("up", n + 1) /\ pc' = "up"
         \/ mode = "proxy" /\ pc' = "spawn" /\ UNCHANGED conn
  BY DEF StartAttempt
<1>2. n + 1 \in Attempt /\ n + 1 \in Id BY <1>1, Numbers
<1>3. WorkOK'
  <2>1. tries >= 1 /\ n + tries <= MaxAttempt
    BY <1>1 DEF Shape, WorkOK, AttemptOK, Trying
  <2>2. n' >= 1 /\ n' + tries <= MaxAttempt + 1 /\ n' \in 0 .. MaxAttempt
    BY <1>1, <2>1, Numbers
  <2>. QED BY <1>1, <2>1, <2>2 DEF Shape, WorkOK, AttemptOK, Waiting
<1>4. ConnOK' BY <1>1, <1>2, SendType, Kept
<1>5. SuperOK' /\ ToldOK' /\ HelperOK' /\ CoreOK' BY <1>1, Kept DEF net
<1>. QED BY <1>3, <1>4, <1>5 DEF Shape

LEMMA RefusedEarlyShape == ASSUME Shape, RefusedEarly \/ SpawnFails PROVE Shape'
<1>1. pc \in {"attempt", "spawn"} /\ Spend("step") /\ NextOrFail
      /\ UNCHANGED <<super, conn, helper, net, core, watch>>
  BY DEF RefusedEarly, SpawnFails
<1>2. WorkOK' /\ ToldOK' BY <1>1, NextOrFailType DEF Trying
<1>3. used' \in [Bounded -> Nat] BY <1>1, SpendType DEF Bounded
<1>4. CoreOK' BY <1>1, <1>3 DEF Shape, CoreOK, core, net
<1>5. SuperOK' /\ ConnOK' /\ HelperOK' BY <1>1, Kept DEF net
<1>. QED BY <1>2, <1>4, <1>5 DEF Shape

LEMMA UpAnsweredShape == ASSUME Shape, UpAnswered PROVE Shape'
<1>1. /\ pc \in {"up", "up2"} /\ unread # <<>>
      /\ UNCHANGED <<proc, tunFd, fds, helper, net, core, watch, used>>
  BY DEF UpAnswered
<1>2. HelperOK' /\ CoreOK' BY <1>1, Kept DEF net
<1>3. pc \in Trying \ {"attempt"} BY <1>1 DEF Trying
<1>n. n \in Id BY Numbers
<1>4. CASE /\ Good /\ pc' = "fd" /\ sid' = n
           /\ inbox' = Append(inbox, Req("fd", n)) /\ unread' = Tail(unread)
           /\ UNCHANGED <<late, app, work, told>>
  <2>1. WorkOK' BY <1>3, <1>4, MovesOn DEF Trying
  <2>2. SuperOK' BY <1>1, <1>4, <1>n DEF Shape, SuperOK
  <2>3. Req("fd", n) \in Request BY <1>n DEF Req, Request
  <2>4. inbox' \in Seq(Request) BY <1>4, <2>3 DEF Shape, ConnOK
  <2>5. ConnOK' BY <1>1, <1>4, <2>4, Read
  <2>6. ToldOK' BY <1>4, Kept
  <2>. QED BY <1>2, <2>1, <2>2, <2>5, <2>6 DEF Shape
<1>5. CASE /\ Answer.resp = "conflict" /\ pc = "up" /\ pc' = "heal"
           /\ DropAndSend("restore", None) /\ UNCHANGED <<app, work, sid, told>>
  <2>1. WorkOK' BY <1>3, <1>5, MovesOn DEF Trying
  <2>2. SuperOK' BY <1>1, <1>5 DEF Shape, SuperOK
  <2>3. ConnOK' BY <1>5, DropAndSendType, Numbers
  <2>4. ToldOK' BY <1>5, Kept
  <2>. QED BY <1>2, <2>1, <2>2, <2>3, <2>4 DEF Shape
<1>6. CASE Drop /\ NextOrFail /\ UNCHANGED sid
  <2>1. WorkOK' /\ ToldOK' BY <1>3, <1>6, NextOrFailType
  <2>2. SuperOK' BY <1>1, <1>6 DEF Shape, SuperOK
  <2>3. ConnOK' BY <1>6, DropType
  <2>. QED BY <1>2, <2>1, <2>2, <2>3 DEF Shape
<1>. QED BY <1>4, <1>5, <1>6 DEF UpAnswered

LEMMA HealedShape == ASSUME Shape, Healed PROVE Shape'
<1>1. pc = "heal" /\ unread # <<>> /\ UNCHANGED <<super, helper, net, core, watch, used>>
  BY DEF Healed
<1>2. SuperOK' /\ HelperOK' /\ CoreOK' BY <1>1, Kept DEF net
<1>3. pc \in Trying \ {"attempt"} BY <1>1 DEF Trying
<1>4. CASE /\ Good /\ pc' = "up2"
           /\ inbox' = Append(inbox, Req("up", n)) /\ unread' = Tail(unread)
           /\ UNCHANGED <<late, app, work, told>>
  <2>1. WorkOK' BY <1>3, <1>4, MovesOn DEF Trying
  <2>3. Req("up", n) \in Request BY Numbers DEF Req, Request
  <2>4. inbox' \in Seq(Request) BY <1>4, <2>3 DEF Shape, ConnOK
  <2>5. ConnOK' BY <1>1, <1>4, <2>4, Read
  <2>6. ToldOK' BY <1>4, Kept
  <2>. QED BY <1>2, <2>1, <2>5, <2>6 DEF Shape
<1>5. CASE ~Good /\ Drop /\ NextOrFail
  <2>1. WorkOK' /\ ToldOK' BY <1>3, <1>5, NextOrFailType
  <2>3. ConnOK' BY <1>5, DropType
  <2>. QED BY <1>2, <2>1, <2>3 DEF Shape
<1>. QED BY <1>4, <1>5 DEF Healed

LEMMA TakeType ==
    ASSUME Shape, unread # <<>>, Take PROVE ConnOK'
<1>1. unread' = Tail(unread) /\ UNCHANGED <<inbox, late>> BY DEF Take
<1>2. inbox' \in Seq(Request) BY <1>1 DEF Shape, ConnOK
<1>. QED BY <1>1, <1>2, Read

LEMMA FdAnsweredShape == ASSUME Shape, FdAnswered PROVE Shape'
<1>1. pc = "fd" /\ unread # <<>> /\ UNCHANGED <<proc, sid, helper, net, core, watch, used>>
  BY DEF FdAnswered
<1>2. HelperOK' /\ CoreOK' BY <1>1, Kept DEF net
<1>3. pc \in Trying \ {"attempt"} BY <1>1 DEF Trying
<1>4. CASE /\ Answer.resp = "fd" /\ tunFd' = Answer.id /\ fds' = fds \cup {Answer.id}
           /\ unread' = Tail(Tail(unread)) /\ pc' = "spawn"
           /\ UNCHANGED <<inbox, late, app, work, told>>
  <2>1. WorkOK' BY <1>3, <1>4, MovesOn DEF Trying
  <2>2. Answer.id \in Id BY <1>1, FirstFrame DEF Response
  <2>3. SuperOK' BY <1>1, <1>4, <2>2 DEF Shape, SuperOK
  <2>4. ConnOK' BY <1>1, <1>4, ReadBoth
  <2>5. ToldOK' BY <1>4, Kept
  <2>. QED BY <1>2, <2>1, <2>3, <2>4, <2>5 DEF Shape
<1>5. CASE Answer.resp # "fd" /\ Take /\ NextOrFail /\ UNCHANGED <<tunFd, fds>>
  <2>1. WorkOK' /\ ToldOK' BY <1>3, <1>5, NextOrFailType
  <2>2. SuperOK' BY <1>1, <1>5 DEF Shape, SuperOK
  <2>3. ConnOK' BY <1>1, <1>5, TakeType
  <2>. QED BY <1>2, <2>1, <2>2, <2>3 DEF Shape
<1>. QED BY <1>4, <1>5 DEF FdAnswered

LEMMA SpawnCoreShape == ASSUME Shape, SpawnCore PROVE Shape'
<1>1. /\ pc = "spawn" /\ pc' = "ready"
      /\ cores' = cores \cup {n} /\ coreTun' = [coreTun EXCEPT ![n] = tunFd]
      /\ UNCHANGED <<app, work, super, told, conn, helper, net, watch, used>>
  BY DEF SpawnCore
<1>2. n \in Attempt BY <1>1, Numbers DEF Trying
<1>3. WorkOK' BY <1>1, MovesOn DEF Trying
<1>4. CoreOK' BY <1>1, <1>2 DEF Shape, CoreOK, SuperOK, net
<1>5. SuperOK' /\ ToldOK' /\ ConnOK' /\ HelperOK' BY <1>1, Kept DEF net
<1>. QED BY <1>3, <1>4, <1>5 DEF Shape

LEMMA ForwardShape == ASSUME Shape, Ready \/ PassGate \/ StillReachable PROVE Shape'
<1>1. /\ pc \in {"ready", "gate", "recheck"} /\ pc' \in {"gate", "success", "commit"}
      /\ Send("commit", sid) \/ UNCHANGED conn
      /\ UNCHANGED <<app, work, super, told, helper, net, core, watch, used>>
  BY DEF Ready, PassGate, StillReachable
<1>2. WorkOK' BY <1>1, MovesOn DEF Trying
<1>3. sid \in Id BY DEF Shape, SuperOK
<1>4. ConnOK' BY <1>1, <1>3, SendType, Kept
<1>5. SuperOK' /\ ToldOK' /\ HelperOK' /\ CoreOK' BY <1>1, Kept DEF net
<1>. QED BY <1>2, <1>4, <1>5 DEF Shape

LEMMA GiveUpShape == ASSUME Shape, GiveUp PROVE Shape'
<1>1. /\ pc \in {"ready", "gate", "recheck"} /\ pc' = "undo"
      /\ Spend("step") \/ UNCHANGED used
      /\ cores' = cores \ {n} /\ Sweep(Held(hfd, fds, cores \ {n}))
      /\ UNCHANGED <<app, work, super, told, conn, helper, resolver, coreTun, watch>>
  BY DEF GiveUp
<1>2. WorkOK' BY <1>1, MovesOn DEF Trying
<1>3. used' \in [Bounded -> Nat] BY <1>1, SpendType DEF Bounded, Shape, CoreOK
<1>4. CoreOK' BY <1>1, <1>3, CoreDown DEF Shape, CoreOK
<1>5. SuperOK' /\ ToldOK' /\ ConnOK' /\ HelperOK' BY <1>1, Kept
<1>. QED BY <1>2, <1>4, <1>5 DEF Shape

LEMMA CommitAnsweredShape == ASSUME Shape, CommitAnswered PROVE Shape'
<1>1. /\ pc = "commit" /\ unread # <<>> /\ pc' \in {"recheck", "undo"}
      /\ UNCHANGED <<app, work, super, told, helper, resolver, coreTun, watch, used>>
  BY DEF CommitAnswered
<1>2. WorkOK' BY <1>1, MovesOn DEF Trying
<1>3. SuperOK' /\ ToldOK' /\ HelperOK' BY <1>1, Kept
<1>4. CASE Take /\ UNCHANGED <<cores, routes>>
  BY <1>1, <1>2, <1>3, <1>4, Kept, TakeType DEF Shape, core
<1>5. CASE Drop /\ cores' = cores \ {n} /\ Sweep(Held(hfd, fds, cores \ {n}))
  <2>1. CoreOK' BY <1>1, <1>5, CoreDown DEF Shape, CoreOK
  <2>. QED BY <1>2, <1>3, <1>5, <2>1, DropType DEF Shape
<1>. QED BY <1>4, <1>5 DEF CommitAnswered

LEMMA StartedShape == ASSUME Shape, Started PROVE Shape'
<1>1. /\ pc = "success" /\ pc' = "idle" /\ tries' = 0 /\ proc' = n
      /\ Owe(Update("connected", n, sid))
      /\ UNCHANGED <<app, mode, n, sid, tunFd, fds, conn, helper, net, core, watch, used>>
  BY DEF Started
<1>2. n \in Attempt /\ n \in Id /\ n # None BY <1>1, Numbers DEF Trying, Attempt, None
<1>3. WorkOK' BY <1>1, Numbers DEF Shape, WorkOK, AttemptOK, Trying
<1>4. SuperOK' BY <1>1, <1>2 DEF Shape, SuperOK
<1>5. Update("connected", n, sid) \in UpdateRec /\ Update("connected", n, sid).pid # None
  BY <1>2 DEF Update, UpdateRec, Claim, Shape, SuperOK
<1>6. ToldOK' BY <1>1, <1>5, OweType
<1>7. ConnOK' /\ HelperOK' /\ CoreOK' BY <1>1, Kept DEF net
<1>. QED BY <1>3, <1>4, <1>6, <1>7 DEF Shape

LEMMA AttemptingShape == ASSUME Shape, Attempting PROVE Shape'
  BY StartAttemptShape, RefusedEarlyShape, UpAnsweredShape, HealedShape, FdAnsweredShape,
     SpawnCoreShape, ForwardShape, GiveUpShape, CommitAnsweredShape, StartedShape
  DEF Attempting

LEMMA RollbackAsksShape == ASSUME Shape, RollbackAsks PROVE Shape'
<1>1. /\ pc \in {"undo", "stop"} /\ sid' = None /\ Send("down", sid)
      /\ pc' = (IF pc = "undo" THEN "undowait" ELSE "stopwait")
      /\ UNCHANGED <<app, work, proc, tunFd, fds, told, helper, net, core, watch, used>>
  BY DEF RollbackAsks
<1>2. WorkOK'
  <2>1. CASE pc = "undo" BY <1>1, <2>1, MovesOn DEF Trying
  <2>2. CASE pc = "stop" BY <1>1, <2>2, MovesOn DEF Elsewhere
  <2>. QED BY <1>1, <2>1, <2>2
<1>3. SuperOK' BY <1>1, Numbers DEF Shape, SuperOK
<1>4. ConnOK' BY <1>1, SendType DEF Shape, SuperOK
<1>5. ToldOK' /\ HelperOK' /\ CoreOK' BY <1>1, Kept DEF net
<1>. QED BY <1>2, <1>3, <1>4, <1>5 DEF Shape

LEMMA UndoEndsShape == ASSUME Shape, UndoEnds PROVE Shape'
<1>1. /\ pc \in {"undo", "undowait"} /\ NextOrFail
      /\ UNCHANGED <<proc, sid, helper, resolver, core, watch, used>>
      /\ \/ CloseFd /\ UNCHANGED conn
         \/ unread # <<>> /\ Take /\ CloseFd
         \/ Drop /\ UNCHANGED <<tunFd, fds, routes>>
  BY DEF UndoEnds
<1>2. WorkOK' /\ ToldOK' BY <1>1, NextOrFailType DEF Trying
<1>3. HelperOK' BY <1>1, Kept
<1>4. ConnOK' BY <1>1, Kept, TakeType, DropType
<1>5. SuperOK' /\ routes' \in Id
  <2>1. CASE CloseFd BY <1>1, <2>1, CloseFdType
  <2>2. CASE UNCHANGED <<tunFd, fds, routes>>
    BY <1>1, <2>2 DEF Shape, SuperOK, CoreOK
  <2>. QED BY <1>1, <2>1, <2>2
<1>6. CoreOK' BY <1>1, <1>5 DEF Shape, CoreOK, core
<1>. QED BY <1>2, <1>3, <1>4, <1>5, <1>6 DEF Shape

LEMMA StopShape == ASSUME Shape, Stop PROVE Shape'
<1>1. /\ pc' = "stop" /\ cores' = cores \ {proc} /\ proc' = None
      /\ Sweep(Held(hfd, fds, cores \ {proc}))
      /\ UNCHANGED <<app, work, sid, tunFd, fds, told, conn, helper, resolver, coreTun, watch, used>>
  BY DEF Stop
<1>2. WorkOK' BY <1>1, MovesOn DEF Elsewhere
<1>3. SuperOK' BY <1>1, Numbers DEF Shape, SuperOK
<1>4. CoreOK' BY <1>1, CoreDown DEF Shape, CoreOK
<1>5. ToldOK' /\ ConnOK' /\ HelperOK' BY <1>1, Kept
<1>. QED BY <1>2, <1>3, <1>4, <1>5 DEF Shape

LEMMA StoppedType ==
    ASSUME Shape, \/ Owe(Update("rolled back", None, None))
                  \/ Owe(Update("unconfirmed", None, None))
    PROVE  ToldOK'
<1>1. ASSUME NEW what \in {"rolled back", "unconfirmed"}
      PROVE  Update(what, None, None) \in UpdateRec /\ Update(what, None, None).what # "connected"
  BY DEF Update, UpdateRec, Claim, Id
<1>. QED BY <1>1, OweType

LEMMA StopEndsShape == ASSUME Shape, StopEnds PROVE Shape'
<1>1. /\ pc' = "idle"
      /\ UNCHANGED <<app, work, proc, sid, helper, resolver, core, watch, used>>
      /\ \/ Owe(Update("rolled back", None, None))
         \/ Owe(Update("unconfirmed", None, None))
      /\ UNCHANGED conn \/ (unread # <<>> /\ Take) \/ Drop
      /\ CloseFd \/ UNCHANGED <<tunFd, fds, routes>>
  BY DEF StopEnds
<1>2. WorkOK' BY <1>1, MovesOn DEF Elsewhere
<1>3. ToldOK' BY <1>1, StoppedType
<1>4. HelperOK' BY <1>1, Kept
<1>5. ConnOK' BY <1>1, Kept, TakeType, DropType
<1>6. SuperOK' /\ routes' \in Id
  <2>1. CASE CloseFd BY <1>1, <2>1, CloseFdType
  <2>2. CASE UNCHANGED <<tunFd, fds, routes>>
    BY <1>1, <2>2 DEF Shape, SuperOK, CoreOK
  <2>. QED BY <1>1, <2>1, <2>2
<1>7. CoreOK' BY <1>1, <1>6 DEF Shape, CoreOK, core
<1>. QED BY <1>2, <1>3, <1>4, <1>5, <1>6, <1>7 DEF Shape

LEMMA TimesOutShape == ASSUME Shape, TimesOut PROVE Shape'
<1>1. Spend("late") /\ UNCHANGED <<super, helper, resolver, coreTun, watch>>
  BY DEF TimesOut
<1>2. SuperOK' /\ HelperOK' BY <1>1, Kept
<1>3. used' \in [Bounded -> Nat] BY <1>1, SpendType DEF Bounded
<1>4. UNCHANGED <<cores, routes>> => CoreOK' BY <1>1, <1>3 DEF Shape, CoreOK
<1>5. Drop => ConnOK' BY DropType
<1>6. CASE pc = "fd" /\ NextOrFail /\ UNCHANGED <<conn, cores, routes>>
  BY <1>2, <1>4, <1>6, NextOrFailType, Kept DEF Shape, Trying
<1>7. CASE /\ pc \in {"up", "heal", "up2", "undowait"}
           /\ Drop /\ NextOrFail /\ UNCHANGED <<cores, routes>>
  BY <1>2, <1>4, <1>5, <1>7, NextOrFailType DEF Shape, Trying
<1>8. CASE /\ pc = "commit" /\ Drop /\ pc' = "undo" /\ UNCHANGED <<app, work, told>>
           /\ cores' = cores \ {n} /\ Sweep(Held(hfd, fds, cores \ {n}))
  <2>1. WorkOK' BY <1>8, MovesOn DEF Trying
  <2>2. CoreOK' BY <1>1, <1>3, <1>8, CoreDown DEF Shape, CoreOK
  <2>. QED BY <1>2, <1>5, <1>8, <2>1, <2>2, Kept DEF Shape
<1>9. CASE /\ Drop /\ pc' \in {"idle", "exit"} /\ UNCHANGED <<app, work, cores, routes>>
           /\ Owe(Update("unconfirmed", None, None)) \/ UNCHANGED told
  <2>1. WorkOK' BY <1>9, MovesOn DEF Elsewhere
  <2>2. ToldOK' BY <1>9, StoppedType, Kept
  <2>. QED BY <1>2, <1>4, <1>5, <1>9, <2>1, <2>2 DEF Shape
<1>. QED BY <1>6, <1>7, <1>8, <1>9 DEF TimesOut

LEMMA WaitShape ==
    ASSUME Shape, Repair \/ RepairEnds \/ LeaveAnswered \/ Quit PROVE Shape'
<1>1. /\ pc' \in Elsewhere /\ UNCHANGED <<app, work, super, told, helper, net, core, watch>>
      /\ Spend("repair") \/ Spend("exit") \/ UNCHANGED used
      /\ Send("restore", None) \/ (unread # <<>> /\ Take) \/ Drop
  BY DEF Repair, RepairEnds, LeaveAnswered, Quit, Elsewhere
<1>2. WorkOK' BY <1>1, MovesOn
<1>3. used' \in [Bounded -> Nat] BY <1>1, SpendType DEF Bounded, Shape, CoreOK
<1>4. CoreOK' BY <1>1, <1>3 DEF Shape, CoreOK, core, net
<1>5. ConnOK' BY <1>1, SendType, TakeType, DropType, Numbers
<1>6. SuperOK' /\ ToldOK' /\ HelperOK' BY <1>1, Kept DEF net
<1>. QED BY <1>2, <1>4, <1>5, <1>6 DEF Shape

LEMMA CrashShape == ASSUME Shape, Crash PROVE Shape'
<1>1. /\ Spend("exit") /\ pc' = "exit" /\ Drop /\ shown' = Stopped
      /\ UNCHANGED <<app, work, super, claim, updates, overlap, helper, net, core, watch>>
  BY DEF Crash
<1>2. WorkOK' BY <1>1, MovesOn DEF Elsewhere
<1>3. used' \in [Bounded -> Nat] BY <1>1, SpendType DEF Bounded
<1>4. CoreOK' BY <1>1, <1>3 DEF Shape, CoreOK, core, net
<1>5. ToldOK' BY <1>1, Numbers DEF Shape, ToldOK, Stopped
<1>6. SuperOK' /\ HelperOK' BY <1>1, Kept DEF net
<1>. QED BY <1>1, <1>2, <1>4, <1>5, <1>6, DropType DEF Shape

LEMMA ExitShape == ASSUME Shape, Exit PROVE Shape'
<1>1. /\ app' = "off" /\ pc' = "idle" /\ tries' = 0
      /\ cores' = cores \ {shown.pid} /\ Sweep(Held(hfd, {}, cores \ {shown.pid}))
      /\ proc' = None /\ sid' = None /\ tunFd' = None /\ fds' = {}
      /\ shown' = Stopped /\ claim' = "none" /\ watch' = {} /\ updates' = <<>>
      /\ UNCHANGED <<mode, n, overlap, conn, helper, resolver, coreTun, used>>
  BY DEF Exit
<1>2. WorkOK' BY <1>1, Numbers DEF Shape, WorkOK, AttemptOK, Trying
<1>3. SuperOK' BY <1>1, Numbers DEF SuperOK
<1>4. ToldOK' BY <1>1, Numbers DEF Shape, ToldOK, Stopped
<1>5. CoreOK' BY <1>1, CoreDown DEF Shape, CoreOK
<1>6. ConnOK' /\ HelperOK' BY <1>1, Kept
<1>. QED BY <1>2, <1>3, <1>4, <1>5, <1>6 DEF Shape

LEMMA LaunchShape == ASSUME Shape, Launch PROVE Shape'
<1>1. /\ app' = "on" /\ (pc' = "boot" \/ pc' = pc)
      /\ Send("restore", None) \/ UNCHANGED conn
      /\ UNCHANGED <<work, super, told, helper, net, core, watch, used>>
  BY DEF Launch
<1>2. WorkOK'
  <2>1. UNCHANGED <<mode, tries, n>> BY <1>1 DEF work
  <2>2. AttemptOK' BY <1>1, <2>1 DEF Shape, WorkOK, AttemptOK, Trying
  <2>. QED BY <1>1, <2>1, <2>2 DEF Shape, WorkOK, Waiting
<1>3. ConnOK' BY <1>1, SendType, Kept, Numbers
<1>4. SuperOK' /\ ToldOK' /\ HelperOK' /\ CoreOK' BY <1>1, Kept DEF net
<1>. QED BY <1>2, <1>3, <1>4 DEF Shape

LEMMA CoreEndsShape ==
    ASSUME Shape, NEW p \in Attempt, CoreDies(p) \/ OutputEnds(p) PROVE Shape'
<1>1. CASE CoreDies(p)
  <2>1. /\ Spend("die") /\ cores' = cores \ {p} /\ Sweep(Held(hfd, fds, cores \ {p}))
        /\ UNCHANGED <<app, pc, work, super, told, conn, helper, resolver, coreTun, watch>>
    BY <1>1 DEF CoreDies
  <2>2. used' \in [Bounded -> Nat] BY <2>1, SpendType DEF Bounded
  <2>3. CoreOK' BY <2>1, <2>2, CoreDown DEF Shape, CoreOK
  <2>. QED BY <2>1, <2>3, Kept DEF Shape
<1>2. CASE OutputEnds(p)
  <2>1. /\ watch' = watch \ {p} /\ (Owe(Update("ended", p, None)) \/ UNCHANGED told)
        /\ UNCHANGED <<app, pc, work, super, conn, helper, net, core, used>>
    BY <1>2 DEF OutputEnds
  <2>2. Update("ended", p, None) \in UpdateRec /\ Update("ended", p, None).what = "ended"
    BY DEF Update, UpdateRec, Id
  <2>3. ToldOK' BY <2>1, <2>2, OweType, Kept
  <2>4. UNCHANGED <<routes, resolver, cores, coreTun>> BY <2>1 DEF core, net
  <2>5. watch' \in SUBSET Attempt BY <2>1 DEF Shape, CoreOK
  <2>6. CoreOK' BY <2>1, <2>4, <2>5 DEF Shape, CoreOK
  <2>. QED BY <2>1, <2>3, <2>4, <2>6, Kept DEF Shape
<1>. QED BY <1>1, <1>2

(* Writing one update leaves the others.                                   *)
LEMMA OneLess ==
    ASSUME Shape, NEW i \in DOMAIN updates,
           updates' = [k \in 1 .. Len(updates) - 1 |-> updates[IF k < i THEN k ELSE k + 1]]
    PROVE  /\ updates' \in Seq(UpdateRec) /\ Len(updates') = Len(updates) - 1
           /\ \A k \in 1 .. Len(updates') :
                \E j \in 1 .. Len(updates) : j # i /\ updates'[k] = updates[j]
<1>1. /\ updates \in Seq(UpdateRec) /\ i \in 1 .. Len(updates) /\ Len(updates) \in Nat
      /\ \A k \in 1 .. Len(updates) : updates[k] \in UpdateRec
  BY DEF Shape, ToldOK
<1>2. DEFINE j(k) == IF k < i THEN k ELSE k + 1
<1>3. \A k \in 1 .. Len(updates) - 1 : j(k) \in 1 .. Len(updates) /\ j(k) # i
  BY <1>1
<1>4. Len(updates) - 1 \in Nat BY <1>1
<1>5. updates' = [k \in 1 .. Len(updates) - 1 |-> updates[j(k)]] OBVIOUS
<1>. HIDE DEF j
<1>6. updates' \in Seq(UpdateRec) /\ Len(updates') = Len(updates) - 1
  BY <1>1, <1>3, <1>4, <1>5
<1>7. \A k \in 1 .. Len(updates) - 1 : updates'[k] = updates[j(k)] BY <1>5
<1>. QED BY <1>3, <1>6, <1>7

LEMMA PublishShape == ASSUME Shape, Publish PROVE Shape'
<1>1. UNCHANGED <<app, pc, work, super, overlap, conn, helper, net, core, used>> BY DEF Publish
<1>2. PICK i \in DOMAIN updates :
         /\ shown' = Shows(updates[i])
         /\ claim' = (IF updates[i].what = "ended" THEN claim ELSE updates[i].what)
         /\ watch' = (IF updates[i].what = "connected" THEN watch \cup {updates[i].pid} ELSE watch)
         /\ updates' = [k \in 1 .. Len(updates) - 1 |-> updates[IF k < i THEN k ELSE k + 1]]
  BY DEF Publish
<1>3. /\ updates[i] \in UpdateRec
      /\ updates[i].what = "connected" => updates[i].pid # None
  BY DEF Shape, ToldOK
<1>4. Shows(updates[i]) \in [running : BOOLEAN, pid : Id, sid : Id]
  BY <1>3, Numbers DEF Shape, ToldOK, Shows, Stopped, UpdateRec
<1>5. claim' \in Claim \cup {"none"} BY <1>2, <1>3 DEF Shape, ToldOK, UpdateRec
<1>6. \A k \in 1 .. Len(updates') : updates'[k].what = "connected" => updates'[k].pid # None
  BY <1>2, OneLess DEF Shape, ToldOK
<1>7. updates' \in Seq(UpdateRec) BY <1>2, OneLess
<1>8. ToldOK' BY <1>1, <1>2, <1>4, <1>5, <1>6, <1>7 DEF Shape, ToldOK
<1>9. watch' \in SUBSET Attempt
  BY <1>2, <1>3 DEF Shape, CoreOK, UpdateRec, Id
<1>10. CoreOK' BY <1>1, <1>9 DEF Shape, CoreOK, core, net
<1>. QED BY <1>1, <1>8, <1>10, Kept DEF Shape, net

LEMMA ServesShape == ASSUME Shape, HelperServes \/ HelperServesLate PROVE Shape'
<1>1. CASE HelperServes
  <2>1. PICK resp \in {"ok", "conflict", "error", "fd"} :
           Serve(Head(inbox), resp) /\ unread' = unread \o Frames(resp, Head(inbox).id)
    BY <1>1 DEF HelperServes
  <2>2. /\ inbox # <<>> /\ inbox' = Tail(inbox)
        /\ UNCHANGED <<app, pc, work, super, told, late, core, watch>>
    BY <1>1 DEF HelperServes
  <2>3. Head(inbox) \in Request /\ Head(inbox).id \in Id /\ inbox' \in Seq(Request)
    <3>1. Head(inbox) \in Request /\ Tail(inbox) \in Seq(Request)
      BY <2>2 DEF Shape, ConnOK
    <3>. QED BY <2>2, <3>1 DEF Request
  <2>4. HelperOK' /\ routes' \in Id /\ used' \in [Bounded -> Nat] BY <2>1, <2>3, ServeType
  <2>5. unread' \in Seq(Response) /\ Announced' BY <2>1, <2>3, AnsweredType
  <2>6. ConnOK' BY <2>2, <2>3, <2>5 DEF Shape, ConnOK, late
  <2>7. CoreOK' BY <2>2, <2>4 DEF Shape, CoreOK, core
  <2>. QED BY <2>2, <2>4, <2>6, <2>7, Kept DEF Shape
<1>2. CASE HelperServesLate
  <2>1. PICK q \in orphans, resp \in {"ok", "conflict", "error", "fd"} :
           /\ Serve(Head(q), resp)
           /\ orphans' = (orphans \ {q}) \cup (IF Len(q) = 1 THEN {} ELSE {Tail(q)})
    BY <1>2 DEF HelperServesLate
  <2>2. UNCHANGED <<app, pc, work, super, told, inbox, unread, stray, core, watch>>
    BY <1>2 DEF HelperServesLate
  <2>3. q \in Seq(Request) /\ q # <<>> BY DEF Shape, ConnOK
  <2>4. Head(q) \in Request /\ Tail(q) \in Seq(Request) /\ Len(Tail(q)) = Len(q) - 1 /\ Len(q) \in Nat
    BY <2>3
  <2>5. Len(q) # 1 => Tail(q) # <<>>
    <3>. DEFINE t == Tail(q)
    <3>1. Len(t) = Len(q) - 1 /\ Len(q) \in Nat BY <2>4
    <3>. HIDE DEF t
    <3>2. Len(q) # 1 => Len(t) # 0 BY <3>1
    <3>3. Len(q) # 1 => t # <<>> BY <3>2
    <3>. QED BY <3>3 DEF t
  <2>6. HelperOK' /\ routes' \in Id /\ used' \in [Bounded -> Nat] BY <2>1, <2>4, ServeType
  <2>7. orphans' \in SUBSET Seq(Request) /\ <<>> \notin orphans'
    BY <2>1, <2>4, <2>5 DEF Shape, ConnOK
  <2>8. ConnOK' BY <2>2, <2>7 DEF Shape, ConnOK, Announced
  <2>9. CoreOK' BY <2>2, <2>6 DEF Shape, CoreOK, core
  <2>. QED BY <2>2, <2>6, <2>8, <2>9, Kept DEF Shape
<1>. QED BY <1>1, <1>2

LEMMA StutterShape == ASSUME Shape, UNCHANGED vars PROVE Shape'
<1>1. UNCHANGED <<app, pc, work, super, told, conn, helper, net, core, watch, used>>
  BY DEF vars
<1>. QED BY <1>1, Kept DEF Shape, net

LEMMA StepShape == ASSUME Shape, [Next]_vars PROVE Shape'
<1>1. CASE User
  BY <1>1, StopShape, WaitShape, CrashShape, LaunchShape, BeginShape DEF User
<1>2. CASE Ending
  BY <1>2, RollbackAsksShape, UndoEndsShape, StopEndsShape, WaitShape, ExitShape DEF Ending
<1>. QED
  BY <1>1, <1>2, AttemptingShape, PublishShape, TimesOutShape, ServesShape, CoreEndsShape,
     StutterShape
  DEF Next

LEMMA InitShape == ASSUME Init PROVE Shape
<1>1. MaxTry \in Nat /\ MaxAttempt \in Nat BY LimitsAssumption
<1>2. None \in Id BY DEF Id
<1>3. WorkOK /\ SuperOK /\ HelperOK BY <1>1, <1>2 DEF Init, WorkOK, AttemptOK, Trying, SuperOK, HelperOK
<1>4. ToldOK
  <2>1. updates = <<>> /\ Len(updates) = 0 BY DEF Init
  <2>2. updates \in Seq(UpdateRec) BY <2>1
  <2>3. \A i \in 1 .. Len(updates) : updates[i].what = "connected" => updates[i].pid # None
    BY <2>1
  <2>. QED BY <1>2, <2>2, <2>3 DEF Init, ToldOK, Stopped
<1>6. ConnOK
  <2>1. unread = <<>> /\ inbox = <<>> /\ Len(unread) = 0 /\ orphans = {} /\ stray = FALSE
    BY DEF Init
  <2>2. unread \in Seq(Response) /\ inbox \in Seq(Request) BY <2>1
  <2>3. Announced BY <2>1 DEF Announced
  <2>4. orphans \in SUBSET Seq(Request) /\ <<>> \notin orphans BY <2>1
  <2>. QED BY <2>1, <2>2, <2>3, <2>4 DEF ConnOK
<1>5. CoreOK BY <1>2 DEF Init, CoreOK
<1>. QED BY <1>3, <1>4, <1>5, <1>6 DEF Shape

LEMMA ShapeStays == Spec => []Shape
<1>1. Init => Shape BY InitShape
<1>2. Shape /\ [Next]_vars => Shape' BY StepShape
<1>. QED BY <1>1, <1>2, PTL DEF Spec

(* Every variable stays in its range, for any number of attempts, of       *)
(* candidates and of troubles (TypeOK).                                    *)
THEOREM TypeCorrect == Spec => []TypeOK
  BY ShapeStays, ShapeIsTypeOK, PTL

------------------------------------------------------------------------------
(* A core that runs is the one that is shown.  While a start or a stop is  *)
(* under way the supervisor runs no core; one it does run is shown, or the *)
(* only update still to be written is the one that will show it.           *)
Busy == Trying \cup {"stop", "stopwait"}

Known ==
    (app = "on" /\ pc # "exit" /\ proc \in cores /\ ~overlap)
    => \/ updates = <<>> /\ shown.running /\ shown.pid = proc
       \/ Len(updates) = 1 /\ updates[1].what = "connected" /\ updates[1].pid = proc

RunOK ==
    /\ app = "off" => pc = "idle"
    /\ pc \in Busy \/ app = "off" => proc = None
    /\ Known

LEMMA NoneRuns ==
    ASSUME Shape', proc' = None, app' = "on" \/ pc' = "idle" PROVE RunOK'
<1>1. proc' \notin cores' BY DEF Shape, CoreOK, Attempt, None
<1>2. app' \in {"on", "off"} BY DEF Shape, WorkOK
<1>. QED BY <1>1, <1>2 DEF RunOK, Known

LEMMA Quiet ==
    ASSUME RunOK, Shape, UNCHANGED <<app, shown, updates, overlap, proc>>, cores' \subseteq cores,
           app = "on", pc' \in Busy => pc \in Busy, pc = "exit" => pc' = "exit"
    PROVE  RunOK'
  BY DEF RunOK, Known

LEMMA AttemptingRuns ==
    ASSUME Shape, RunOK, Attempting, Shape' PROVE RunOK'
<1>1. pc \in Trying /\ app = "on" /\ proc = None
  <2>1. pc \in Trying
    BY DEF Attempting, StartAttempt, RefusedEarly, UpAnswered, Healed, FdAnswered, SpawnCore,
           SpawnFails, Ready, PassGate, GiveUp, CommitAnswered, StillReachable, Started, Trying
  <2>. QED BY <2>1 DEF RunOK, Busy, Trying, Shape, WorkOK
<1>2. CASE Started
  <2>1. /\ pc' = "idle" /\ proc' = n /\ Owe(Update("connected", n, sid)) /\ UNCHANGED app
    BY <1>2 DEF Started
  <2>2. ~overlap' => Len(updates') = 1 /\ updates'[1].what = "connected" /\ updates'[1].pid = n
    <3>. DEFINE u == Update("connected", n, sid)
    <3>1. u.what = "connected" /\ u.pid = n BY DEF Update
    <3>2. updates' = Append(updates, u) /\ overlap' = (overlap \/ updates # <<>>)
      BY <2>1 DEF Owe
    <3>. HIDE DEF u
    <3>3. ~overlap' => updates = <<>> BY <3>2
    <3>4. updates = <<>> => Len(updates') = 1 /\ updates'[1] = u BY <3>2
    <3>. QED BY <3>1, <3>3, <3>4
  <2>. QED BY <1>1, <2>1, <2>2 DEF RunOK, Known, Busy, Trying
<1>3. CASE ~Started
  <2>1. UNCHANGED <<app, proc>>
    BY <1>3 DEF Attempting, StartAttempt, RefusedEarly, UpAnswered, Healed, FdAnswered, SpawnCore,
           SpawnFails, Ready, PassGate, GiveUp, CommitAnswered, StillReachable, NextOrFail, super
  <2>. QED BY <1>1, <2>1, NoneRuns
<1>. QED BY <1>2, <1>3

LEMMA EndingRuns ==
    ASSUME Shape, RunOK, Ending, Shape' PROVE RunOK'
<1>1. CASE RollbackAsks \/ UndoEnds \/ StopEnds
  <2>1. pc \in Busy /\ UNCHANGED <<app, proc>>
    BY <1>1 DEF RollbackAsks, UndoEnds, StopEnds, Busy, Trying, NextOrFail
  <2>2. app = "on" /\ proc = None
    BY <2>1 DEF RunOK, Busy, Trying, Shape, WorkOK
  <2>. QED BY <2>1, <2>2, NoneRuns
<1>2. CASE RepairEnds \/ LeaveAnswered
  <2>1. /\ pc \in {"repair", "boot", "leave"} /\ pc' \in {"idle", "exit"}
        /\ UNCHANGED <<app, shown, updates, overlap, proc, cores>>
    BY <1>2 DEF RepairEnds, LeaveAnswered, super, told, core
  <2>2. app = "on" BY <2>1 DEF RunOK, Shape, WorkOK
  <2>. QED BY <2>1, <2>2, Quiet DEF Busy, Trying
<1>3. CASE Exit
  <2>1. app' = "off" /\ pc' = "idle" /\ proc' = None BY <1>3 DEF Exit
  <2>. QED BY <2>1, NoneRuns
<1>. QED BY <1>1, <1>2, <1>3 DEF Ending

LEMMA UserRuns ==
    ASSUME Shape, RunOK, User, Shape' PROVE RunOK'
<1>1. CASE Stop
  <2>1. app' = "on" /\ proc' = None BY <1>1 DEF Stop
  <2>. QED BY <2>1, NoneRuns
<1>2. CASE Repair \/ Quit
  <2>1. /\ app = "on" /\ pc # "exit" /\ pc' \in {"repair", "leave", "exit"}
        /\ UNCHANGED <<app, shown, updates, overlap, proc, cores>>
    BY <1>2 DEF Repair, Quit, super, told, core
  <2>. QED BY <2>1, Quiet DEF Busy, Trying
<1>3. CASE Crash
  <2>1. app' = "on" /\ pc' = "exit" BY <1>3 DEF Crash
  <2>. QED BY <2>1 DEF RunOK, Known, Busy, Trying
<1>4. CASE Launch
  <2>1. app' = "on" /\ proc' = None BY <1>4 DEF Launch, RunOK, super
  <2>. QED BY <2>1, NoneRuns
<1>5. ASSUME NEW m \in {"tun", "proxy"}, Begin(m) PROVE RunOK'
  <2>1. app = "on" /\ pc = "idle" /\ UNCHANGED <<app, shown, updates, overlap, cores>>
    BY <1>5 DEF Begin, core
  <2>2. CASE UNCHANGED <<pc, work, proc>> BY <2>1, <2>2, Quiet
  <2>3. CASE proc' = None BY <2>1, <2>3, NoneRuns
  <2>. QED BY <1>5, <2>2, <2>3 DEF Begin
<1>. QED BY <1>1, <1>2, <1>3, <1>4, <1>5 DEF User

LEMMA TimesOutRuns ==
    ASSUME Shape, RunOK, TimesOut, Shape' PROVE RunOK'
<1>1. UNCHANGED <<proc, app>>
  BY DEF TimesOut, super, NextOrFail
<1>2. pc # "idle" BY DEF TimesOut, Waiting
<1>3. app = "on" BY <1>2 DEF RunOK, Shape, WorkOK
<1>4. CASE pc \in Busy
  <2>1. proc = None BY <1>4 DEF RunOK
  <2>. QED BY <1>1, <1>3, <2>1, NoneRuns
<1>5. CASE pc \notin Busy
  <2>1. /\ pc \in {"repair", "boot", "leave"} /\ pc' \in {"idle", "exit"}
        /\ UNCHANGED <<shown, updates, overlap, cores>>
    BY <1>5 DEF TimesOut, Busy, Trying, told
  <2>. QED BY <1>1, <1>3, <2>1, Quiet DEF Busy, Trying
<1>. QED BY <1>4, <1>5

LEMMA CoreEndsRuns ==
    ASSUME Shape, RunOK, NEW p \in Attempt, CoreDies(p) \/ OutputEnds(p), Shape' PROVE RunOK'
<1>1. UNCHANGED <<app, pc, proc>> /\ cores' \subseteq cores
  BY DEF CoreDies, OutputEnds, super, core
<1>2. CASE UNCHANGED told BY <1>1, <1>2 DEF RunOK, Known, told
<1>3. CASE Owe(Update("ended", p, None)) /\ p \notin cores /\ shown.pid = p
  <2>1. ~overlap' => updates = <<>> /\ ~overlap BY <1>3 DEF Owe
  <2>2. updates = <<>> => Len(updates) # 1 OBVIOUS
  <2>. QED BY <1>1, <1>3, <2>1, <2>2 DEF RunOK, Known
<1>. QED BY <1>2, <1>3 DEF CoreDies, OutputEnds

LEMMA PublishRuns ==
    ASSUME Shape, RunOK, Publish, Shape' PROVE RunOK'
<1>1. UNCHANGED <<app, pc, proc, cores, overlap>> BY DEF Publish, super, core
<1>2. PICK i \in DOMAIN updates :
         /\ shown' = Shows(updates[i])
         /\ updates' = [k \in 1 .. Len(updates) - 1 |-> updates[IF k < i THEN k ELSE k + 1]]
  BY DEF Publish
<1>3. ASSUME app = "on", pc # "exit", proc \in cores, ~overlap
      PROVE  updates' = <<>> /\ shown'.running /\ shown'.pid = proc
  <2>1. updates \in Seq(UpdateRec) /\ i \in 1 .. Len(updates) BY DEF Shape, ToldOK
  <2>2. updates # <<>> BY <2>1
  <2>3. Len(updates) = 1 /\ updates[1].what = "connected" /\ updates[1].pid = proc
    BY <1>3, <2>2 DEF RunOK, Known
  <2>4. i = 1 BY <2>1, <2>3
  <2>5. shown' = [running |-> TRUE, pid |-> updates[1].pid, sid |-> updates[1].sid]
    BY <1>2, <2>3, <2>4 DEF Shows
  <2>6. updates' \in Seq(UpdateRec) /\ Len(updates') = 0 BY <1>2, <2>3, OneLess
  <2>7. updates' = <<>> BY <2>6
  <2>. QED BY <2>3, <2>5, <2>7
<1>. QED BY <1>1, <1>3 DEF RunOK, Known

LEMMA StepRuns ==
    ASSUME Shape, RunOK, [Next]_vars, Shape' PROVE RunOK'
<1>1. CASE HelperServes \/ HelperServesLate \/ UNCHANGED vars
  <2>1. UNCHANGED <<app, pc, proc, shown, updates, overlap, cores>>
    BY <1>1 DEF HelperServes, HelperServesLate, vars, super, told, core
  <2>. QED BY <2>1 DEF RunOK, Known
<1>. QED
  BY <1>1, AttemptingRuns, EndingRuns, UserRuns, TimesOutRuns, CoreEndsRuns, PublishRuns DEF Next

(* Once every command and task has written what it owes, a core the        *)
(* supervisor runs is the one that is shown (RunningIsShown).              *)
THEOREM ShownRuns == Spec => []RunningIsShown
<1>1. Init => RunOK BY DEF Init, RunOK, Known, Busy, Trying
<1>2. Shape /\ RunOK /\ [Next]_vars /\ Shape' => RunOK' BY StepRuns
<1>3. Shape /\ RunOK => RunningIsShown
  <2>1. ASSUME updates = <<>> PROVE Len(updates) # 1 BY <2>1
  <2>. QED BY <2>1 DEF RunOK, Known, RunningIsShown
<1>. QED BY <1>1, <1>2, <1>3, ShapeStays, PTL DEF Spec

------------------------------------------------------------------------------
(* A start owns its session.  No request of an earlier attempt that is     *)
(* still on its way can end the session a start has just raised: each such *)
(* request carries a lower number.  What is left on the stream when a      *)
(* command ends is nothing, a descriptor that was asked for, or an answer  *)
(* that makes the next command fail and drop the stream.                   *)
Targets == {"down", "commit"}

OwnPhase == {"up", "heal", "up2", "fd", "spawn", "ready", "gate"}

IdsBelow ==
    /\ sid <= n
    /\ \A q \in orphans \cup {inbox} : \A i \in 1 .. Len(q) :
         q[i].req \in Targets => q[i].id <= n /\ (pc \in OwnPhase => q[i].id < n)

OnlyTun == pc \in {"up", "heal", "up2", "fd", "gate", "commit", "recheck"} => mode = "tun"

NoRestore == \A q \in orphans : \A i \in 1 .. Len(q) : q[i].req # "restore"

(* Nothing on a dropped connection ends session s.                         *)
Safe(s) == \A q \in orphans : \A i \in 1 .. Len(q) : q[i].req \in Targets => q[i].id # s

Guarded == session # None /\ Safe(session)

(* The k-th answer read from now on is, or will be, a refusal.             *)
RefusedAt(k) ==
    \/ k \in 1 .. Len(unread) /\ unread[k].resp \notin {"ok", "fd"}
    \/ Len(unread) = k - 1 /\ Len(inbox) >= 1 /\ inbox[1].req = "up" /\ Guarded

Empty == Len(unread) = 0 /\ Len(inbox) = 0

FdAsked ==
    /\ Len(unread) = 0 /\ Len(inbox) >= 1
    /\ inbox[1].req = "fd" /\ inbox[1].id # None /\ Safe(inbox[1].id)

FdGiven == Len(unread) >= 2 /\ unread[1].resp = "fd" /\ unread[2].resp = "fdmsg"

FdDue ==
    \/ FdAsked /\ Len(inbox) = 1
    \/ FdGiven /\ Len(unread) = 2 /\ Len(inbox) = 0 /\ Guarded

Rest == Empty \/ FdDue \/ RefusedAt(1)

(* A command waits for its own answer, alone on the stream, or something   *)
(* of an earlier one comes first.                                          *)
OwnDue ==
    \/ /\ Len(unread) = 0 /\ Len(inbox) = 1 /\ inbox[1].req # "fd"
       /\ pc \in {"up", "up2"} => inbox[1] = Req("up", n)
    \/ /\ Len(unread) = 1 /\ Len(inbox) = 0
       /\ pc \in {"up", "up2"} /\ unread[1].resp \in {"ok", "fd"} => session = n

FdFirst == FdAsked /\ Len(inbox) = 2 /\ (pc = "up" => inbox[2].req = "up")

FdRead == FdGiven /\ (pc = "up" => RefusedAt(3))

AnswerDue == OwnDue \/ FdFirst \/ FdRead \/ RefusedAt(1)

Mine == session = n /\ sid = n

OwnFd ==
    /\ Mine
    /\ \/ Len(unread) = 0 /\ Len(inbox) = 1 /\ inbox[1] = Req("fd", n)
       \/ Len(unread) = 2 /\ Len(inbox) = 0 /\ unread[1] = [resp |-> "fd", id |-> n]

FdLost == Len(unread) >= 1 /\ unread[1].resp # "fd" /\ RefusedAt(2)

Stream ==
    /\ pc \in {"idle", "attempt", "stop"} => Rest
    /\ app = "off" \/ pc = "exit" => Empty
    /\ pc \in {"spawn", "ready", "gate", "recheck", "success", "undo"} =>
         IF mode = "tun" THEN Empty ELSE Rest
    /\ pc \in {"heal", "up2", "commit"} => OwnDue
    /\ pc \in {"up", "undowait", "stopwait", "repair", "boot"} => AnswerDue
    /\ pc = "fd" => OwnFd \/ FdLost
    /\ pc \in {"spawn", "ready", "gate"} /\ mode = "tun" => Mine /\ tunFd = n

OwnOK == IdsBelow /\ OnlyTun /\ (~stray => NoRestore /\ Stream)

------------------------------------------------------------------------------
(* The two queues, by index *)

LEMMA Sends ==
    ASSUME Shape, NEW r \in Request, inbox' = Append(inbox, r)
    PROVE  /\ Len(inbox) \in Nat /\ Len(inbox') = Len(inbox) + 1
           /\ \A i \in 1 .. Len(inbox) : inbox'[i] = inbox[i]
           /\ inbox'[Len(inbox) + 1] = r
           /\ \A i \in 1 .. Len(inbox') : i \in 1 .. Len(inbox) \/ i = Len(inbox) + 1
<1>1. inbox \in Seq(Request) BY DEF Shape, ConnOK
<1>2. Len(inbox) \in Nat /\ Len(inbox') = Len(inbox) + 1
      /\ (\A i \in 1 .. Len(inbox) : inbox'[i] = inbox[i]) /\ inbox'[Len(inbox) + 1] = r
  BY <1>1
<1>. QED BY <1>2

LEMMA Shrinks ==
    ASSUME NEW R, NEW q \in Seq(R), q # <<>>
    PROVE  /\ Len(q) \in Nat \ {0} /\ Len(Tail(q)) = Len(q) - 1 /\ Head(q) = q[1]
           /\ \A i \in 1 .. Len(q) - 1 : i + 1 \in 1 .. Len(q) /\ Tail(q)[i] = q[i + 1]
<1>1. Len(q) \in Nat \ {0} /\ Len(Tail(q)) = Len(q) - 1 /\ Head(q) = q[1]
      /\ \A i \in 1 .. Len(q) - 1 : Tail(q)[i] = q[i + 1]
  OBVIOUS
<1>2. \A i \in 1 .. Len(q) - 1 : i + 1 \in 1 .. Len(q) BY <1>1
<1>. QED BY <1>1, <1>2

LEMMA Lens == ASSUME Shape PROVE Len(unread) \in Nat /\ Len(inbox) \in Nat
                                 /\ (unread = <<>> <=> Len(unread) = 0)
                                 /\ (inbox = <<>> <=> Len(inbox) = 0)
  BY DEF Shape, ConnOK

(* Dropping the stream: what was asked joins the orphans.                  *)
LEMMA Dropped ==
    ASSUME Shape, Abandon(inbox), NoRestore \/ stray
    PROVE  /\ ~stray' => ~stray /\ NoRestore'
           /\ \A q \in orphans' : q \in orphans \/ q = inbox
<1>1. orphans' = orphans \cup ({inbox} \ {<<>>})
      /\ stray' = (stray \/ \E i \in DOMAIN inbox : inbox[i].req = "restore")
  BY DEF Abandon
<1>2. DOMAIN inbox = 1 .. Len(inbox) BY DEF Shape, ConnOK
<1>3. ~stray' => ~stray /\ \A i \in 1 .. Len(inbox) : inbox[i].req # "restore"
  BY <1>1, <1>2
<1>4. ~stray' => NoRestore' BY <1>1, <1>3 DEF NoRestore
<1>. QED BY <1>1, <1>3, <1>4

------------------------------------------------------------------------------
(* Every request on its way is older than the attempt under way *)

LEMMA IdsKept ==
    ASSUME Shape, IdsBelow, sid' = sid \/ sid' = n \/ sid' = None,
           n' = n, pc' \in OwnPhase => pc \in OwnPhase,
           \A q \in orphans' \cup {inbox'} : \A i \in 1 .. Len(q) : q[i].req \in Targets =>
               \/ \E r \in orphans \cup {inbox} : \E j \in 1 .. Len(r) : q[i] = r[j]
               \/ pc' \notin OwnPhase /\ q[i].id <= n
    PROVE  IdsBelow'
<1>1. n \in Nat /\ None <= n BY Numbers DEF None
<1>2. sid' <= n' BY <1>1 DEF IdsBelow
<1>. SUFFICES ASSUME NEW q \in orphans' \cup {inbox'}, NEW i \in 1 .. Len(q), q[i].req \in Targets
              PROVE  q[i].id <= n /\ (pc' \in OwnPhase => q[i].id < n)
  BY <1>2 DEF IdsBelow
<1>3. CASE \E r \in orphans \cup {inbox} : \E j \in 1 .. Len(r) : q[i] = r[j]
  BY <1>3 DEF IdsBelow
<1>4. CASE pc' \notin OwnPhase /\ q[i].id <= n BY <1>4
<1>. QED BY <1>3, <1>4

LEMMA IdsConn ==
    ASSUME Shape, IdsBelow, sid' = sid \/ sid' = n \/ sid' = None,
           n' = n, pc' \in OwnPhase => pc \in OwnPhase,
           \A q \in orphans' : q \in orphans \/ q = inbox,
           \A i \in 1 .. Len(inbox') : inbox'[i].req \in Targets =>
               \/ \E j \in 1 .. Len(inbox) : inbox'[i] = inbox[j]
               \/ pc' \notin OwnPhase /\ inbox'[i].id <= n
    PROVE  IdsBelow'
<1>1. ASSUME NEW q \in orphans' \cup {inbox'}, NEW i \in 1 .. Len(q), q[i].req \in Targets
      PROVE  \/ \E r \in orphans \cup {inbox} : \E j \in 1 .. Len(r) : q[i] = r[j]
             \/ pc' \notin OwnPhase /\ q[i].id <= n
  <2>1. CASE q \in orphans'
    <3>1. q \in orphans \cup {inbox} BY <2>1
    <3>. QED BY <3>1
  <2>2. CASE q = inbox' BY <1>1, <2>2
  <2>. QED BY <2>1, <2>2
<1>. QED BY <1>1, IdsKept

LEMMA IdsSame ==
    ASSUME Shape, IdsBelow, sid' = sid \/ sid' = n \/ sid' = None,
           n' = n, pc' \in OwnPhase => pc \in OwnPhase, UNCHANGED <<inbox, orphans>>
    PROVE  IdsBelow'
<1>1. \A i \in 1 .. Len(inbox') : \E j \in 1 .. Len(inbox) : inbox'[i] = inbox[j] OBVIOUS
<1>. QED BY <1>1, IdsConn

LEMMA IdsDrop ==
    ASSUME Shape, IdsBelow, sid' = sid \/ sid' = n \/ sid' = None,
           n' = n, pc' \in OwnPhase => pc \in OwnPhase, Abandon(inbox),
           inbox' = <<>> \/ inbox' = <<Req("restore", None)>>
    PROVE  IdsBelow'
<1>1. \A q \in orphans' : q \in orphans \/ q = inbox BY DEF Abandon
<1>2. ASSUME NEW i \in 1 .. Len(inbox') PROVE inbox'[i].req \notin Targets
  <2>1. CASE inbox' = <<>>
    <3>1. Len(inbox') = 0 BY <2>1
    <3>. QED BY <3>1
  <2>2. CASE inbox' = <<Req("restore", None)>>
    <3>1. Len(inbox') = 1 /\ inbox'[1] = Req("restore", None) BY <2>2
    <3>2. inbox'[i].req = "restore" BY <3>1 DEF Req
    <3>. QED BY <3>2 DEF Targets
  <2>. QED BY <2>1, <2>2
<1>. QED BY <1>1, <1>2, IdsConn

LEMMA IdsSend ==
    ASSUME Shape, IdsBelow, sid' = sid \/ sid' = n \/ sid' = None,
           n' = n, pc' \in OwnPhase => pc \in OwnPhase, UNCHANGED orphans,
           NEW r \in Request, inbox' = Append(inbox, r),
           r.req \notin Targets \/ (pc' \notin OwnPhase /\ r.id <= n)
    PROVE  IdsBelow'
<1>1. ASSUME NEW i \in 1 .. Len(inbox'), inbox'[i].req \in Targets
      PROVE  \/ \E j \in 1 .. Len(inbox) : inbox'[i] = inbox[j]
             \/ pc' \notin OwnPhase /\ inbox'[i].id <= n
  <2>1. i \in 1 .. Len(inbox) \/ i = Len(inbox) + 1 BY Sends
  <2>2. CASE i \in 1 .. Len(inbox) BY <2>2, Sends
  <2>3. CASE i = Len(inbox) + 1 BY <1>1, <2>3, Sends
  <2>. QED BY <2>1, <2>2, <2>3
<1>. QED BY <1>1, IdsConn

------------------------------------------------------------------------------
(* What is left on the stream *)

LEMMA Same ==
    ASSUME UNCHANGED <<inbox, unread, orphans, session>>
    PROVE  /\ Empty => Empty'
           /\ Rest => Rest'
           /\ UNCHANGED <<pc, n, sid>> =>
                /\ OwnDue => OwnDue'
                /\ AnswerDue => AnswerDue'
                /\ OwnFd => OwnFd'
                /\ FdLost => FdLost'
                /\ Mine => Mine'
<1>1. \A s : Safe(s) => Safe(s)' BY DEF Safe
<1>2. Guarded => Guarded' BY <1>1 DEF Guarded
<1>3. \A k : RefusedAt(k) => RefusedAt(k)' BY <1>2 DEF RefusedAt
<1>4. (Empty => Empty') /\ (FdAsked => FdAsked') /\ (FdGiven => FdGiven')
  BY <1>1 DEF Empty, FdAsked, FdGiven
<1>5. Rest => Rest' BY <1>2, <1>3, <1>4 DEF Rest, FdDue
<1>6. ASSUME UNCHANGED <<pc, n, sid>>
      PROVE  /\ OwnDue => OwnDue'
             /\ AnswerDue => AnswerDue'
             /\ OwnFd => OwnFd'
             /\ FdLost => FdLost'
             /\ Mine => Mine'
  <2>1. (OwnDue => OwnDue') /\ (Mine => Mine') BY <1>6 DEF OwnDue, Mine
  <2>2. (FdFirst => FdFirst') /\ (FdRead => FdRead') BY <1>3, <1>4, <1>6 DEF FdFirst, FdRead
  <2>. QED BY <1>3, <1>6, <2>1, <2>2 DEF AnswerDue, OwnFd, FdLost
<1>. QED BY <1>4, <1>5, <1>6

LEMMA StreamSame ==
    ASSUME UNCHANGED <<inbox, unread, orphans, session, pc, n, sid, mode, tunFd, app>>, Stream
    PROVE  Stream'
  BY Same DEF Stream

LEMMA StreamRest ==
    ASSUME pc' \in {"idle", "attempt", "stop"}, Empty' \/ Rest', app' # "off" PROVE Stream'
  BY DEF Stream, Rest

LEMMA GoneEmpty ==
    ASSUME inbox' = <<>>, unread' = <<>> PROVE Empty'
  BY DEF Empty

(* Asking on a stream at rest.                                             *)
LEMMA Asked ==
    ASSUME Shape, Rest, NEW r \in Request, inbox' = Append(inbox, r), r.req # "fd",
           UNCHANGED <<unread, orphans, session>>,
           pc' # "up2", pc' = "up" => r = Req("up", n')
    PROVE  AnswerDue' /\ (Empty => OwnDue')
<1>1. /\ Len(inbox) \in Nat /\ Len(inbox') = Len(inbox) + 1 /\ Len(unread) \in Nat
      /\ \A i \in 1 .. Len(inbox) : inbox'[i] = inbox[i]
      /\ inbox'[Len(inbox) + 1] = r
  BY Sends, Lens
<1>2. \A s : Safe(s) => Safe(s)' BY DEF Safe
<1>3. Guarded => Guarded' BY <1>2 DEF Guarded
<1>4. Len(inbox) >= 1 => inbox'[1] = inbox[1] BY <1>1
<1>5. RefusedAt(1) => RefusedAt(1)' BY <1>1, <1>3, <1>4 DEF RefusedAt
<1>6. Empty => OwnDue'
  <2>1. Empty => Len(unread') = 0 /\ Len(inbox') = 1 /\ inbox'[1] = r BY <1>1 DEF Empty
  <2>. QED BY <2>1 DEF OwnDue
<1>7. FdAsked /\ Len(inbox) = 1 => FdFirst'
  <2>1. FdAsked => FdAsked' BY <1>1, <1>2, <1>4 DEF FdAsked
  <2>2. Len(inbox) = 1 => Len(inbox') = 2 /\ inbox'[2] = r BY <1>1
  <2>3. pc' = "up" => r.req = "up" BY DEF Req
  <2>. QED BY <2>1, <2>2, <2>3 DEF FdFirst
<1>8. FdGiven /\ Len(unread) = 2 /\ Len(inbox) = 0 /\ Guarded => FdRead'
  <2>1. FdGiven => FdGiven' BY DEF FdGiven
  <2>2. ASSUME Len(unread) = 2, Len(inbox) = 0, Guarded, pc' = "up" PROVE RefusedAt(3)'
    <3>1. Len(inbox') >= 1 /\ inbox'[1] = r /\ Len(unread') = 3 - 1 BY <1>1, <2>2
    <3>2. r.req = "up" BY <2>2 DEF Req
    <3>. QED BY <1>3, <2>2, <3>1, <3>2 DEF RefusedAt
  <2>. QED BY <2>1, <2>2 DEF FdRead
<1>. QED BY <1>5, <1>6, <1>7, <1>8 DEF Rest, FdDue, AnswerDue

(* Reading: what the second and third answer would have been comes first.  *)
LEMMA ReadOn ==
    ASSUME Shape, unread # <<>>, unread' = Tail(unread), UNCHANGED <<orphans, session>>,
           Len(inbox) >= 1 => Len(inbox') >= 1 /\ inbox'[1] = inbox[1],
           NEW k \in {1, 2}, RefusedAt(k + 1)
    PROVE  RefusedAt(k)'
<1>1. /\ Len(unread) \in Nat \ {0} /\ Len(unread') = Len(unread) - 1
      /\ \A i \in 1 .. Len(unread) - 1 : unread'[i] = unread[i + 1]
  BY FirstFrame
<1>2. Guarded => Guarded' BY DEF Guarded, Safe
<1>3. CASE k + 1 \in 1 .. Len(unread) /\ unread[k + 1].resp \notin {"ok", "fd"}
  <2>1. k \in 1 .. Len(unread) - 1 BY <1>1, <1>3
  <2>2. k \in 1 .. Len(unread') /\ unread'[k] = unread[k + 1] BY <1>1, <2>1
  <2>. QED BY <1>3, <2>2 DEF RefusedAt
<1>4. CASE Len(unread) = (k + 1) - 1 /\ Len(inbox) >= 1 /\ inbox[1].req = "up" /\ Guarded
  <2>1. Len(unread') = k - 1 BY <1>1, <1>4
  <2>. QED BY <1>2, <1>4, <2>1 DEF RefusedAt
<1>. QED BY <1>3, <1>4 DEF RefusedAt

(* Taking a good answer leaves the stream at rest.                         *)
LEMMA Taken ==
    ASSUME Shape, unread # <<>>, Take, UNCHANGED session, Good
    PROVE  /\ OwnDue => Empty'
           /\ AnswerDue => Rest'
<1>1. /\ Len(unread) \in Nat \ {0} /\ Len(unread') = Len(unread) - 1
      /\ \A i \in 1 .. Len(unread) - 1 : unread'[i] = unread[i + 1]
      /\ unread[1].resp \in {"ok", "fd"}
  BY FirstFrame DEF Take, Good
<1>2. UNCHANGED <<inbox, orphans>> BY DEF Take, late
<1>3. OwnDue => Empty' BY <1>1, <1>2 DEF OwnDue, Empty
<1>4. ~FdFirst BY <1>1 DEF FdFirst, FdAsked
<1>5. ~RefusedAt(1) BY <1>1 DEF RefusedAt
<1>6. FdRead => RefusedAt(1)'
  <2>1. FdRead => 1 \in 1 .. Len(unread') /\ unread'[1].resp = "fdmsg"
    BY <1>1 DEF FdRead, FdGiven
  <2>. QED BY <2>1 DEF RefusedAt
<1>. QED BY <1>3, <1>4, <1>5, <1>6 DEF AnswerDue, Rest

------------------------------------------------------------------------------
(* Every action of an attempt keeps it *)

LEMMA NextIs ==
    ASSUME NextOrFail PROVE pc' \in {"attempt", "idle"} /\ UNCHANGED <<app, mode, n>>
  BY DEF NextOrFail

LEMMA OnIfBusy == ASSUME Shape, RunOK, pc # "idle" PROVE app = "on"
  BY DEF RunOK, Shape, WorkOK

LEMMA StartAttemptOwn ==
    ASSUME Shape, RunOK, OwnOK, StartAttempt PROVE OwnOK'
<1>1. /\ pc = "attempt" /\ n' = n + 1 /\ app = "on"
      /\ UNCHANGED <<app, mode, sid, tunFd, session>>
      /\ \/ mode = "tun" /\ Send("up", n + 1) /\ pc' = "up"
         \/ mode = "proxy" /\ pc' = "spawn" /\ UNCHANGED conn
  BY OnIfBusy DEF StartAttempt, super, helper
<1>n. n \in Nat /\ n + 1 \in Id /\ sid \in Nat
  <2>1. n \in Nat /\ n + 1 \in Id BY <1>1, Numbers
  <2>2. sid \in Id BY DEF Shape, SuperOK
  <2>. QED BY <2>1, <2>2, Numbers DEF Id, Attempt, None
<1>r. Req("up", n + 1) \in Request BY <1>n DEF Req, Request
<1>2. UNCHANGED <<orphans, stray>> /\ (pc' = "up" => Send("up", n + 1))
      /\ (inbox' = inbox \/ inbox' = Append(inbox, Req("up", n + 1)))
  BY <1>1 DEF Send, conn, late
<1>3. IdsBelow'
  <2>1. \A q \in orphans \cup {inbox} : \A i \in 1 .. Len(q) :
          q[i].req \in Targets => q[i].id \in Nat /\ q[i].id <= n
    <3>1. \A q \in orphans \cup {inbox} : q \in Seq(Request) BY DEF Shape, ConnOK
    <3>2. ASSUME NEW q \in orphans \cup {inbox}, NEW i \in 1 .. Len(q) PROVE q[i].id \in Id
      <4>1. q \in Seq(Request) BY <3>1
      <4>2. q[i] \in Request BY <4>1
      <4>. QED BY <4>2 DEF Request
    <3>3. Id \subseteq Nat BY Numbers DEF Id, Attempt, None
    <3>. QED BY <3>2, <3>3 DEF OwnOK, IdsBelow
  <2>2. \A i \in 1 .. Len(inbox') : inbox'[i].req \in Targets =>
          \E j \in 1 .. Len(inbox) : inbox'[i] = inbox[j]
    <3>1. CASE inbox' = inbox BY <3>1
    <3>2. CASE inbox' = Append(inbox, Req("up", n + 1))
      <4>1. Req("up", n + 1).req \notin Targets BY DEF Req, Targets
      <4>. QED BY <1>r, <3>2, <4>1, Sends
    <3>. QED BY <1>2, <3>1, <3>2
  <2>3. ASSUME NEW q \in orphans' \cup {inbox'}, NEW i \in 1 .. Len(q), q[i].req \in Targets
        PROVE  q[i].id < n + 1
    <3>1. CASE q \in orphans BY <1>n, <2>1, <2>3, <3>1
    <3>2. CASE q = inbox' BY <1>n, <2>1, <2>2, <2>3, <3>2
    <3>. QED BY <1>2, <3>1, <3>2
  <2>4. ASSUME NEW q \in orphans' \cup {inbox'}, NEW i \in 1 .. Len(q), q[i].req \in Targets
        PROVE  q[i].id <= n'
    <3>1. q[i].id < n + 1 BY <2>3, <2>4
    <3>2. q[i].id \in Nat
      <4>1. CASE q \in orphans BY <2>1, <2>4, <4>1
      <4>2. CASE q = inbox' BY <2>1, <2>2, <2>4, <4>2
      <4>. QED BY <1>2, <4>1, <4>2
    <3>. QED BY <1>1, <1>n, <3>1, <3>2
  <2>5. sid' <= n' BY <1>1, <1>n DEF OwnOK, IdsBelow
  <2>. QED BY <1>1, <2>3, <2>4, <2>5 DEF IdsBelow
<1>4. OnlyTun' BY <1>1 DEF OnlyTun
<1>5. ASSUME ~stray' PROVE NoRestore' /\ Stream'
  <2>1. NoRestore /\ Stream /\ Rest BY <1>1, <1>2, <1>5 DEF OwnOK, Stream
  <2>2. NoRestore' BY <1>2, <2>1 DEF NoRestore
  <2>3. CASE pc' = "up"
    <3>1. inbox' = Append(inbox, Req("up", n + 1)) /\ UNCHANGED unread
      BY <1>1, <2>3 DEF Send
    <3>2. Req("up", n + 1).req # "fd" BY DEF Req
    <3>3. AnswerDue'
      BY <1>1, <1>2, <1>r, <2>1, <2>3, <3>1, <3>2, Asked
    <3>. QED BY <1>1, <2>2, <2>3, <3>3 DEF Stream
  <2>4. CASE mode = "proxy" /\ pc' = "spawn" /\ UNCHANGED conn
    <3>1. Rest' BY <1>1, <2>1, <2>4, Same DEF conn, late
    <3>. QED BY <1>1, <2>2, <2>4, <3>1 DEF Stream
  <2>. QED BY <1>1, <2>3, <2>4
<1>. QED BY <1>3, <1>4, <1>5 DEF OwnOK

(* A step that leaves the connection alone and after which it may rest.    *)
LEMMA FailsOwn ==
    ASSUME Shape, OwnOK, app' # "off", pc' \in {"attempt", "idle"},
           UNCHANGED <<inbox, unread, orphans, stray, session, n>>,
           sid' = sid \/ sid' = n \/ sid' = None,
           ~stray /\ Stream => Rest
    PROVE  OwnOK'
<1>1. IdsBelow' BY IdsSame DEF OwnOK, OwnPhase
<1>2. OnlyTun' BY DEF OnlyTun
<1>3. ASSUME ~stray' PROVE NoRestore' /\ Stream'
  <2>1. NoRestore /\ Rest BY <1>3 DEF OwnOK
  <2>2. NoRestore' BY <2>1 DEF NoRestore
  <2>. QED BY <2>1, <2>2, Same, StreamRest
<1>. QED BY <1>1, <1>2, <1>3 DEF OwnOK

(* A step that drops the stream.                                           *)
LEMMA DropsOwn ==
    ASSUME Shape, OwnOK, app' # "off", Drop, n' = n,
           pc' \in {"attempt", "idle", "exit"} \/ (pc = "commit" /\ pc' = "undo"),
           sid' = sid \/ sid' = n \/ sid' = None
    PROVE  OwnOK'
<1>1. Abandon(inbox) /\ inbox' = <<>> /\ unread' = <<>> BY DEF Drop
<1>2. IdsBelow' BY <1>1, IdsDrop DEF OwnOK, OwnPhase
<1>3. OnlyTun' BY DEF OnlyTun
<1>4. ASSUME ~stray' PROVE NoRestore' /\ Stream'
  <2>1. NoRestore \/ stray BY DEF OwnOK
  <2>2. NoRestore' BY <1>1, <1>4, <2>1, Dropped
  <2>3. Empty' BY <1>1, GoneEmpty
  <2>. QED BY <2>2, <2>3 DEF Stream, Rest
<1>. QED BY <1>2, <1>3, <1>4 DEF OwnOK

LEMMA RefusedEarlyOwn ==
    ASSUME Shape, RunOK, OwnOK, RefusedEarly \/ SpawnFails PROVE OwnOK'
<1>1. /\ pc \in {"attempt", "spawn"} /\ NextOrFail /\ app = "on"
      /\ UNCHANGED <<sid, inbox, unread, orphans, stray, session>>
  BY OnIfBusy DEF RefusedEarly, SpawnFails, super, conn, late, helper
<1>2. ~stray /\ Stream => Rest BY <1>1 DEF Stream, Rest
<1>. QED BY <1>1, <1>2, NextIs, FailsOwn

LEMMA UpAnsweredOwn ==
    ASSUME Shape, RunOK, OwnOK, UpAnswered PROVE OwnOK'
<1>1. /\ pc \in {"up", "up2"} /\ unread # <<>> /\ app = "on" /\ UNCHANGED <<tunFd, session>>
  BY OnIfBusy DEF UpAnswered, helper
<1>n. n \in Id BY Numbers
<1>2. CASE /\ Good /\ pc' = "fd" /\ sid' = n
           /\ inbox' = Append(inbox, Req("fd", n)) /\ unread' = Tail(unread)
           /\ UNCHANGED <<late, app, work, told>>
  <2>1. UNCHANGED <<orphans, stray, app, mode, n>> BY <1>2 DEF late, work
  <2>2. Req("fd", n) \in Request /\ Req("fd", n).req \notin Targets
    BY <1>n DEF Req, Request, Targets
  <2>3. IdsBelow' BY <1>1, <1>2, <2>1, <2>2, IdsSend DEF OwnOK, OwnPhase
  <2>4. OnlyTun' BY <1>1, <1>2, <2>1 DEF OwnOK, OnlyTun
  <2>5. ASSUME ~stray' PROVE NoRestore' /\ Stream'
    <3>1. NoRestore /\ Stream BY <2>1, <2>5 DEF OwnOK
    <3>2. NoRestore' BY <2>1, <3>1 DEF NoRestore
    <3>3. /\ Len(inbox) \in Nat /\ Len(inbox') = Len(inbox) + 1
          /\ \A i \in 1 .. Len(inbox) : inbox'[i] = inbox[i]
          /\ inbox'[Len(inbox) + 1] = Req("fd", n)
      BY <1>2, <2>2, Sends
    <3>4. /\ Len(unread) \in Nat \ {0} /\ Len(unread') = Len(unread) - 1
          /\ \A i \in 1 .. Len(unread) - 1 : unread'[i] = unread[i + 1]
          /\ unread[1].resp \in {"ok", "fd"}
      BY <1>1, <1>2, FirstFrame DEF Good
    <3>5. CASE OwnDue
      <4>1. Len(unread) = 1 /\ Len(inbox) = 0 /\ session = n
        BY <1>1, <3>4, <3>5 DEF OwnDue
      <4>2. Len(unread') = 0 /\ Len(inbox') = 1 /\ inbox'[1] = Req("fd", n) BY <3>3, <3>4, <4>1
      <4>3. OwnFd' BY <1>1, <1>2, <2>1, <4>1, <4>2 DEF OwnFd, Mine
      <4>. QED BY <1>1, <1>2, <2>1, <3>2, <4>3 DEF Stream
    <3>6. CASE pc = "up" /\ FdRead
      <4>1. FdGiven /\ RefusedAt(3) BY <3>6 DEF FdRead
      <4>2. Len(inbox) >= 1 => Len(inbox') >= 1 /\ inbox'[1] = inbox[1] BY <3>3
      <4>3. RefusedAt(2 + 1) BY <4>1
      <4>4. RefusedAt(2)' BY <1>1, <1>2, <2>1, <4>2, <4>3, ReadOn
      <4>5. Len(unread') >= 1 /\ unread'[1].resp = "fdmsg" BY <3>4, <4>1 DEF FdGiven
      <4>6. FdLost' BY <4>4, <4>5 DEF FdLost
      <4>. QED BY <1>1, <1>2, <2>1, <3>2, <4>6 DEF Stream
    <3>7. ~FdFirst BY <3>4 DEF FdFirst, FdAsked
    <3>8. ~RefusedAt(1) BY <3>4 DEF RefusedAt
    <3>9. OwnDue \/ (pc = "up" /\ FdRead)
      BY <1>1, <3>1, <3>7, <3>8 DEF Stream, AnswerDue
    <3>. QED BY <3>5, <3>6, <3>9
  <2>. QED BY <2>3, <2>4, <2>5 DEF OwnOK
<1>3. CASE /\ Answer.resp = "conflict" /\ pc = "up" /\ pc' = "heal"
           /\ DropAndSend("restore", None) /\ UNCHANGED <<app, work, sid, told>>
  <2>1. /\ Abandon(inbox) /\ inbox' = <<Req("restore", None)>> /\ unread' = <<>>
        /\ UNCHANGED <<app, mode, n, sid>>
    BY <1>3 DEF DropAndSend, work
  <2>3. IdsBelow' BY <1>3, <2>1, IdsDrop DEF OwnOK, OwnPhase
  <2>4. OnlyTun' BY <1>3, <2>1 DEF OwnOK, OnlyTun
  <2>5. ASSUME ~stray' PROVE NoRestore' /\ Stream'
    <3>1. NoRestore \/ stray BY DEF OwnOK
    <3>2. NoRestore' BY <2>1, <2>5, <3>1, Dropped
    <3>3. Len(inbox') = 1 /\ inbox'[1] = Req("restore", None) /\ Len(unread') = 0 BY <2>1
    <3>4. OwnDue' BY <1>3, <3>3 DEF OwnDue, Req
    <3>. QED BY <1>1, <1>3, <2>1, <3>2, <3>4 DEF Stream
  <2>. QED BY <2>3, <2>4, <2>5 DEF OwnOK
<1>4. CASE Drop /\ NextOrFail /\ UNCHANGED sid
  BY <1>1, <1>4, NextIs, DropsOwn
<1>. QED BY <1>2, <1>3, <1>4 DEF UpAnswered

LEMMA HealedOwn ==
    ASSUME Shape, RunOK, OwnOK, Healed PROVE OwnOK'
<1>1. /\ pc = "heal" /\ unread # <<>> /\ app = "on" /\ UNCHANGED <<sid, tunFd, session>>
  BY OnIfBusy DEF Healed, helper, super
<1>n. n \in Id BY Numbers
<1>2. CASE /\ Good /\ pc' = "up2"
           /\ inbox' = Append(inbox, Req("up", n)) /\ unread' = Tail(unread)
           /\ UNCHANGED <<late, app, work, told>>
  <2>1. UNCHANGED <<orphans, stray, app, mode, n>> BY <1>2 DEF late, work
  <2>2. Req("up", n) \in Request /\ Req("up", n).req \notin Targets /\ Req("up", n).req # "fd"
    BY <1>n DEF Req, Request, Targets
  <2>3. IdsBelow' BY <1>1, <1>2, <2>1, <2>2, IdsSend DEF OwnOK, OwnPhase
  <2>4. OnlyTun' BY <1>1, <1>2, <2>1 DEF OwnOK, OnlyTun
  <2>5. ASSUME ~stray' PROVE NoRestore' /\ Stream'
    <3>1. NoRestore /\ Stream BY <2>1, <2>5 DEF OwnOK
    <3>2. NoRestore' BY <2>1, <3>1 DEF NoRestore
    <3>3. OwnDue BY <1>1, <3>1 DEF Stream
    <3>4. Len(unread) = 1 /\ Len(inbox) = 0 BY <1>1, <3>3, Lens DEF OwnDue
    <3>5. Len(unread') = 0 BY <1>1, <1>2, <3>4, FirstFrame
    <3>6. Len(inbox') = 1 /\ inbox'[1] = Req("up", n) BY <1>2, <2>2, <3>4, Sends
    <3>7. OwnDue' BY <2>1, <2>2, <3>5, <3>6 DEF OwnDue
    <3>. QED BY <1>1, <1>2, <2>1, <3>2, <3>7 DEF Stream
  <2>. QED BY <2>3, <2>4, <2>5 DEF OwnOK
<1>3. CASE Drop /\ NextOrFail BY <1>1, <1>3, NextIs, DropsOwn
<1>. QED BY <1>2, <1>3 DEF Healed

LEMMA FdAnsweredOwn ==
    ASSUME Shape, RunOK, OwnOK, FdAnswered PROVE OwnOK'
<1>1. /\ pc = "fd" /\ unread # <<>> /\ app = "on" /\ UNCHANGED <<sid, session>>
  BY OnIfBusy DEF FdAnswered, helper
<1>2. CASE /\ Answer.resp = "fd" /\ tunFd' = Answer.id /\ unread' = Tail(Tail(unread))
           /\ pc' = "spawn" /\ UNCHANGED <<inbox, late, app, work>>
  <2>1. UNCHANGED <<inbox, orphans, stray, app, mode, n>> BY <1>2 DEF late, work
  <2>3. IdsBelow' BY <1>1, <1>2, <2>1, IdsSame DEF OwnOK, OwnPhase
  <2>4. OnlyTun' BY <1>2 DEF OnlyTun
  <2>5. ASSUME ~stray' PROVE NoRestore' /\ Stream'
    <3>1. NoRestore /\ Stream BY <2>1, <2>5 DEF OwnOK
    <3>2. NoRestore' BY <2>1, <3>1 DEF NoRestore
    <3>3. Answer = unread[1] BY <1>1, FirstFrame
    <3>4. OwnFd BY <1>1, <1>2, <3>1, <3>3 DEF Stream, FdLost
    <3>5. Len(unread) = 2 /\ Len(inbox) = 0 /\ unread[1] = [resp |-> "fd", id |-> n]
          /\ session = n /\ sid = n
      BY <1>1, <3>4, Lens DEF OwnFd, Mine
    <3>6. Len(unread') = 0
      <4>. DEFINE t == Tail(unread)
      <4>1. t \in Seq(Response) /\ Len(t) = 1 BY <1>1, <3>5, FirstFrame
      <4>2. unread' = Tail(t) BY <1>2
      <4>. HIDE DEF t
      <4>. QED BY <4>1, <4>2
    <3>7. Empty' BY <2>1, <3>5, <3>6 DEF Empty
    <3>8. tunFd' = n BY <1>2, <3>3, <3>5
    <3>9. Mine' BY <1>1, <2>1, <3>5 DEF Mine
    <3>. QED BY <1>1, <1>2, <2>1, <3>2, <3>7, <3>8, <3>9 DEF Stream, Rest
  <2>. QED BY <2>3, <2>4, <2>5 DEF OwnOK
<1>3. CASE Answer.resp # "fd" /\ Take /\ NextOrFail
  <2>1. /\ UNCHANGED <<inbox, orphans, stray, app, mode, n>> /\ unread' = Tail(unread)
        /\ pc' \in {"attempt", "idle"}
    BY <1>3, NextIs DEF late, Take
  <2>3. IdsBelow' BY <1>1, <2>1, IdsSame DEF OwnOK, OwnPhase
  <2>4. OnlyTun' BY <2>1 DEF OnlyTun
  <2>5. ASSUME ~stray' PROVE NoRestore' /\ Stream'
    <3>1. NoRestore /\ Stream BY <2>1, <2>5 DEF OwnOK
    <3>2. NoRestore' BY <2>1, <3>1 DEF NoRestore
    <3>3. Answer = unread[1] /\ Len(unread) \in Nat \ {0} BY <1>1, FirstFrame
    <3>4. ~OwnFd BY <1>3, <3>3 DEF OwnFd
    <3>5. RefusedAt(1 + 1) BY <1>1, <3>1, <3>4 DEF Stream, FdLost
    <3>6. RefusedAt(1)' BY <1>1, <2>1, <3>5, ReadOn
    <3>. QED BY <1>1, <2>1, <3>2, <3>6, StreamRest DEF Rest
  <2>. QED BY <2>3, <2>4, <2>5 DEF OwnOK
<1>. QED BY <1>2, <1>3 DEF FdAnswered

(* From a stream at rest to one at rest.                                   *)
LEMMA ForwardOwn ==
    ASSUME Shape, RunOK, OwnOK, SpawnCore \/ Ready \/ StillReachable \/ GiveUp PROVE OwnOK'
<1>1. /\ pc \in {"spawn", "ready", "gate", "recheck"} /\ app = "on"
      /\ pc' \in {"ready", "gate", "success", "undo"}
      /\ pc' = "gate" => mode = "tun"
      /\ pc' \in {"ready", "gate"} => pc \in {"spawn", "ready"}
      /\ UNCHANGED <<app, mode, n, sid, tunFd, inbox, unread, orphans, stray, session>>
  BY OnIfBusy
  DEF SpawnCore, Ready, StillReachable, GiveUp, work, super, conn, late, helper
<1>2. IdsBelow' BY <1>1, IdsSame DEF OwnOK, OwnPhase
<1>3. OnlyTun' BY <1>1 DEF OnlyTun
<1>4. ASSUME ~stray' PROVE NoRestore' /\ Stream'
  <2>1. NoRestore /\ Stream BY <1>1, <1>4 DEF OwnOK
  <2>2. NoRestore' BY <1>1, <2>1 DEF NoRestore
  <2>3. IF mode' = "tun" THEN Empty' ELSE Rest' BY <1>1, <2>1, Same DEF Stream
  <2>4. pc' \in {"ready", "gate"} /\ mode' = "tun" => Mine' /\ tunFd' = n'
    BY <1>1, <2>1 DEF Stream, Mine
  <2>. QED BY <1>1, <2>2, <2>3, <2>4 DEF Stream
<1>. QED BY <1>2, <1>3, <1>4 DEF OwnOK

(* Asking before the answer to the last request has been looked at.        *)
LEMMA AsksOwn ==
    ASSUME Shape, OwnOK, app' = "on", UNCHANGED <<mode, n, unread, orphans, stray, session>>,
           NEW r \in Request, inbox' = Append(inbox, r),
           r.req = "restore" \/ (r.req \in Targets /\ r.id <= n),
           pc' \in {"undowait", "stopwait", "repair", "boot"}, ~stray /\ Stream => Rest,
           sid' = sid \/ sid' = None
    PROVE  OwnOK'
<1>1. IdsBelow' BY IdsSend DEF OwnOK, OwnPhase, Targets
<1>2. OnlyTun' BY DEF OnlyTun
<1>3. ASSUME ~stray' PROVE NoRestore' /\ Stream'
  <2>1. NoRestore /\ Rest BY <1>3 DEF OwnOK
  <2>2. NoRestore' BY <2>1 DEF NoRestore
  <2>3. r.req # "fd" BY DEF Targets
  <2>4. AnswerDue' BY <2>1, <2>3, Asked
  <2>. QED BY <2>2, <2>4 DEF Stream
<1>. QED BY <1>1, <1>2, <1>3 DEF OwnOK

LEMMA PassGateOwn ==
    ASSUME Shape, RunOK, OwnOK, PassGate PROVE OwnOK'
<1>1. /\ pc = "gate" /\ pc' = "commit" /\ Send("commit", sid) /\ app = "on"
      /\ UNCHANGED <<app, mode, n, sid, tunFd, session>>
  BY OnIfBusy DEF PassGate, work, super, helper
<1>2. inbox' = Append(inbox, Req("commit", sid)) /\ UNCHANGED <<unread, orphans, stray>>
  BY <1>1 DEF Send, late
<1>3. /\ Req("commit", sid) \in Request /\ Req("commit", sid).req = "commit"
      /\ Req("commit", sid).id <= n
  BY DEF Req, Request, Shape, SuperOK, OwnOK, IdsBelow
<1>4. IdsBelow' BY <1>1, <1>2, <1>3, IdsSend DEF OwnOK, OwnPhase
<1>5. OnlyTun' /\ mode = "tun" BY <1>1 DEF OwnOK, OnlyTun
<1>6. ASSUME ~stray' PROVE NoRestore' /\ Stream'
  <2>1. NoRestore /\ Empty /\ Rest BY <1>1, <1>2, <1>5, <1>6 DEF OwnOK, Stream, Rest
  <2>2. NoRestore' BY <1>2, <2>1 DEF NoRestore
  <2>3. OwnDue' BY <1>1, <1>2, <1>3, <2>1, Asked
  <2>. QED BY <1>1, <2>2, <2>3 DEF Stream
<1>. QED BY <1>4, <1>5, <1>6 DEF OwnOK

LEMMA CommitAnsweredOwn ==
    ASSUME Shape, RunOK, OwnOK, CommitAnswered PROVE OwnOK'
<1>1. /\ pc = "commit" /\ unread # <<>> /\ app = "on"
      /\ UNCHANGED <<app, mode, n, sid, tunFd, session>>
  BY OnIfBusy DEF CommitAnswered, work, super, helper
<1>2. CASE Good /\ Take /\ pc' = "recheck"
  <2>1. UNCHANGED <<inbox, orphans, stray>> BY <1>2 DEF Take, late
  <2>2. IdsBelow' BY <1>1, <1>2, <2>1, IdsSame DEF OwnOK, OwnPhase
  <2>3. OnlyTun' BY <1>1, <1>2 DEF OwnOK, OnlyTun
  <2>4. ASSUME ~stray' PROVE NoRestore' /\ Stream'
    <3>1. NoRestore /\ OwnDue BY <1>1, <2>1, <2>4 DEF OwnOK, Stream
    <3>2. NoRestore' BY <2>1, <3>1 DEF NoRestore
    <3>3. Empty' BY <1>1, <1>2, <3>1, Taken
    <3>. QED BY <1>1, <1>2, <3>2, <3>3 DEF Stream, Rest
  <2>. QED BY <2>2, <2>3, <2>4 DEF OwnOK
<1>3. CASE Drop /\ pc' = "undo" BY <1>1, <1>3, DropsOwn
<1>. QED BY <1>2, <1>3 DEF CommitAnswered

LEMMA StartedOwn ==
    ASSUME Shape, RunOK, OwnOK, Started PROVE OwnOK'
<1>1. /\ pc = "success" /\ pc' = "idle" /\ app = "on"
      /\ UNCHANGED <<app, n, sid, inbox, unread, orphans, stray, session>>
  BY OnIfBusy DEF Started, conn, late, helper
<1>2. ~stray /\ Stream => Rest BY <1>1 DEF Stream, Rest
<1>. QED BY <1>1, <1>2, FailsOwn

LEMMA AttemptingOwn ==
    ASSUME Shape, RunOK, OwnOK, Attempting PROVE OwnOK'
  BY StartAttemptOwn, RefusedEarlyOwn, UpAnsweredOwn, HealedOwn, FdAnsweredOwn, ForwardOwn,
     PassGateOwn, CommitAnsweredOwn, StartedOwn
  DEF Attempting

------------------------------------------------------------------------------
(* The other commands *)

LEMMA RollbackAsksOwn ==
    ASSUME Shape, RunOK, OwnOK, RollbackAsks PROVE OwnOK'
<1>1. /\ pc \in {"undo", "stop"} /\ sid' = None /\ Send("down", sid) /\ app = "on"
      /\ pc' \in {"undowait", "stopwait"} /\ UNCHANGED <<app, mode, n, session>>
  BY OnIfBusy DEF RollbackAsks, work, helper
<1>2. inbox' = Append(inbox, Req("down", sid)) /\ UNCHANGED <<unread, orphans, stray>>
  BY <1>1 DEF Send, late
<1>3. /\ Req("down", sid) \in Request /\ Req("down", sid).req = "down" /\ Req("down", sid).id <= n
  BY DEF Req, Request, Shape, SuperOK, OwnOK, IdsBelow
<1>4. ~stray /\ Stream => Rest BY <1>1 DEF Stream, Rest
<1>. QED BY <1>1, <1>2, <1>3, <1>4, AsksOwn DEF Targets

(* A good answer is read and the command ends.                             *)
LEMMA TakesOwn ==
    ASSUME Shape, OwnOK, app' # "off", pc \in {"undowait", "stopwait", "repair", "boot"},
           pc' \in {"idle", "attempt"}, unread # <<>>, Good, Take,
           UNCHANGED <<n, sid, session>>
    PROVE  OwnOK'
<1>1. UNCHANGED <<inbox, orphans, stray>> BY DEF Take, late
<1>2. IdsBelow' BY <1>1, IdsSame DEF OwnOK, OwnPhase
<1>3. OnlyTun' BY DEF OnlyTun
<1>4. ASSUME ~stray' PROVE NoRestore' /\ Stream'
  <2>1. NoRestore /\ AnswerDue BY <1>1, <1>4 DEF OwnOK, Stream
  <2>2. NoRestore' BY <1>1, <2>1 DEF NoRestore
  <2>3. Rest' BY <2>1, Taken
  <2>. QED BY <2>2, <2>3, StreamRest
<1>. QED BY <1>2, <1>3, <1>4 DEF OwnOK

LEMMA EndsOwn ==
    ASSUME Shape, RunOK, OwnOK, UndoEnds \/ StopEnds \/ RepairEnds PROVE OwnOK'
<1>1. /\ pc \in {"undo", "undowait", "stop", "stopwait", "repair", "boot"} /\ app = "on"
      /\ pc' \in {"idle", "attempt"} /\ UNCHANGED <<app, n, sid, session>>
      /\ \/ pc \in {"undo", "stop"} /\ UNCHANGED conn
         \/ pc \in {"undowait", "stopwait", "repair", "boot"} /\ unread # <<>> /\ Good /\ Take
         \/ Drop
  BY OnIfBusy, NextIs DEF UndoEnds, StopEnds, RepairEnds, helper, work, super
<1>2. CASE pc \in {"undo", "stop"} /\ UNCHANGED conn
  <2>1. UNCHANGED <<inbox, unread, orphans, stray>> BY <1>2 DEF conn, late
  <2>2. ~stray /\ Stream => Rest BY <1>2 DEF Stream, Rest
  <2>. QED BY <1>1, <2>1, <2>2, FailsOwn
<1>3. CASE pc \in {"undowait", "stopwait", "repair", "boot"} /\ unread # <<>> /\ Good /\ Take
  BY <1>1, <1>3, TakesOwn
<1>4. CASE Drop BY <1>1, <1>4, DropsOwn
<1>. QED BY <1>1, <1>2, <1>3, <1>4

LEMMA LeavesOwn ==
    ASSUME Shape, RunOK, OwnOK, LeaveAnswered \/ Crash PROVE OwnOK'
<1>1. app' = "on" /\ Drop /\ pc' = "exit" /\ UNCHANGED <<n, sid>>
  BY OnIfBusy DEF LeaveAnswered, Crash, work, super
<1>. QED BY <1>1, DropsOwn

LEMMA QuitOwn ==
    ASSUME Shape, RunOK, OwnOK, Quit PROVE OwnOK'
<1>1. app' = "on" /\ UNCHANGED <<n, sid>> BY DEF Quit, work, super
<1>2. CASE pc' = "exit" /\ Drop BY <1>1, <1>2, DropsOwn
<1>3. CASE pc' = "leave" /\ Send("restore", None)
  <2>1. inbox' = Append(inbox, Req("restore", None)) /\ UNCHANGED <<unread, orphans, stray>>
    BY <1>3 DEF Send, late
  <2>2. Req("restore", None) \in Request /\ Req("restore", None).req \notin Targets
    BY Numbers DEF Req, Request, Targets
  <2>3. IdsBelow' BY <1>1, <1>3, <2>1, <2>2, IdsSend DEF OwnOK, OwnPhase
  <2>4. OnlyTun' BY <1>3 DEF OnlyTun
  <2>5. ASSUME ~stray' PROVE NoRestore' /\ Stream'
    <3>1. NoRestore' BY <2>1, <2>5 DEF OwnOK, NoRestore
    <3>. QED BY <1>1, <1>3, <3>1 DEF Stream
  <2>. QED BY <2>3, <2>4, <2>5 DEF OwnOK
<1>. QED BY <1>2, <1>3 DEF Quit

LEMMA ExitOwn ==
    ASSUME Shape, OwnOK, Exit PROVE OwnOK'
<1>1. /\ pc = "exit" /\ app' = "off" /\ pc' = "idle" /\ sid' = None
      /\ UNCHANGED <<n, inbox, unread, orphans, stray, session>>
  BY DEF Exit, conn, late, helper
<1>2. IdsBelow' BY <1>1, IdsSame DEF OwnOK, OwnPhase
<1>3. OnlyTun' BY <1>1 DEF OnlyTun
<1>4. ASSUME ~stray' PROVE NoRestore' /\ Stream'
  <2>1. NoRestore /\ Empty BY <1>1, <1>4 DEF OwnOK, Stream
  <2>2. NoRestore' /\ Empty' BY <1>1, <2>1, Same DEF NoRestore
  <2>. QED BY <1>1, <2>2 DEF Stream, Rest
<1>. QED BY <1>2, <1>3, <1>4 DEF OwnOK

LEMMA UserOwn ==
    ASSUME Shape, RunOK, OwnOK, User PROVE OwnOK'
<1>r. Req("restore", None) \in Request /\ Req("restore", None).req = "restore"
  BY Numbers DEF Req, Request
<1>1. CASE Stop
  <2>1. /\ pc = "idle" /\ pc' = "stop" /\ app' = "on"
        /\ UNCHANGED <<n, sid, inbox, unread, orphans, stray, session>>
    BY <1>1 DEF Stop, work, conn, late, helper
  <2>2. IdsBelow' BY <2>1, IdsSame DEF OwnOK, OwnPhase
  <2>3. OnlyTun' BY <2>1 DEF OnlyTun
  <2>4. ASSUME ~stray' PROVE NoRestore' /\ Stream'
    <3>1. NoRestore /\ Rest BY <2>1, <2>4 DEF OwnOK, Stream
    <3>2. NoRestore' BY <2>1, <3>1 DEF NoRestore
    <3>. QED BY <2>1, <3>1, <3>2, Same, StreamRest
  <2>. QED BY <2>2, <2>3, <2>4 DEF OwnOK
<1>2. CASE Repair
  <2>1. /\ pc = "idle" /\ pc' = "repair" /\ app' = "on" /\ Send("restore", None)
        /\ UNCHANGED <<mode, n, sid, session>>
    BY <1>2 DEF Repair, work, super, helper
  <2>2. inbox' = Append(inbox, Req("restore", None)) /\ UNCHANGED <<unread, orphans, stray>>
    BY <2>1 DEF Send, late
  <2>3. ~stray /\ Stream => Rest BY <2>1 DEF Stream
  <2>. QED BY <1>r, <2>1, <2>2, <2>3, AsksOwn
<1>3. CASE Launch
  <2>1. /\ app = "off" /\ app' = "on" /\ pc = "idle" /\ UNCHANGED <<mode, n, sid, session>>
    BY <1>3 DEF Launch, work, super, helper, RunOK
  <2>3. ~stray /\ Stream => Rest BY <2>1 DEF Stream
  <2>4. CASE pc' = "boot" /\ Send("restore", None)
    <3>1. inbox' = Append(inbox, Req("restore", None)) /\ UNCHANGED <<unread, orphans, stray>>
      BY <2>4 DEF Send, late
    <3>. QED BY <1>r, <2>1, <2>3, <2>4, <3>1, AsksOwn
  <2>5. CASE UNCHANGED <<pc, conn>>
    <3>1. UNCHANGED <<inbox, unread, orphans, stray>> BY <2>5 DEF conn, late
    <3>. QED BY <2>1, <2>3, <2>5, <3>1, FailsOwn
  <2>. QED BY <1>3, <2>4, <2>5 DEF Launch
<1>4. ASSUME NEW m \in {"tun", "proxy"}, Begin(m) PROVE OwnOK'
  <2>1. /\ app' = "on" /\ pc = "idle" /\ pc' \in {"idle", "attempt"}
        /\ UNCHANGED <<n, sid, inbox, unread, orphans, stray, session>>
    BY <1>4 DEF Begin, work, conn, late, helper
  <2>2. ~stray /\ Stream => Rest BY <2>1 DEF Stream
  <2>. QED BY <2>1, <2>2, FailsOwn
<1>. QED BY <1>1, <1>2, <1>3, <1>4, QuitOwn, LeavesOwn DEF User

LEMMA TimesOutOwn ==
    ASSUME Shape, RunOK, OwnOK, TimesOut PROVE OwnOK'
<1>1. /\ pc \in Waiting /\ unread = <<>> /\ UNCHANGED <<sid, session>>
  BY DEF TimesOut, super, helper
<1>2. app = "on" BY <1>1, OnIfBusy DEF Waiting
<1>3. CASE pc = "fd" /\ NextOrFail /\ UNCHANGED conn
  <2>1. UNCHANGED <<inbox, unread, orphans, stray>> BY <1>3 DEF conn, late
  <2>2. ASSUME ~stray, Stream PROVE Rest
    <3>1. Len(unread) = 0 BY <1>1, Lens
    <3>2. OwnFd BY <1>3, <2>2, <3>1 DEF Stream, FdLost
    <3>3. Len(inbox) = 1 /\ inbox[1] = Req("fd", n) BY <3>1, <3>2 DEF OwnFd
    <3>4. n # None /\ n \in Nat
      <4>1. n \in Attempt BY <1>3, Numbers DEF Trying
      <4>. QED BY <4>1, Numbers DEF Attempt, None
    <3>5. Safe(n) BY <1>3, <3>4 DEF OwnOK, IdsBelow, OwnPhase, Safe
    <3>6. FdAsked BY <3>1, <3>3, <3>4, <3>5 DEF FdAsked, Req
    <3>. QED BY <3>3, <3>6 DEF Rest, FdDue
  <2>. QED BY <1>1, <1>2, <1>3, <2>1, <2>2, NextIs, FailsOwn
<1>4. CASE Drop /\ NextOrFail BY <1>1, <1>2, <1>4, NextIs, DropsOwn
<1>5. CASE /\ Drop /\ UNCHANGED <<app, work>>
           /\ pc' \in {"idle", "exit"} \/ (pc = "commit" /\ pc' = "undo")
  BY <1>1, <1>2, <1>5, DropsOwn DEF work
<1>. QED BY <1>3, <1>4, <1>5 DEF TimesOut

------------------------------------------------------------------------------
(* The helper's side *)

(* A session that nothing on a dropped connection ends is left alone, and  *)
(* another cannot be raised over it.                                       *)
LEMMA GuardedServe ==
    ASSUME Shape, NEW r \in Request, NEW resp, Serve(r, resp), session # None,
           r.req # "restore", r.req \in Targets => r.id # session
    PROVE  session' = session /\ (r.req = "up" => resp = "conflict")
  BY DEF Serve, ServeUp, ServeFd, ServeCommit, ServeDown, ServeRestore, helper, Targets

LEMMA LateOwn ==
    ASSUME Shape, OwnOK, HelperServesLate PROVE OwnOK'
<1>1. PICK q \in orphans, resp \in {"ok", "conflict", "error", "fd"} :
         /\ Serve(Head(q), resp)
         /\ orphans' = (orphans \ {q}) \cup (IF Len(q) = 1 THEN {} ELSE {Tail(q)})
  BY DEF HelperServesLate
<1>2. UNCHANGED <<app, pc, mode, n, sid, tunFd, inbox, unread, stray>>
  BY DEF HelperServesLate, work, super
<1>3. q \in Seq(Request) /\ q # <<>> BY DEF Shape, ConnOK
<1>4. /\ Len(q) \in Nat \ {0} /\ Len(Tail(q)) = Len(q) - 1 /\ Head(q) = q[1]
      /\ \A i \in 1 .. Len(q) - 1 : i + 1 \in 1 .. Len(q) /\ Tail(q)[i] = q[i + 1]
  BY <1>3, Shrinks
<1>5. Head(q) \in Request /\ Head(q) = q[1] /\ 1 \in 1 .. Len(q) BY <1>3, <1>4
<1>6. \A s \in orphans' : s \in orphans \/ (Len(s) = Len(q) - 1
          /\ \A i \in 1 .. Len(s) : i + 1 \in 1 .. Len(q) /\ s[i] = q[i + 1])
  <2>. DEFINE t == Tail(q)
  <2>1. Len(t) = Len(q) - 1 /\ (\A i \in 1 .. Len(t) : i + 1 \in 1 .. Len(q) /\ t[i] = q[i + 1])
    BY <1>4
  <2>2. \A s \in orphans' : s \in orphans \/ s = t BY <1>1
  <2>. HIDE DEF t
  <2>. QED BY <2>1, <2>2
<1>7. ASSUME NEW s \in orphans', NEW i \in 1 .. Len(s)
      PROVE  \E o \in orphans : \E j \in 1 .. Len(o) : s[i] = o[j]
  <2>1. CASE s \in orphans BY <2>1
  <2>2. CASE \A k \in 1 .. Len(s) : k + 1 \in 1 .. Len(q) /\ s[k] = q[k + 1] BY <2>2
  <2>. QED BY <1>6, <2>1, <2>2
<1>8. \A s : Safe(s) => Safe(s)' BY <1>7 DEF Safe
<1>9. ASSUME ~stray, Guarded PROVE session' = session /\ Guarded'
  <2>1. Head(q).req # "restore" BY <1>5, <1>9 DEF OwnOK, NoRestore
  <2>2. Head(q).req \in Targets => Head(q).id # session BY <1>5, <1>9 DEF Guarded, Safe
  <2>3. session' = session BY <1>1, <1>5, <1>9, <2>1, <2>2, GuardedServe DEF Guarded
  <2>. QED BY <1>8, <1>9, <2>3 DEF Guarded
<1>10. IdsBelow'
  <2>1. ASSUME NEW s \in orphans' \cup {inbox'}, NEW i \in 1 .. Len(s), s[i].req \in Targets
        PROVE  \E r \in orphans \cup {inbox} : \E j \in 1 .. Len(r) : s[i] = r[j]
    <3>1. CASE s \in orphans' BY <1>7, <3>1
    <3>2. CASE s = inbox' BY <1>2, <3>2
    <3>. QED BY <3>1, <3>2
  <2>. QED BY <1>2, <2>1, IdsKept DEF OwnOK
<1>11. OnlyTun' BY <1>2 DEF OwnOK, OnlyTun
<1>12. ASSUME ~stray' PROVE NoRestore' /\ Stream'
  <2>1. NoRestore /\ Stream /\ ~stray BY <1>2, <1>12 DEF OwnOK
  <2>2. NoRestore' BY <1>7, <2>1 DEF NoRestore
  <2>3. \A k : RefusedAt(k) => RefusedAt(k)' BY <1>2, <1>9, <2>1 DEF RefusedAt
  <2>4. (Empty => Empty') /\ (FdAsked => FdAsked') /\ (FdGiven => FdGiven')
    BY <1>2, <1>8 DEF Empty, FdAsked, FdGiven
  <2>5. Rest => Rest' BY <1>2, <1>9, <2>1, <2>3, <2>4 DEF Rest, FdDue
  <2>6. pc \in OwnPhase /\ session = n => session' = n
    <3>. SUFFICES ASSUME pc \in OwnPhase, session = n PROVE session' = n OBVIOUS
    <3>1. n # None /\ n \in Nat
      <4>1. n \in Attempt BY Numbers DEF OwnPhase, Trying
      <4>. QED BY <4>1, Numbers DEF Attempt, None
    <3>2. Safe(n) BY <3>1 DEF OwnOK, IdsBelow, Safe
    <3>. QED BY <1>9, <2>1, <3>1, <3>2 DEF Guarded
  <2>7. OwnDue => OwnDue' BY <1>2, <2>6 DEF OwnDue, OwnPhase
  <2>8. (FdFirst => FdFirst') /\ (FdRead => FdRead') BY <1>2, <2>3, <2>4 DEF FdFirst, FdRead
  <2>9. AnswerDue => AnswerDue' BY <2>3, <2>7, <2>8 DEF AnswerDue
  <2>10. (pc \in OwnPhase /\ Mine => Mine') /\ (FdLost => FdLost')
    BY <1>2, <2>3, <2>6 DEF Mine, FdLost
  <2>11. pc \in OwnPhase /\ OwnFd => OwnFd' BY <1>2, <2>10 DEF OwnFd
  <2>. QED BY <1>2, <2>1, <2>2, <2>4, <2>5, <2>7, <2>9, <2>10, <2>11 DEF Stream, OwnPhase
<1>. QED BY <1>10, <1>11, <1>12 DEF OwnOK

(* The first request of the connection is served.                          *)
LEMMA ServedOwn ==
    ASSUME Shape, OwnOK, HelperServes PROVE OwnOK'
<1>1. PICK resp \in {"ok", "conflict", "error", "fd"} :
         Serve(Head(inbox), resp) /\ unread' = unread \o Frames(resp, Head(inbox).id)
  BY DEF HelperServes
<1>2. /\ inbox # <<>> /\ inbox' = Tail(inbox)
      /\ UNCHANGED <<app, pc, mode, n, sid, tunFd, orphans, stray>>
  BY DEF HelperServes, work, super, late
<1>. DEFINE r == inbox[1]
            m == Len(unread)
<1>3. /\ Len(inbox) \in Nat \ {0} /\ Len(inbox') = Len(inbox) - 1 /\ Head(inbox) = r
      /\ \A i \in 1 .. Len(inbox) - 1 : i + 1 \in 1 .. Len(inbox) /\ inbox'[i] = inbox[i + 1]
      /\ r \in Request /\ r.id \in Id
  <2>1. inbox \in Seq(Request) BY DEF Shape, ConnOK
  <2>2. r \in Request BY <1>2, <2>1
  <2>3. r.id \in Id BY <2>2 DEF Request
  <2>. QED BY <1>2, <2>1, <2>2, <2>3, Shrinks
<1>4. Serve(r, resp) BY <1>1, <1>3
<1>5. /\ m \in Nat
      /\ m + 1 \in 1 .. Len(unread')
      /\ \A i \in 1 .. m : i \in 1 .. Len(unread') /\ unread'[i] = unread[i]
      /\ unread'[m + 1] = [resp |-> resp, id |-> r.id]
      /\ resp # "fd" => Len(unread') = m + 1
      /\ resp = "fd" => Len(unread') = m + 2 /\ unread'[m + 2] = [resp |-> "fdmsg", id |-> r.id]
  <2>. DEFINE f == Frames(resp, r.id)
  <2>1. /\ Len(unread) \in Nat /\ Len(unread') = Len(unread) + Len(f)
        /\ \A i \in 1 .. Len(unread) : unread'[i] = unread[i]
        /\ unread'[Len(unread) + 1] = [resp |-> resp, id |-> r.id]
        /\ resp = "fd" => unread'[Len(unread) + 2] = [resp |-> "fdmsg", id |-> r.id]
    BY <1>1, <1>3, AnsweredType
  <2>2. (resp # "fd" => Len(f) = 1) /\ (resp = "fd" => Len(f) = 2)
    <3>1. r.id \in Id BY <1>3
    <3>. DEFINE nr == r.id
    <3>2. nr \in Id BY <3>1
    <3>. HIDE DEF nr
    <3>3. (resp # "fd" => Len(Frames(resp, nr)) = 1) /\ (resp = "fd" => Len(Frames(resp, nr)) = 2)
      BY <3>2, FramesLength
    <3>. QED BY <3>3 DEF nr
  <2>3. m = Len(unread) OBVIOUS
  <2>. HIDE DEF f, m, r
  <2>4. Len(unread') = m + 1 \/ Len(unread') = m + 2 BY <2>1, <2>2, <2>3
  <2>5. m \in Nat /\ m + 1 \in 1 .. Len(unread') BY <2>1, <2>3, <2>4
  <2>6. \A i \in 1 .. m : i \in 1 .. Len(unread') /\ unread'[i] = unread[i]
    BY <2>1, <2>3, <2>4, <2>5
  <2>7. (resp # "fd" => Len(unread') = m + 1) /\ (resp = "fd" => Len(unread') = m + 2)
    BY <2>1, <2>2, <2>3
  <2>. QED BY <2>1, <2>3, <2>5, <2>6, <2>7
<1>. HIDE DEF r, m
<1>6. \A s : Safe(s) => Safe(s)' BY <1>2 DEF Safe
<1>7. IdsBelow'
  <2>1. \A i \in 1 .. Len(inbox') : \E j \in 1 .. Len(inbox) : inbox'[i] = inbox[j]
    BY <1>3
  <2>. QED BY <1>2, <2>1, IdsConn DEF OwnOK
<1>8. OnlyTun' BY <1>2 DEF OwnOK, OnlyTun
<1>9. ASSUME ~stray' PROVE NoRestore' /\ Stream'
  <2>1. NoRestore /\ Stream BY <1>2, <1>9 DEF OwnOK
  <2>2. NoRestore' BY <1>2, <2>1 DEF NoRestore
  <2>3. ~Empty BY <1>3 DEF Empty
  <2>4. Guarded /\ r.req = "up" => resp = "conflict"
    BY <1>3, <1>4, GuardedServe DEF Guarded, Targets
  <2>5. ASSUME NEW k \in {1, 2, 3}, RefusedAt(k) PROVE RefusedAt(k)'
    <3>1. CASE k \in 1 .. Len(unread) /\ unread[k].resp \notin {"ok", "fd"}
      BY <1>5, <3>1 DEF RefusedAt, m
    <3>2. CASE Len(unread) = k - 1 /\ Len(inbox) >= 1 /\ inbox[1].req = "up" /\ Guarded
      <4>1. k = m + 1 /\ resp = "conflict" BY <1>5, <2>4, <3>2 DEF m, r
      <4>. QED BY <1>5, <4>1 DEF RefusedAt
    <3>. QED BY <2>5, <3>1, <3>2 DEF RefusedAt
  <2>6. FdGiven => FdGiven' BY <1>5 DEF FdGiven, m
  (* A descriptor that was asked for is handed out, or refused.            *)
  <2>7. ASSUME FdAsked
        PROVE  \/ RefusedAt(1)'
               \/ /\ FdGiven' /\ Len(unread') = 2 /\ Guarded' /\ resp = "fd"
                  /\ session' = session /\ session = r.id
    <3>1. r.req = "fd" /\ r.id # None /\ Safe(r.id) /\ m = 0 BY <2>7 DEF FdAsked, r, m
    <3>2. resp = (IF session = r.id THEN "fd" ELSE "error") /\ session' = session
      BY <1>4, <3>1 DEF Serve, ServeFd, helper
    <3>3. CASE session = r.id
      <4>1. Len(unread') = 2 /\ unread'[1].resp = "fd" /\ unread'[2].resp = "fdmsg"
        BY <1>5, <3>1, <3>2, <3>3
      <4>2. Guarded' BY <1>6, <3>1, <3>2, <3>3 DEF Guarded
      <4>. QED BY <3>2, <3>3, <4>1, <4>2 DEF FdGiven
    <3>4. CASE session # r.id
      <4>1. 1 \in 1 .. Len(unread') /\ unread'[1].resp = "error" BY <1>5, <3>1, <3>2, <3>4
      <4>. QED BY <4>1 DEF RefusedAt
    <3>. QED BY <3>3, <3>4
  <2>8. Rest => Rest'
    <3>1. CASE RefusedAt(1) BY <2>5, <3>1 DEF Rest
    <3>2. CASE FdDue
      <4>1. FdAsked /\ Len(inbox) = 1 BY <1>3, <3>2 DEF FdDue
      <4>2. Len(inbox') = 0 BY <1>3, <4>1
      <4>. QED BY <2>7, <4>1, <4>2 DEF Rest, FdDue
    <3>. QED BY <2>3, <3>1, <3>2 DEF Rest
  <2>9. OwnDue => OwnDue'
    <3>. SUFFICES ASSUME OwnDue PROVE OwnDue' OBVIOUS
    <3>1. /\ m = 0 /\ Len(inbox) = 1 /\ r.req # "fd"
          /\ pc \in {"up", "up2"} => r = Req("up", n)
      BY <1>3 DEF OwnDue, r, m
    <3>2. resp # "fd" BY <1>4, <3>1 DEF Serve, ServeUp, ServeCommit, ServeDown, ServeRestore, Undo
    <3>3. Len(unread') = 1 /\ Len(inbox') = 0 /\ unread'[1].resp = resp
      BY <1>3, <1>5, <3>1, <3>2
    <3>4. pc \in {"up", "up2"} /\ resp = "ok" => session' = n
      BY <1>4, <3>1 DEF Serve, ServeUp, Req
    <3>. QED BY <1>2, <3>2, <3>3, <3>4 DEF OwnDue
  <2>10. AnswerDue => AnswerDue'
    <3>1. FdRead => FdRead' BY <1>2, <2>5, <2>6 DEF FdRead
    <3>2. ASSUME FdFirst PROVE RefusedAt(1)' \/ FdRead'
      <4>1. FdAsked /\ Len(inbox) = 2 /\ (pc = "up" => inbox[2].req = "up")
        BY <3>2 DEF FdFirst
      <4>2. Len(inbox') = 1 /\ inbox'[1] = inbox[2] BY <1>3, <4>1
      <4>3. ASSUME Guarded', Len(unread') = 2, pc = "up" PROVE RefusedAt(3)'
        BY <4>1, <4>2, <4>3 DEF RefusedAt
      <4>. QED BY <1>2, <2>7, <4>1, <4>3 DEF FdRead
    <3>3. RefusedAt(1) => RefusedAt(1)' BY <2>5
    <3>. QED BY <2>9, <3>1, <3>2, <3>3 DEF AnswerDue
  <2>11. ASSUME pc = "fd" PROVE OwnFd' \/ FdLost'
    <3>1. CASE OwnFd
      <4>1. m = 0 /\ Len(inbox) = 1 /\ r = Req("fd", n) /\ session = n /\ sid = n
        BY <1>3, <3>1 DEF OwnFd, Mine, r, m
      <4>2. resp = "fd" /\ session' = session
        BY <1>4, <4>1 DEF Serve, ServeFd, Req, helper
      <4>3. Len(unread') = 2 /\ unread'[1] = [resp |-> "fd", id |-> n] /\ Len(inbox') = 0
        BY <1>3, <1>5, <4>1, <4>2 DEF Req
      <4>. QED BY <1>2, <4>1, <4>2, <4>3 DEF OwnFd, Mine
    <3>2. CASE FdLost
      <4>1. 1 \in 1 .. m /\ RefusedAt(2) /\ unread[1].resp # "fd" BY <1>5, <3>2 DEF FdLost, m
      <4>2. RefusedAt(2)' BY <2>5, <4>1
      <4>3. Len(unread') >= 1 /\ unread'[1].resp # "fd" BY <1>5, <4>1
      <4>. QED BY <4>2, <4>3 DEF FdLost
    <3>. QED BY <2>1, <2>11, <3>1, <3>2 DEF Stream
  <2>. QED BY <1>2, <2>1, <2>2, <2>3, <2>8, <2>9, <2>10, <2>11 DEF Stream
<1>. QED BY <1>7, <1>8, <1>9 DEF OwnOK

LEMMA QuietOwn ==
    ASSUME OwnOK, UNCHANGED <<inbox, unread, orphans, stray, session, pc, n, sid, mode, tunFd, app>>
    PROVE  OwnOK'
<1>1. IdsBelow' /\ OnlyTun' BY DEF OwnOK, IdsBelow, OnlyTun
<1>2. NoRestore => NoRestore' BY DEF NoRestore
<1>. QED BY <1>1, <1>2, StreamSame DEF OwnOK

LEMMA StepOwn ==
    ASSUME Shape, RunOK, OwnOK, [Next]_vars PROVE OwnOK'
<1>1. CASE Publish \/ UNCHANGED vars \/ \E p \in Attempt : CoreDies(p) \/ OutputEnds(p)
  <2>1. UNCHANGED <<inbox, unread, orphans, stray, session, pc, n, sid, mode, tunFd, app>>
    BY <1>1 DEF Publish, vars, CoreDies, OutputEnds, conn, late, helper, super, work
  <2>. QED BY <2>1, QuietOwn
<1>2. CASE Ending
  BY <1>2, RollbackAsksOwn, EndsOwn, LeavesOwn, ExitOwn DEF Ending
<1>. QED
  BY <1>1, <1>2, AttemptingOwn, UserOwn, TimesOutOwn, ServedOwn, LateOwn DEF Next

LEMMA InitOwn == ASSUME Init PROVE OwnOK
<1>1. Len(inbox) = 0 /\ Len(unread) = 0 /\ orphans = {} /\ sid = 0 /\ n = 0 BY DEF Init, None
<1>2. IdsBelow BY <1>1 DEF IdsBelow
<1>3. OnlyTun /\ NoRestore /\ Empty BY <1>1 DEF Init, OnlyTun, NoRestore, Empty
<1>. QED BY <1>2, <1>3 DEF Init, OwnOK, Stream, Rest

(* Up to the commit everything a start works with is the attempt's own: a  *)
(* session left in the helper by an earlier attempt never ends up under a  *)
(* later one's core (StartOwnsSession).                                    *)
THEOREM StartsOnItsOwn == Spec => []StartOwnsSession
<1>1. Init => RunOK BY DEF Init, RunOK, Known, Busy, Trying
<1>2. Shape /\ RunOK /\ [Next]_vars /\ Shape' => RunOK' BY StepRuns
<1>3. Init => OwnOK BY InitOwn
<1>4. Shape /\ RunOK /\ OwnOK /\ [Next]_vars => OwnOK' BY StepOwn
<1>5. OwnOK => StartOwnsSession BY DEF OwnOK, Stream, Mine, StartOwnsSession
<1>. QED BY <1>1, <1>2, <1>3, <1>4, <1>5, ShapeStays, PTL DEF Spec

------------------------------------------------------------------------------
(* A connection that is shown carries the traffic.  A core that was ever   *)
(* shown, or will be, is the supervisor's if it still runs; what the       *)
(* supervisor runs in TUN mode has been committed under its number, its    *)
(* utun is held by the app, and nothing is left that could undo it.        *)
ToldOf(pid, id) ==
    /\ pid <= n /\ (pc \in Trying \ {"attempt"} => pid < n)
    /\ pid \in cores /\ pc # "exit" => pid = proc /\ id = sid

TellsOK ==
    /\ ToldOf(shown.pid, shown.sid)
    /\ \A i \in 1 .. Len(updates) :
         updates[i].what = "connected" => ToldOf(updates[i].pid, updates[i].sid)
    /\ app = "off" => shown.pid = None /\ Len(updates) = 0

Holds == sid = n /\ n \in fds /\ Safe(n)

Carried == Holds /\ session = n /\ routes = n /\ resolver = "sentinel"

CarryOK ==
    /\ pc = "repair" => used["repair"] # 0
    /\ pc = "boot" => proc = None
    /\ ~stray /\ mode = "tun" =>
         /\ pc \in {"spawn", "ready", "gate"} => n \in fds
         /\ pc = "commit" =>
              \/ /\ Len(unread) = 0 /\ Len(inbox) = 1 /\ inbox[1] = Req("commit", n)
                 /\ Holds /\ session = n
              \/ /\ Len(unread) = 1 /\ Len(inbox) = 0
                 /\ unread[1].resp \in {"ok", "fd"} => Carried
         /\ pc \in {"recheck", "success"} => Carried
         /\ app = "on" /\ pc = "idle" /\ proc # None /\ used["repair"] = 0 =>
              proc = n /\ Carried /\ Empty

(* ToldOf in the state that follows.                                       *)
StillTold(pid, id) ==
    /\ pid <= n' /\ (pc' \in Trying \ {"attempt"} => pid < n')
    /\ pid \in cores' /\ pc' # "exit" => pid = proc' /\ id = sid'

LEMMA TellsAre ==
    ASSUME StillTold(shown'.pid, shown'.sid),
           \A i \in 1 .. Len(updates') :
             updates'[i].what = "connected" => StillTold(updates'[i].pid, updates'[i].sid),
           app' = "off" => shown'.pid = None /\ Len(updates') = 0
    PROVE  TellsOK'
  BY DEF TellsOK, ToldOf, StillTold

LEMMA OldTold ==
    ASSUME NEW pid \in Id, NEW id, Shape, ToldOf(pid, id), n' = n,
           pc' \in Trying \ {"attempt"} => pc \in Trying \ {"attempt"}, cores' \subseteq cores,
           \/ proc' = proc /\ sid' = sid /\ (pc = "exit" => pc' = "exit")
           \/ pc' = "exit"
           \/ pc # "exit" /\ proc \notin cores'
    PROVE  StillTold(pid, id)
  BY DEF ToldOf, StillTold

LEMMA TellsStep ==
    ASSUME Shape, TellsOK, shown' = shown,
           \A pid, id \in Id : ToldOf(pid, id) => StillTold(pid, id),
           updates' = updates \/ \E u : Owe(u) /\ u.what # "connected",
           app' = "off" => app = "off" /\ updates' = updates
    PROVE  TellsOK'
<1>1. /\ shown.pid \in Id /\ shown.sid \in Id /\ updates \in Seq(UpdateRec)
  BY DEF Shape, ToldOK
<1>2. \A i \in 1 .. Len(updates) : updates[i].pid \in Id /\ updates[i].sid \in Id
  <2>1. \A i \in 1 .. Len(updates) : updates[i] \in UpdateRec BY <1>1
  <2>. QED BY <2>1 DEF UpdateRec
<1>3. StillTold(shown'.pid, shown'.sid) BY <1>1 DEF TellsOK
<1>4. ASSUME NEW i \in 1 .. Len(updates'), updates'[i].what = "connected"
      PROVE  i \in 1 .. Len(updates) /\ updates'[i] = updates[i]
  <2>1. CASE updates' = updates BY <2>1
  <2>2. CASE \E u : Owe(u) /\ u.what # "connected"
    <3>1. PICK u : updates' = Append(updates, u) /\ u.what # "connected" BY <2>2 DEF Owe
    <3>2. /\ Len(updates) \in Nat /\ Len(updates') = Len(updates) + 1
          /\ \A k \in 1 .. Len(updates) : updates'[k] = updates[k]
          /\ updates'[Len(updates) + 1] = u
      BY <1>1, <3>1
    <3>3. i # Len(updates) + 1 BY <1>4, <3>1, <3>2
    <3>. QED BY <3>2, <3>3
  <2>. QED BY <2>1, <2>2
<1>5. ASSUME NEW i \in 1 .. Len(updates'), updates'[i].what = "connected"
      PROVE  StillTold(updates'[i].pid, updates'[i].sid)
  <2>1. i \in 1 .. Len(updates) /\ updates'[i] = updates[i] BY <1>4, <1>5
  <2>2. ToldOf(updates[i].pid, updates[i].sid) BY <1>5, <2>1 DEF TellsOK
  <2>3. StillTold(updates[i].pid, updates[i].sid) BY <1>2, <2>1, <2>2
  <2>. QED BY <2>1, <2>3
<1>6. app' = "off" => shown'.pid = None /\ Len(updates') = 0 BY DEF TellsOK
<1>. QED BY <1>3, <1>5, <1>6, TellsAre

LEMMA NotConnected ==
    ASSUME NEW what \in {"failed", "rolled back", "unconfirmed", "ended"}, NEW p,
           Owe(Update(what, p, None))
    PROVE  shown' = shown /\ \E u : Owe(u) /\ u.what # "connected"
<1>1. Update(what, p, None).what # "connected" BY DEF Update
<1>2. shown' = shown BY DEF Owe
<1>. QED BY <1>1, <1>2

LEMMA NextTells ==
    ASSUME NextOrFail
    PROVE  shown' = shown /\ (updates' = updates \/ \E u : Owe(u) /\ u.what # "connected")
<1>1. CASE UNCHANGED told BY <1>1 DEF told
<1>2. CASE Owe(Update("failed", None, None)) BY <1>2, NotConnected
<1>. QED BY <1>1, <1>2 DEF NextOrFail

LEMMA AttemptingTells ==
    ASSUME Shape, RunOK, TellsOK, Attempting, Shape' PROVE TellsOK'
<1>1. pc \in Trying /\ app = "on" /\ proc = None
  <2>1. pc \in Trying
    BY DEF Attempting, StartAttempt, RefusedEarly, UpAnswered, Healed, FdAnswered, SpawnCore,
           SpawnFails, Ready, PassGate, GiveUp, CommitAnswered, StillReachable, Started, Trying
  <2>. QED BY <2>1 DEF RunOK, Busy, Trying, Shape, WorkOK
<1>2. proc \notin cores' BY <1>1 DEF Shape, CoreOK, Attempt, None
<1>3. n \in Nat /\ Id \subseteq Nat BY Numbers DEF Id, Attempt, None
<1>4. CASE StartAttempt
  <2>1. /\ n' = n + 1 /\ app' = app
        /\ UNCHANGED <<shown, updates, cores>>
    BY <1>4 DEF StartAttempt, told, core
  <2>2. ASSUME NEW pid \in Id, NEW id \in Id, ToldOf(pid, id) PROVE StillTold(pid, id)
    <3>1. pid <= n /\ pid \in Nat BY <1>3, <2>2 DEF ToldOf, StillTold
    <3>2. pid <= n' /\ pid < n' BY <1>3, <2>1, <3>1
    <3>3. pid \notin cores' BY <1>1, <1>2, <2>1, <2>2 DEF ToldOf, StillTold, Trying
    <3>. QED BY <3>2, <3>3 DEF ToldOf, StillTold
  <2>. QED BY <1>1, <2>1, <2>2, TellsStep
<1>5. CASE SpawnCore
  <2>1. /\ pc = "spawn" /\ pc' = "ready" /\ cores' = cores \cup {n}
        /\ UNCHANGED <<shown, updates, n, app, proc>>
    BY <1>5 DEF SpawnCore, told, work, super
  <2>2. ASSUME NEW pid \in Id, NEW id \in Id, ToldOf(pid, id) PROVE StillTold(pid, id)
    <3>1. pid < n /\ pid <= n BY <2>1, <2>2 DEF ToldOf, StillTold, Trying
    <3>2. pid # n BY <1>3, <3>1
    <3>3. pid \notin cores' BY <1>1, <1>2, <2>1, <2>2, <3>2 DEF ToldOf, StillTold
    <3>. QED BY <2>1, <3>1, <3>3 DEF ToldOf, StillTold
  <2>. QED BY <1>1, <2>1, <2>2, TellsStep
<1>6. CASE Started
  <2>1. /\ pc = "success" /\ pc' = "idle" /\ proc' = n
        /\ UNCHANGED <<app, n, sid, cores>> /\ shown' = shown
        /\ updates' = Append(updates, Update("connected", n, sid))
    BY <1>6 DEF Started, core, Owe
  <2>2. ASSUME NEW pid \in Id, NEW id \in Id, ToldOf(pid, id) PROVE StillTold(pid, id)
    BY <1>1, <1>2, <2>1, <2>2, OldTold
  <2>3. StillTold(n, sid) BY <1>3, <2>1 DEF ToldOf, StillTold, Trying
  <2>4. /\ shown.pid \in Id /\ shown.sid \in Id /\ updates \in Seq(UpdateRec)
    BY DEF Shape, ToldOK
  <2>5. /\ Len(updates) \in Nat /\ Len(updates') = Len(updates) + 1
        /\ \A k \in 1 .. Len(updates) : updates'[k] = updates[k] /\ updates[k] \in UpdateRec
        /\ updates'[Len(updates) + 1] = Update("connected", n, sid)
    BY <2>1, <2>4
  <2>6. ASSUME NEW i \in 1 .. Len(updates'), updates'[i].what = "connected"
        PROVE  StillTold(updates'[i].pid, updates'[i].sid)
    <3>1. CASE i \in 1 .. Len(updates)
      <4>1. updates'[i] = updates[i] /\ updates[i].pid \in Id /\ updates[i].sid \in Id
        BY <2>5, <3>1 DEF UpdateRec
      <4>2. ToldOf(updates[i].pid, updates[i].sid) BY <2>6, <3>1, <4>1 DEF TellsOK
      <4>3. StillTold(updates[i].pid, updates[i].sid) BY <2>2, <4>1, <4>2
      <4>. QED BY <4>1, <4>3
    <3>2. CASE i = Len(updates) + 1
      <4>1. updates'[i].pid = n /\ updates'[i].sid = sid BY <2>5, <3>2 DEF Update
      <4>2. updates'[i].pid = n' /\ updates'[i].sid = sid' BY <2>1, <4>1
      <4>. QED BY <2>1, <2>3, <4>2 DEF ToldOf, StillTold
    <3>. QED BY <2>5, <3>1, <3>2
  <2>7. StillTold(shown'.pid, shown'.sid) BY <2>1, <2>2, <2>4 DEF TellsOK
  <2>. QED BY <1>1, <2>1, <2>6, <2>7, TellsAre
<1>7. CASE ~StartAttempt /\ ~SpawnCore /\ ~Started
  <2>1. \/ NextOrFail /\ (pc \in Trying \ {"attempt"} \/ pc = "attempt")
        \/ UNCHANGED told /\ UNCHANGED <<app, work>> /\ pc \in Trying \ {"attempt"} /\ pc' \in Trying
    BY <1>7 DEF Attempting, RefusedEarly, UpAnswered, Healed, FdAnswered, SpawnFails, Ready,
           PassGate, GiveUp, CommitAnswered, StillReachable, Trying
  <2>2. cores' \subseteq cores
    BY <1>7 DEF Attempting, RefusedEarly, UpAnswered, Healed, FdAnswered, SpawnFails, Ready,
           PassGate, GiveUp, CommitAnswered, StillReachable, core
  <2>3. n' = n /\ app' = app /\ (pc' \in Trying \ {"attempt"} => pc \in Trying \ {"attempt"})
    BY <2>1, NextIs DEF work, Trying
  <2>4. \A pid, id \in Id : ToldOf(pid, id) => StillTold(pid, id)
    BY <1>1, <1>2, <2>2, <2>3, OldTold DEF Trying
  <2>5. shown' = shown /\ (updates' = updates \/ \E u : Owe(u) /\ u.what # "connected")
    BY <2>1, NextTells DEF told
  <2>. QED BY <1>1, <2>3, <2>4, <2>5, TellsStep
<1>. QED BY <1>4, <1>5, <1>6, <1>7

LEMMA EndingTells ==
    ASSUME Shape, RunOK, TellsOK, RollbackAsks \/ UndoEnds \/ StopEnds, Shape' PROVE TellsOK'
<1>1. /\ pc \in {"undo", "undowait", "stop", "stopwait"} /\ pc' \notin Trying \ {"attempt", "undowait"}
      /\ pc' = "undowait" => pc = "undo"
      /\ UNCHANGED <<app, n, cores>>
  BY NextIs DEF RollbackAsks, UndoEnds, StopEnds, work, core, Trying
<1>2. proc = None /\ app = "on" BY <1>1, OnIfBusy DEF RunOK, Busy, Trying
<1>3. proc \notin cores' BY <1>2 DEF Shape, CoreOK, Attempt, None
<1>4. \A pid, id \in Id : ToldOf(pid, id) => StillTold(pid, id)
  BY <1>1, <1>3, OldTold DEF Trying
<1>5. shown' = shown /\ (updates' = updates \/ \E u : Owe(u) /\ u.what # "connected")
  BY NextTells, NotConnected DEF RollbackAsks, UndoEnds, StopEnds, told
<1>. QED BY <1>1, <1>2, <1>4, <1>5, TellsStep

LEMMA QuietTells ==
    ASSUME Shape, TellsOK, n' = n, UNCHANGED <<shown, updates>>, cores' \subseteq cores,
           pc' \in Trying \ {"attempt"} => pc \in Trying \ {"attempt"}, app' = app \/ app' = "on",
           \/ proc' = proc /\ sid' = sid /\ (pc = "exit" => pc' = "exit")
           \/ pc' = "exit"
           \/ pc # "exit" /\ proc \notin cores'
    PROVE  TellsOK'
<1>1. \A pid, id \in Id : ToldOf(pid, id) => StillTold(pid, id) BY OldTold
<1>2. app \in {"on", "off"} BY DEF Shape, WorkOK
<1>. QED BY <1>1, <1>2, TellsStep

LEMMA UserTells ==
    ASSUME Shape, RunOK, TellsOK, User, Shape' PROVE TellsOK'
<1>1. CASE Stop
  <2>1. /\ pc = "idle" /\ pc' = "stop" /\ app' = "on" /\ cores' = cores \ {proc}
        /\ UNCHANGED <<n, shown, updates>>
    BY <1>1 DEF Stop, work, told
  <2>2. cores' \subseteq cores /\ proc \notin cores' BY <2>1
  <2>. QED BY <2>1, <2>2, QuietTells DEF Trying
<1>2. CASE Repair \/ Quit \/ Launch
  <2>1. /\ UNCHANGED <<n, shown, updates, cores, proc, sid>>
        /\ app' = app \/ app' = "on"
        /\ pc' \in {"repair", "leave", "exit", "boot"} \/ pc' = pc
        /\ pc = "exit" => pc' = "exit"
    BY <1>2 DEF Repair, Quit, Launch, work, told, core, super, RunOK
  <2>. QED BY <2>1, QuietTells DEF Trying
<1>3. CASE Crash
  <2>1. /\ pc' = "exit" /\ app' = "on" /\ shown' = Stopped /\ UNCHANGED <<n, updates>>
    BY <1>3 DEF Crash, work
  <2>2. ASSUME NEW i \in 1 .. Len(updates), updates[i].what = "connected"
        PROVE  StillTold(updates[i].pid, updates[i].sid)
    BY <2>1, <2>2 DEF TellsOK, ToldOf, StillTold, Trying
  <2>3. shown'.pid = None /\ shown'.sid = None BY <2>1 DEF Stopped
  <2>4. StillTold(shown'.pid, shown'.sid) BY <2>1, <2>3, Numbers DEF ToldOf, StillTold, None, Trying
  <2>. QED BY <2>1, <2>2, <2>4, TellsAre
<1>4. ASSUME NEW m \in {"tun", "proxy"}, Begin(m) PROVE TellsOK'
  <2>1. /\ pc = "idle" /\ pc' \in {"idle", "attempt"} /\ app' = app
        /\ UNCHANGED <<n, shown, updates, cores, sid>>
        /\ proc' = proc \/ proc \notin cores
    BY <1>4 DEF Begin, work, core
  <2>. QED BY <2>1, QuietTells DEF Trying
<1>. QED BY <1>1, <1>2, <1>3, <1>4 DEF User

LEMMA TimesOutTells ==
    ASSUME Shape, RunOK, TellsOK, TimesOut, Shape' PROVE TellsOK'
<1>1. pc \in Waiting /\ UNCHANGED <<proc, sid>> BY DEF TimesOut, super
<1>2. app = "on" BY <1>1, OnIfBusy DEF Waiting
<1>3. /\ n' = n /\ app' = app /\ cores' \subseteq cores
      /\ pc' \in {"attempt", "idle", "exit"} \/ (pc = "commit" /\ pc' = "undo")
  BY NextIs DEF TimesOut, work
<1>4. shown' = shown /\ (updates' = updates \/ \E u : Owe(u) /\ u.what # "connected")
  BY NextTells, NotConnected DEF TimesOut, told
<1>5. \A pid, id \in Id : ToldOf(pid, id) => StillTold(pid, id)
  BY <1>1, <1>3, OldTold DEF Trying, Waiting
<1>. QED BY <1>2, <1>3, <1>4, <1>5, TellsStep

LEMMA ExitTells ==
    ASSUME Shape, Exit, Shape' PROVE TellsOK'
<1>1. shown'.pid = None /\ shown'.sid = None /\ updates' = <<>> /\ pc' = "idle" /\ n' = n
  BY DEF Exit, Stopped
<1>2. Len(updates') = 0 BY <1>1
<1>3. None \notin cores' BY DEF Shape, CoreOK, Attempt, None
<1>4. StillTold(shown'.pid, shown'.sid) BY <1>1, <1>3, Numbers DEF ToldOf, StillTold, None, Trying
<1>5. Len(updates') = 0 => 1 .. Len(updates') = {} OBVIOUS
<1>. QED BY <1>1, <1>2, <1>4, <1>5, TellsAre

LEMMA CoreEndsTells ==
    ASSUME Shape, RunOK, TellsOK, NEW p \in Attempt, CoreDies(p) \/ OutputEnds(p) PROVE TellsOK'
<1>1. UNCHANGED <<app, pc, n, proc, sid>> /\ cores' \subseteq cores
  BY DEF CoreDies, OutputEnds, super, core, work
<1>2. \A pid, id \in Id : ToldOf(pid, id) => StillTold(pid, id) BY <1>1, OldTold
<1>3. CASE UNCHANGED told BY <1>1, <1>2, <1>3, TellsStep DEF told
<1>4. CASE Owe(Update("ended", p, None)) /\ shown.pid = p
  <2>1. shown' = shown /\ \E u : Owe(u) /\ u.what # "connected" BY <1>4, NotConnected
  <2>2. app' # "off" BY <1>1, <1>4 DEF TellsOK, Attempt, None
  <2>. QED BY <1>2, <2>1, <2>2, TellsStep
<1>. QED BY <1>3, <1>4 DEF CoreDies, OutputEnds

LEMMA PublishTells ==
    ASSUME Shape, TellsOK, Publish, Shape' PROVE TellsOK'
<1>1. app = "on" /\ UNCHANGED <<app, pc, n, proc, sid, cores>>
  BY DEF Publish, super, core, work
<1>2. PICK i \in DOMAIN updates :
         /\ shown' = Shows(updates[i])
         /\ updates' = [k \in 1 .. Len(updates) - 1 |-> updates[IF k < i THEN k ELSE k + 1]]
  BY DEF Publish
<1>3. /\ updates \in Seq(UpdateRec) /\ i \in 1 .. Len(updates) BY DEF Shape, ToldOK
<1>4. \A pid, id : ToldOf(pid, id) => StillTold(pid, id) BY <1>1 DEF ToldOf, StillTold
<1>5. StillTold(shown'.pid, shown'.sid)
  <2>1. \A s : StillTold(None, s)
    <3>1. None \notin cores' /\ None <= n' /\ (pc' \in Trying \ {"attempt"} => None < n')
      BY <1>1, Numbers DEF Shape, CoreOK, Attempt, None
    <3>. QED BY <3>1 DEF ToldOf, StillTold
  <2>2. CASE updates[i].what = "connected"
    <3>1. shown'.pid = updates[i].pid /\ shown'.sid = updates[i].sid BY <1>2, <2>2 DEF Shows
    <3>2. StillTold(updates[i].pid, updates[i].sid) BY <1>3, <1>4, <2>2 DEF TellsOK
    <3>. QED BY <3>1, <3>2
  <2>3. CASE updates[i].what = "ended"
    <3>1. shown' = [shown EXCEPT !.running = FALSE] BY <1>2, <2>3 DEF Shows
    <3>2. shown'.pid = shown.pid /\ shown'.sid = shown.sid BY <3>1 DEF Shape, ToldOK
    <3>3. StillTold(shown.pid, shown.sid) BY <1>4 DEF TellsOK
    <3>. QED BY <3>2, <3>3
  <2>4. CASE updates[i].what \notin {"connected", "ended"}
    <3>1. shown'.pid = None BY <1>2, <2>4 DEF Shows, Stopped
    <3>. QED BY <2>1, <3>1
  <2>. QED BY <2>2, <2>3, <2>4
<1>6. ASSUME NEW k \in 1 .. Len(updates'), updates'[k].what = "connected"
      PROVE  StillTold(updates'[k].pid, updates'[k].sid)
  <2>1. PICK j \in 1 .. Len(updates) : updates'[k] = updates[j] BY <1>2, OneLess
  <2>2. StillTold(updates[j].pid, updates[j].sid) BY <1>4, <1>6, <2>1 DEF TellsOK
  <2>. QED BY <2>1, <2>2
<1>. QED BY <1>1, <1>5, <1>6, TellsAre

LEMMA StepTells ==
    ASSUME Shape, RunOK, TellsOK, [Next]_vars, Shape' PROVE TellsOK'
<1>1. CASE HelperServes \/ HelperServesLate \/ UNCHANGED vars \/ RepairEnds \/ LeaveAnswered
  <2>1. /\ UNCHANGED <<app, n, proc, sid, shown, updates, cores>>
        /\ pc' = pc \/ (pc' \in {"idle", "exit"} /\ pc # "exit")
    BY <1>1 DEF HelperServes, HelperServesLate, RepairEnds, LeaveAnswered, vars, super, told, core,
                work
  <2>. QED BY <2>1, QuietTells DEF Trying
<1>2. CASE Ending BY <1>1, <1>2, EndingTells, ExitTells DEF Ending
<1>. QED
  BY <1>1, <1>2, AttemptingTells, UserTells, TimesOutTells, CoreEndsTells, PublishTells DEF Next

------------------------------------------------------------------------------
(* Every action keeps what is carried *)

LEMMA RepairCount ==
    ASSUME Shape, NEW b \in Bounded, Spend(b)
    PROVE  /\ b # "repair" => used'["repair"] = used["repair"]
           /\ b = "repair" => used'["repair"] # 0
  BY DEF Spend, Shape, CoreOK, Bounded

(* The traffic stays with utun n while the app holds it.                   *)
LEMMA StaysUp ==
    ASSUME NEW s \in SUBSET Id, n \in fds, routes = n, Sweep(Held(hfd, fds, s)) PROVE routes' = n
  BY DEF Sweep, Held

LEMMA CarriedKept ==
    ASSUME UNCHANGED <<n, sid, fds, orphans, session, routes, resolver>>
    PROVE  (Holds => Holds') /\ (Carried => Carried')
  BY DEF Holds, Carried, Safe

(* Steps that leave everything the traffic depends on as it is.            *)
LEMMA QuietCarry ==
    ASSUME Shape, CarryOK, app' = app,
           UNCHANGED <<mode, n, proc, sid, fds, inbox, unread, orphans, stray, session, pc, resolver>>,
           used'["repair"] = used["repair"],
           routes' = routes \/ \E s \in SUBSET Id : Sweep(Held(hfd, fds, s))
    PROVE  CarryOK'
<1>1. Holds => Holds' BY DEF Holds, Safe
<1>2. Carried => Carried'
  <2>1. ASSUME Carried PROVE routes' = n BY <2>1, StaysUp DEF Carried, Holds
  <2>. QED BY <1>1, <2>1 DEF Carried
<1>3. Empty => Empty' BY DEF Empty
<1>. QED BY <1>1, <1>2, <1>3 DEF CarryOK

(* Steps into a part of a command that promises nothing.                   *)
Silent == {"attempt", "up", "heal", "up2", "fd", "undo", "undowait", "stop", "stopwait",
           "leave", "exit"}

LEMMA SilentCarry == ASSUME pc' \in Silent PROVE CarryOK'
  BY DEF CarryOK, Silent

LEMMA IdleCarry == ASSUME pc' = "idle", proc' = None \/ used'["repair"] # 0 PROVE CarryOK'
  BY DEF CarryOK

LEMMA AttemptingCarry ==
    ASSUME Shape, RunOK, OwnOK, CarryOK, Attempting, RunOK', OwnOK', Shape' PROVE CarryOK'
<1>1. pc \in Trying /\ app = "on" /\ proc = None
  <2>1. pc \in Trying
    BY DEF Attempting, StartAttempt, RefusedEarly, UpAnswered, Healed, FdAnswered, SpawnCore,
           SpawnFails, Ready, PassGate, GiveUp, CommitAnswered, StillReachable, Started, Trying
  <2>. QED BY <2>1 DEF RunOK, Busy, Trying, Shape, WorkOK
<1>2. CASE pc' \in Silent BY <1>2, SilentCarry
<1>3. CASE pc' = "idle" /\ ~Started
  <2>1. UNCHANGED proc
    BY <1>3 DEF Attempting, StartAttempt, RefusedEarly, UpAnswered, Healed, FdAnswered, SpawnCore,
           SpawnFails, Ready, PassGate, GiveUp, CommitAnswered, StillReachable, super
  <2>. QED BY <1>1, <1>3, <2>1, IdleCarry
<1>4. CASE StartAttempt /\ mode = "proxy"
  <2>1. mode' = "proxy" /\ pc' = "spawn" BY <1>4 DEF StartAttempt
  <2>. QED BY <2>1 DEF CarryOK
<1>5. CASE FdAnswered /\ pc' = "spawn"
  <2>1. tunFd' \in fds' BY <1>5 DEF FdAnswered, NextOrFail
  <2>2. ~stray' /\ mode' = "tun" => tunFd' = n' BY <1>5 DEF OwnOK, Stream
  <2>. QED BY <1>5, <2>1, <2>2 DEF CarryOK
<1>6. CASE SpawnCore \/ Ready
  <2>1. /\ pc \in {"spawn", "ready"} /\ UNCHANGED <<n, mode, stray, fds>>
        /\ pc' = "ready" \/ pc' = (IF mode = "tun" THEN "gate" ELSE "success")
    BY <1>6 DEF SpawnCore, Ready, work, super, conn, late
  <2>. QED BY <2>1 DEF CarryOK
<1>7. CASE PassGate
  <2>1. /\ pc = "gate" /\ pc' = "commit" /\ inbox' = Append(inbox, Req("commit", sid))
        /\ UNCHANGED <<n, mode, sid, fds, unread, orphans, stray, session>>
    BY <1>7 DEF PassGate, Send, work, super, late, helper
  <2>2. ASSUME ~stray', mode' = "tun"
        PROVE  /\ Len(unread') = 0 /\ Len(inbox') = 1 /\ inbox'[1] = Req("commit", n)'
               /\ Holds' /\ session' = n'
    <3>1. n \in fds BY <2>1, <2>2 DEF CarryOK
    <3>2. Empty /\ Mine BY <2>1, <2>2 DEF OwnOK, Stream
    <3>3. Len(unread) = 0 /\ Len(inbox) = 0 /\ session = n /\ sid = n BY <3>2 DEF Empty, Mine
    <3>4. Req("commit", sid) \in Request BY DEF Req, Request, Shape, SuperOK
    <3>5. Len(inbox') = 1 /\ inbox'[1] = Req("commit", sid) BY <2>1, <3>3, <3>4, Sends
    <3>6. n \in Nat BY Numbers
    <3>7. Safe(n) BY <2>1, <3>6 DEF OwnOK, IdsBelow, OwnPhase, Safe
    <3>8. Holds' BY <2>1, <3>1, <3>3, <3>7 DEF Holds, Safe
    <3>. QED BY <2>1, <3>3, <3>5, <3>8 DEF Req
  <2>. QED BY <2>1, <2>2 DEF CarryOK
<1>8. CASE CommitAnswered /\ pc' = "recheck"
  <2>1. /\ pc = "commit" /\ unread # <<>> /\ Good
        /\ UNCHANGED <<n, mode, sid, fds, orphans, stray, session, routes, resolver>>
    BY <1>8 DEF CommitAnswered, Take, work, super, late, helper
  <2>2. ASSUME ~stray', mode' = "tun" PROVE Carried'
    <3>1. Len(unread) # 0 /\ unread[1].resp \in {"ok", "fd"}
      BY <2>1, Lens, FirstFrame DEF Good
    <3>2. Carried BY <2>1, <2>2, <3>1 DEF CarryOK
    <3>. QED BY <2>1, <3>2, CarriedKept
  <2>. QED BY <1>8, <2>2 DEF CarryOK
<1>9. CASE StillReachable
  <2>1. /\ pc = "recheck" /\ pc' = "success"
        /\ UNCHANGED <<n, mode, sid, fds, orphans, stray, session, routes, resolver>>
    BY <1>9 DEF StillReachable, work, super, conn, late, helper, net
  <2>2. ~stray' /\ mode' = "tun" => Carried' BY <2>1, CarriedKept DEF CarryOK
  <2>. QED BY <2>1, <2>2 DEF CarryOK
<1>10. CASE Started
  <2>1. /\ pc = "success" /\ pc' = "idle" /\ proc' = n
        /\ UNCHANGED <<n, mode, sid, fds, inbox, unread, orphans, stray, session, routes, resolver>>
    BY <1>10 DEF Started, conn, late, helper, net
  <2>2. ~stray' /\ mode' = "tun" => proc' = n' /\ Carried' /\ Empty'
    <3>1. ~stray /\ mode = "tun" => Carried /\ Empty BY <2>1 DEF CarryOK, OwnOK, Stream
    <3>2. Empty => Empty' BY <2>1 DEF Empty
    <3>. QED BY <2>1, <3>1, <3>2, CarriedKept
  <2>. QED BY <2>1, <2>2 DEF CarryOK
<1>. QED
  BY <1>2, <1>3, <1>4, <1>5, <1>6, <1>7, <1>8, <1>9, <1>10
  DEF Attempting, StartAttempt, RefusedEarly, UpAnswered, Healed, FdAnswered,
      SpawnFails, GiveUp, CommitAnswered, Silent, NextOrFail

LEMMA EndingCarry ==
    ASSUME Shape, RunOK, CarryOK, Ending, Shape' PROVE CarryOK'
<1>1. CASE RollbackAsks \/ UndoEnds \/ StopEnds
  <2>1. pc \in Busy /\ pc' \in {"undowait", "stopwait", "attempt", "idle"} /\ UNCHANGED proc
    BY <1>1, NextIs DEF RollbackAsks, UndoEnds, StopEnds, Busy, Trying
  <2>. QED BY <2>1, IdleCarry, SilentCarry DEF RunOK, Silent
<1>2. CASE RepairEnds
  <2>1. pc \in {"repair", "boot"} /\ pc' = "idle" /\ UNCHANGED <<proc, used>>
    BY <1>2 DEF RepairEnds, super
  <2>. QED BY <2>1, IdleCarry DEF CarryOK
<1>3. CASE LeaveAnswered \/ Exit
  BY <1>3, SilentCarry, IdleCarry DEF LeaveAnswered, Exit, Silent
<1>. QED BY <1>1, <1>2, <1>3 DEF Ending

LEMMA UserCarry ==
    ASSUME Shape, RunOK, CarryOK, User, Shape' PROVE CarryOK'
<1>1. CASE Stop \/ Quit \/ Crash
  BY <1>1, SilentCarry DEF Stop, Quit, Crash, Silent
<1>2. CASE Repair
  <2>1. pc' = "repair" /\ used'["repair"] # 0 BY <1>2, RepairCount DEF Repair, Bounded
  <2>. QED BY <2>1 DEF CarryOK
<1>3. CASE Launch
  <2>1. pc' \in {"boot", "idle"} /\ proc' = None
    BY <1>3 DEF Launch, RunOK, super
  <2>. QED BY <2>1, IdleCarry DEF CarryOK
<1>4. ASSUME NEW m \in {"tun", "proxy"}, Begin(m) PROVE CarryOK'
  <2>1. CASE UNCHANGED <<pc, work, proc>>
    <3>1. /\ app' = app /\ used'["repair"] = used["repair"] /\ routes' = routes
          /\ UNCHANGED <<mode, n, proc, sid, fds, inbox, unread, orphans, stray, session, pc, resolver>>
      BY <1>4, <2>1 DEF Begin, work, conn, late, helper, net
    <3>. QED BY <3>1, QuietCarry
  <2>2. CASE pc' = "attempt" BY <2>2, SilentCarry DEF Silent
  <2>. QED BY <1>4, <2>1, <2>2 DEF Begin
<1>. QED BY <1>1, <1>2, <1>3, <1>4 DEF User

LEMMA TimesOutCarry ==
    ASSUME Shape, RunOK, CarryOK, TimesOut, Shape' PROVE CarryOK'
<1>1. /\ pc \in Waiting /\ UNCHANGED proc /\ Spend("late")
      /\ pc' \in {"attempt", "idle", "undo", "exit"}
      /\ pc' = "idle" => pc # "leave"
  BY NextIs DEF TimesOut, super
<1>2. used'["repair"] = used["repair"] BY <1>1, RepairCount DEF Bounded
<1>3. pc \notin {"repair", "leave"} => proc = None
  BY <1>1 DEF RunOK, CarryOK, Busy, Trying, Waiting
<1>. QED BY <1>1, <1>2, <1>3, IdleCarry, SilentCarry DEF Silent, CarryOK

LEMMA CoreEndsCarry ==
    ASSUME Shape, CarryOK, NEW p \in Attempt, CoreDies(p) \/ OutputEnds(p) PROVE CarryOK'
<1>1. /\ app' = app
      /\ UNCHANGED <<mode, n, proc, sid, fds, inbox, unread, orphans, stray, session, pc, resolver>>
  BY DEF CoreDies, OutputEnds, work, super, conn, late, helper, net
<1>2. used'["repair"] = used["repair"]
  BY RepairCount DEF CoreDies, OutputEnds, Bounded
<1>3. routes' = routes \/ Sweep(Held(hfd, fds, cores \ {p})) BY DEF CoreDies, OutputEnds, net
<1>4. cores \ {p} \in SUBSET Id BY Numbers DEF Shape, CoreOK
<1>. QED BY <1>1, <1>2, <1>3, <1>4, QuietCarry

(* The helper spends only its own bounds.                                  *)
LEMMA ServeCount ==
    ASSUME Shape, NEW r \in Request, NEW resp, Serve(r, resp)
    PROVE  used'["repair"] = used["repair"]
<1>1. used' = used \/ Spend("step") \/ Spend("undo")
  BY DEF Serve, ServeUp, ServeFd, ServeCommit, ServeDown, ServeRestore, Undo
<1>. QED BY <1>1, RepairCount DEF Bounded

LEMMA GuardedNet ==
    ASSUME Shape, NEW r \in Request, NEW resp, Serve(r, resp), session # None,
           r.req # "restore", r.req \in Targets => r.id # session
    PROVE  session' = session /\ UNCHANGED net
  BY DEF Serve, ServeUp, ServeFd, ServeCommit, ServeDown, ServeRestore, helper, Targets

LEMMA LateCarry ==
    ASSUME Shape, RunOK, OwnOK, CarryOK, HelperServesLate PROVE CarryOK'
<1>1. PICK q \in orphans, resp \in {"ok", "conflict", "error", "fd"} :
         /\ Serve(Head(q), resp)
         /\ orphans' = (orphans \ {q}) \cup (IF Len(q) = 1 THEN {} ELSE {Tail(q)})
  BY DEF HelperServesLate
<1>2. UNCHANGED <<app, pc, mode, n, proc, sid, fds, inbox, unread, stray>>
  BY DEF HelperServesLate, work, super
<1>3. q \in Seq(Request) /\ q # <<>> BY DEF Shape, ConnOK
<1>4. /\ Len(q) \in Nat \ {0} /\ Len(Tail(q)) = Len(q) - 1 /\ Head(q) = q[1]
      /\ \A i \in 1 .. Len(q) - 1 : i + 1 \in 1 .. Len(q) /\ Tail(q)[i] = q[i + 1]
  BY <1>3, Shrinks
<1>5. Head(q) \in Request /\ Head(q) = q[1] /\ 1 \in 1 .. Len(q) BY <1>3, <1>4
<1>6. Safe(n) => Safe(n)'
  <2>. DEFINE t == Tail(q)
  <2>1. Len(t) = Len(q) - 1 /\ (\A i \in 1 .. Len(t) : i + 1 \in 1 .. Len(q) /\ t[i] = q[i + 1])
    BY <1>4
  <2>2. \A s \in orphans' : s \in orphans \/ s = t BY <1>1
  <2>. HIDE DEF t
  <2>3. Safe(n) => \A i \in 1 .. Len(t) : t[i].req \in Targets => t[i].id # n BY <2>1 DEF Safe
  <2>. QED BY <1>2, <2>2, <2>3 DEF Safe
<1>7. ASSUME ~stray, Holds, session = n, n # None
      PROVE  session' = n /\ UNCHANGED net /\ Holds'
  <2>1. Head(q).req # "restore" BY <1>5, <1>7 DEF OwnOK, NoRestore
  <2>2. Head(q).req \in Targets => Head(q).id # session BY <1>5, <1>7 DEF Holds, Safe
  <2>3. session' = session /\ UNCHANGED net BY <1>1, <1>5, <1>7, <2>1, <2>2, GuardedNet
  <2>. QED BY <1>2, <1>6, <1>7, <2>3 DEF Holds
<1>8. used'["repair"] = used["repair"] BY <1>1, <1>5, ServeCount
<1>9. pc \in Trying \ {"attempt"} => n # None
  <2>1. pc \in Trying \ {"attempt"} => n \in Attempt BY Numbers
  <2>. QED BY <2>1 DEF Attempt, None
<1>10. ~stray /\ n # None /\ Carried => Carried' BY <1>2, <1>7 DEF Carried, net
<1>11. Empty => Empty' BY <1>2 DEF Empty
<1>. QED BY <1>2, <1>7, <1>8, <1>9, <1>10, <1>11 DEF CarryOK, Trying

LEMMA ServedCarry ==
    ASSUME Shape, RunOK, OwnOK, CarryOK, HelperServes PROVE CarryOK'
<1>1. PICK resp \in {"ok", "conflict", "error", "fd"} :
         Serve(Head(inbox), resp) /\ unread' = unread \o Frames(resp, Head(inbox).id)
  BY DEF HelperServes
<1>2. /\ inbox # <<>> /\ inbox' = Tail(inbox)
      /\ UNCHANGED <<app, pc, mode, n, proc, sid, fds, orphans, stray>>
  BY DEF HelperServes, work, super, late
<1>3. /\ Len(inbox) \in Nat \ {0} /\ Len(inbox') = Len(inbox) - 1 /\ Head(inbox) = inbox[1]
      /\ Head(inbox) \in Request
  BY <1>2, Shrinks DEF Shape, ConnOK
<1>4. used'["repair"] = used["repair"] BY <1>1, <1>3, ServeCount
<1>5. ~Empty BY <1>3 DEF Empty
<1>6. ASSUME pc = "commit", ~stray, mode = "tun"
      PROVE  /\ Len(unread') = 1 /\ Len(inbox') = 0
             /\ unread'[1].resp \in {"ok", "fd"} => Carried'
  <2>1. Len(inbox) = 1 /\ Len(unread) = 0 /\ inbox[1] = Req("commit", n) /\ Holds /\ session = n
    BY <1>3, <1>6 DEF CarryOK
  <2>2. ServeCommit(n, resp) /\ resp # "fd"
    BY <1>1, <1>3, <2>1 DEF Serve, Req, ServeCommit
  <2>3. Head(inbox).id = n /\ n \in Id BY <1>3, <2>1, Numbers DEF Req
  <2>4. Len(unread') = 1 /\ unread'[1] = [resp |-> resp, id |-> n]
    <3>. DEFINE f == Frames(resp, n)
    <3>1. Len(f) = 1 BY <2>2, <2>3, FramesLength
    <3>2. Len(unread') = Len(unread) + Len(f) /\ unread'[Len(unread) + 1] = [resp |-> resp, id |-> n]
      BY <1>1, <2>3, AnsweredType
    <3>. HIDE DEF f
    <3>. QED BY <2>1, <3>1, <3>2
  <2>5. resp = "ok" => session' = n /\ routes' = n /\ resolver' = "sentinel"
    BY <2>1, <2>2 DEF ServeCommit
  <2>6. Holds' BY <1>2, <2>1 DEF Holds, Safe
  <2>. QED BY <1>2, <1>3, <2>1, <2>2, <2>4, <2>5, <2>6 DEF Carried
<1>7. ~(pc \in {"recheck", "success"} /\ ~stray /\ mode = "tun")
  BY <1>5 DEF OwnOK, Stream
<1>. QED BY <1>2, <1>4, <1>5, <1>6, <1>7 DEF CarryOK

LEMMA StepCarry ==
    ASSUME Shape, RunOK, OwnOK, CarryOK, [Next]_vars, RunOK', OwnOK', Shape' PROVE CarryOK'
<1>1. CASE Publish \/ UNCHANGED vars
  <2>1. /\ app' = app /\ routes' = routes /\ used' = used
        /\ UNCHANGED <<mode, n, proc, sid, fds, inbox, unread, orphans, stray, session, pc, resolver>>
    BY <1>1 DEF Publish, vars, work, super, conn, late, helper, net
  <2>. QED BY <2>1, QuietCarry
<1>. QED
  BY <1>1, AttemptingCarry, EndingCarry, UserCarry, TimesOutCarry, CoreEndsCarry, LateCarry,
     ServedCarry
  DEF Next

(* A connection the app shows as running, with its core alive, carries the *)
(* traffic: no request left over from an earlier attempt can take it down, *)
(* but for a Restore (ShownIsCaptured).                                    *)
THEOREM ShownCarries == Spec => []ShownIsCaptured
<1>1. Init => RunOK BY DEF Init, RunOK, Known, Busy, Trying
<1>2. Shape /\ RunOK /\ [Next]_vars /\ Shape' => RunOK' BY StepRuns
<1>3. Init => OwnOK BY InitOwn
<1>4. Shape /\ RunOK /\ OwnOK /\ [Next]_vars => OwnOK' BY StepOwn
<1>5. Init => TellsOK /\ CarryOK
  <2>1. ASSUME Init PROVE TellsOK
    <3>1. /\ shown.pid = None /\ Len(updates) = 0 /\ pc = "idle" /\ n = 0 /\ cores = {}
      BY <2>1 DEF Init, Stopped
    <3>. QED BY <3>1 DEF TellsOK, ToldOf, Trying, None
  <2>2. Init => CarryOK BY DEF Init, CarryOK
  <2>. QED BY <2>1, <2>2
<1>6. Shape /\ RunOK /\ TellsOK /\ [Next]_vars /\ Shape' => TellsOK' BY StepTells
<1>7. Shape /\ RunOK /\ OwnOK /\ CarryOK /\ [Next]_vars /\ RunOK' /\ OwnOK' /\ Shape' => CarryOK'
  BY StepCarry
<1>8. Shape /\ TellsOK /\ CarryOK => ShownIsCaptured
  <2>. SUFFICES ASSUME Shape, TellsOK, CarryOK,
                       app = "on", pc = "idle", mode = "tun", shown.running,
                       shown.pid \in cores, ~stray, used["repair"] = 0
                PROVE  routes = shown.sid /\ resolver = "sentinel"
    BY DEF ShownIsCaptured
  <2>1. shown.pid = proc /\ shown.sid = sid BY DEF TellsOK, ToldOf
  <2>2. proc # None BY <2>1 DEF Shape, CoreOK, Attempt, None
  <2>3. Carried BY <2>2 DEF CarryOK
  <2>. QED BY <2>1, <2>3 DEF Carried, Holds
<1>. QED BY <1>1, <1>2, <1>3, <1>4, <1>5, <1>6, <1>7, <1>8, ShapeStays, PTL DEF Spec

------------------------------------------------------------------------------
(* A tunnel that has taken over the traffic is not forgotten, while at     *)
(* most one answer is late, no rollback fails in the helper and the app    *)
(* does not leave.  What has been sent and not been served is looked at as *)
(* a set: it stays on its way until it is served, whoever drops a stream.  *)
Few == used["undo"] = 0 /\ used["exit"] = 0 /\ used["late"] <= 1

Asks(q) == {q[i] : i \in 1 .. Len(q)}

Orphaned == UNION {Asks(q) : q \in orphans}

OnWay == Orphaned \cup Asks(inbox)

(* Session c has the traffic, or a commit may still give it to c.          *)
Takes(c) == session = c /\ c # None /\ (routes = c \/ Req("commit", c) \in OnWay)

EndDue(c) == \E r \in Ends(c) : r \in OnWay

Remembered == \A c \in Id : Takes(c) => sid = c \/ EndDue(c)

(* A captured session has a number from before the start under way, and    *)
(* is the helper's, on file, with the resolvers on record.                 *)
RoutesBelow == routes <= n /\ (pc \in OwnPhase => routes < n)

HelperKnows ==
    /\ session # None => file = session
    /\ routes # None => session = routes /\ saved # "none"

StaysOn == app = "on" /\ pc \notin {"leave", "exit", "boot"}

(* A command waits for exactly its own answer, and leaves nothing behind.  *)
One ==
    \/ /\ Len(unread) = 0 /\ Len(inbox) = 1 /\ inbox[1].req # "fd"
       /\ pc \in {"up", "up2"} => inbox[1] = Req("up", n)
    \/ Len(unread) = 1 /\ Len(inbox) = 0

OneFd ==
    \/ Len(unread) = 0 /\ Len(inbox) = 1 /\ inbox[1] = Req("fd", n)
    \/ Len(inbox) = 0 /\ Len(unread) = 1 /\ unread[1].resp # "fd"
    \/ Len(inbox) = 0 /\ Len(unread) = 2 /\ unread[1].resp = "fd"

InStep ==
    /\ pc \notin Waiting => Empty
    /\ pc \in Waiting \ {"fd"} => One
    /\ pc = "fd" => OneFd

(* It is out of step after take_tun_fd has given up, and then nothing has  *)
(* been dropped yet and no tunnel has the traffic.                         *)
LeftBehind == used["late"] = 1 /\ orphans = {} /\ ~stray /\ routes = None

CommitNow == \A r \in Asks(inbox) : r.req = "commit" => pc = "commit" /\ r.id = sid

(* No commit that was dropped finds its session raised anew.               *)
NoSecondUp ==
    \A r \in Orphaned : r.req = "commit" => Req("up", r.id) \notin OnWay

NoCommitLost == \A r \in Orphaned : r.req # "commit"

RaisedAlone ==
    pc \in {"up", "up2"} /\ Len(unread) = 1 /\ unread[1].resp \in {"ok", "fd"}
    => routes = None

InTime ==
    /\ InStep \/ LeftBehind
    /\ used["late"] = 0 => orphans = {} /\ ~stray
    /\ CommitNow /\ NoSecondUp
    /\ stray => NoCommitLost /\ RaisedAlone

KnownOK == Few => StaysOn /\ RoutesBelow /\ HelperKnows /\ InTime /\ Remembered

------------------------------------------------------------------------------
(* What is on its way, as a set *)

LEMMA AsksRequests ==
    ASSUME Shape
    PROVE  /\ Asks(inbox) \subseteq Request /\ Orphaned \subseteq Request
           /\ \A r \in Request : r = Req(r.req, r.id) /\ r.id \in Id
<1>1. \A q \in orphans \cup {inbox} : q \in Seq(Request) BY DEF Shape, ConnOK
<1>2. \A q \in orphans \cup {inbox} : \A i \in 1 .. Len(q) : q[i] \in Request BY <1>1
<1>3. \A r \in Request : r = Req(r.req, r.id) /\ r.id \in Id BY DEF Request, Req
<1>. QED BY <1>2, <1>3 DEF Asks, Orphaned

LEMMA AsksMore ==
    ASSUME Shape, NEW r \in Request, inbox' = Append(inbox, r)
    PROVE  Asks(inbox)' = Asks(inbox) \cup {r}
<1>1. /\ Len(inbox) \in Nat /\ Len(inbox') = Len(inbox) + 1
      /\ \A i \in 1 .. Len(inbox) : inbox'[i] = inbox[i]
      /\ inbox'[Len(inbox) + 1] = r
      /\ \A i \in 1 .. Len(inbox') : i \in 1 .. Len(inbox) \/ i = Len(inbox) + 1
  BY Sends
<1>2. /\ \A i \in 1 .. Len(inbox) : i \in 1 .. Len(inbox')
      /\ Len(inbox) + 1 \in 1 .. Len(inbox')
  BY <1>1
<1>. QED BY <1>1, <1>2 DEF Asks

LEMMA AsksOne ==
    ASSUME NEW q, Len(q) = 1 PROVE Asks(q) = {q[1]}
  BY DEF Asks

LEMMA AsksNone ==
    ASSUME NEW q, Len(q) = 0 PROVE Asks(q) = {}
  BY DEF Asks

LEMMA AsksDropped ==
    ASSUME Shape, Abandon(inbox)
    PROVE  /\ Orphaned' = Orphaned \cup Asks(inbox)
           /\ stray' = (stray \/ \E r \in Asks(inbox) : r.req = "restore")
           /\ inbox = <<>> => UNCHANGED <<orphans, stray>>
<1>1. /\ orphans' = orphans \cup ({inbox} \ {<<>>})
      /\ stray' = (stray \/ \E i \in DOMAIN inbox : inbox[i].req = "restore")
  BY DEF Abandon
<1>2. DOMAIN inbox = 1 .. Len(inbox) /\ <<>> \notin orphans /\ Len(<<>>) = 0
      /\ stray \in BOOLEAN
  BY DEF Shape, ConnOK
<1>3. inbox = <<>> => Asks(inbox) = {} /\ DOMAIN inbox = {} BY <1>2, AsksNone
<1>4. Orphaned' = UNION {Asks(q) : q \in orphans'} BY DEF Orphaned, Asks
<1>. QED BY <1>1, <1>2, <1>3, <1>4 DEF Orphaned, Asks

(* The first of a queue is served: nothing else is lost.                   *)
LEMMA AsksTail ==
    ASSUME NEW q \in Seq(Request), q # <<>>
    PROVE  /\ Head(q) \in Asks(q) /\ Head(q) \in Request
           /\ Asks(Tail(q)) \subseteq Asks(q)
           /\ Asks(q) \ {Head(q)} \subseteq Asks(Tail(q))
           /\ Len(q) = 1 => Asks(q) = {Head(q)}
<1>. DEFINE t == Tail(q)
<1>1. /\ Len(q) \in Nat \ {0} /\ Len(t) = Len(q) - 1 /\ Head(q) = q[1]
      /\ \A i \in 1 .. Len(q) - 1 : i + 1 \in 1 .. Len(q) /\ t[i] = q[i + 1]
  BY Shrinks
<1>. HIDE DEF t
<1>2. 1 \in 1 .. Len(q) /\ q[1] \in Request BY <1>1
<1>3. \A i \in 1 .. Len(q) : i = 1 \/ (i - 1 \in 1 .. Len(t) /\ (i - 1) + 1 = i) BY <1>1
<1>4. ASSUME NEW i \in 1 .. Len(q), q[i] # Head(q) PROVE q[i] \in Asks(t)
  <2>1. i - 1 \in 1 .. Len(q) - 1 /\ (i - 1) + 1 = i /\ i - 1 \in 1 .. Len(t)
    BY <1>1, <1>3, <1>4
  <2>2. t[i - 1] = q[i] BY <1>1, <2>1
  <2>. QED BY <2>1, <2>2 DEF Asks
<1>5. Asks(t) \subseteq Asks(q) BY <1>1 DEF Asks
<1>6. Asks(q) \ {Head(q)} \subseteq Asks(t) BY <1>4 DEF Asks
<1>7. Head(q) \in Asks(q) BY <1>1, <1>2 DEF Asks
<1>8. Len(q) = 1 => Asks(q) = {Head(q)} BY <1>1, AsksOne
<1>. QED BY <1>1, <1>2, <1>5, <1>6, <1>7, <1>8 DEF t

LEMMA AsksServed ==
    ASSUME Shape, HelperServes
    PROVE  \E resp \in {"ok", "conflict", "error", "fd"}, r \in Request :
             /\ Serve(r, resp) /\ r = inbox[1] /\ r \in Asks(inbox)
             /\ unread' = unread \o Frames(resp, r.id)
             /\ Asks(inbox)' \subseteq Asks(inbox) /\ Asks(inbox) \ {r} \subseteq Asks(inbox)'
             /\ Orphaned' = Orphaned
<1>1. inbox \in Seq(Request) /\ inbox # <<>> /\ inbox' = Tail(inbox) /\ orphans' = orphans
  BY DEF HelperServes, Shape, ConnOK, late
<1>2. Orphaned' = Orphaned BY <1>1 DEF Orphaned, Asks
<1>3. Asks(inbox)' = Asks(Tail(inbox)) BY <1>1 DEF Asks
<1>4. Head(inbox) = inbox[1] BY <1>1
<1>. QED BY <1>1, <1>2, <1>3, <1>4, AsksTail DEF HelperServes

LEMMA AsksServedLate ==
    ASSUME Shape, HelperServesLate
    PROVE  \E resp \in {"ok", "conflict", "error", "fd"}, r \in Request :
             /\ Serve(r, resp) /\ r \in Orphaned
             /\ Asks(inbox)' = Asks(inbox)
             /\ Orphaned' \subseteq Orphaned /\ Orphaned \ {r} \subseteq Orphaned'
<1>1. PICK q \in orphans, resp \in {"ok", "conflict", "error", "fd"} :
         /\ Serve(Head(q), resp)
         /\ orphans' = (orphans \ {q}) \cup (IF Len(q) = 1 THEN {} ELSE {Tail(q)})
  BY DEF HelperServesLate
<1>2. q \in Seq(Request) /\ q # <<>> BY DEF Shape, ConnOK
<1>3. Asks(inbox)' = Asks(inbox) BY DEF HelperServesLate, Asks
<1>4. Orphaned' = UNION {Asks(s) : s \in orphans'} BY DEF Orphaned, Asks
<1>. DEFINE r == Head(q)
<1>5. /\ r \in Asks(q) /\ r \in Request /\ Asks(Tail(q)) \subseteq Asks(q)
      /\ Asks(q) \ {r} \subseteq Asks(Tail(q)) /\ (Len(q) = 1 => Asks(q) = {r})
  BY <1>2, AsksTail
<1>. DEFINE t == Tail(q)
<1>. HIDE DEF r, t
<1>6. r \in Orphaned BY <1>5 DEF Orphaned
<1>7. Orphaned' \subseteq Orphaned
  <2>1. \A s \in orphans' : s \in orphans \/ s = t BY <1>1 DEF t
  <2>. QED BY <1>4, <1>5, <2>1 DEF Orphaned, t
<1>8. Orphaned \ {r} \subseteq Orphaned'
  <2>. SUFFICES ASSUME NEW s \in orphans, NEW x \in Asks(s), x # r PROVE x \in Orphaned'
    BY DEF Orphaned
  <2>1. CASE s # q BY <1>1, <1>4, <2>1
  <2>2. CASE s = q
    <3>1. Len(q) # 1 /\ x \in Asks(t) BY <1>5, <2>2 DEF t
    <3>2. t \in orphans' BY <1>1, <3>1 DEF t
    <3>. QED BY <1>4, <3>1, <3>2
  <2>. QED BY <2>1, <2>2
<1>9. Serve(r, resp) BY <1>1 DEF r
<1>. QED BY <1>3, <1>5, <1>6, <1>7, <1>8, <1>9

------------------------------------------------------------------------------
(* Every step but the helper's is one of nine moves on the stream *)

SameLate == used'["late"] = used["late"]

LateNow == used'["late"] = used["late"] + 1

StepsOn ==
    /\ UNCHANGED <<inbox, unread, orphans, stray, sid>> /\ SameLate
    /\ (pc \notin Waiting /\ pc' \notin Waiting) \/ (pc' = pc /\ n' = n)

SendsOne(r) ==
    /\ pc \notin Waiting /\ pc' \in Waiting \ {"fd"} /\ SameLate
    /\ inbox' = Append(inbox, r) /\ UNCHANGED <<unread, orphans, stray>>
    /\ \/ r = Req("up", n') /\ n' = n + 1 /\ pc' = "up" /\ sid' = sid
       \/ r = Req("commit", sid) /\ n' = n /\ pc' = "commit" /\ sid' = sid
       \/ r = Req("down", sid) /\ n' = n /\ pc' \notin {"up", "up2"} /\ sid' = None
       \/ r = Req("restore", None) /\ n' = n /\ pc' \notin {"up", "up2"} /\ sid' = sid

ReadsOne ==
    /\ pc \in Waiting /\ pc' \notin Waiting /\ unread # <<>> /\ SameLate
    /\ unread' = Tail(unread) /\ UNCHANGED <<inbox, orphans, stray, sid, n>>
    /\ pc = "fd" => Answer.resp # "fd"

ReadsFd ==
    /\ pc = "fd" /\ pc' \notin Waiting /\ unread # <<>> /\ Answer.resp = "fd" /\ SameLate
    /\ unread' = Tail(Tail(unread)) /\ UNCHANGED <<inbox, orphans, stray, sid, n>>

UpIsGood ==
    /\ pc \in {"up", "up2"} /\ pc' = "fd" /\ unread # <<>> /\ Good /\ SameLate
    /\ inbox' = Append(inbox, Req("fd", n)) /\ unread' = Tail(unread)
    /\ sid' = n /\ UNCHANGED <<orphans, stray, n>>

HealIsGood ==
    /\ pc = "heal" /\ pc' = "up2" /\ unread # <<>> /\ SameLate
    /\ inbox' = Append(inbox, Req("up", n)) /\ unread' = Tail(unread)
    /\ UNCHANGED <<orphans, stray, sid, n>>

LetsGo ==
    /\ pc \in Waiting \ {"fd"} /\ pc' \notin Waiting /\ Drop /\ UNCHANGED <<sid, n>>
    /\ (unread # <<>> /\ SameLate) \/ LateNow

LetsGoAndHeals ==
    /\ pc = "up" /\ pc' = "heal" /\ unread # <<>> /\ SameLate
    /\ DropAndSend("restore", None) /\ UNCHANGED <<sid, n>>

LeavesFd ==
    /\ pc = "fd" /\ pc' \notin Waiting /\ unread = <<>> /\ LateNow
    /\ UNCHANGED <<inbox, unread, orphans, stray, sid, n>>

Moves ==
    \/ StepsOn \/ ReadsOne \/ ReadsFd \/ UpIsGood \/ HealIsGood \/ LetsGo \/ LetsGoAndHeals
    \/ LeavesFd \/ \E r \in Request : SendsOne(r)

(* What such a step may change of the rest.                                *)
Calm ==
    /\ UNCHANGED <<session, file, saved>> /\ routes' \in {routes, None}
    /\ \/ n' = n /\ (pc' \in OwnPhase => pc \in OwnPhase)
       \/ n' = n + 1

LEMMA Spent ==
    ASSUME Shape, NEW b \in Bounded, Spend(b)
    PROVE  /\ used'[b] = used[b] + 1 /\ used[b] \in Nat
           /\ \A c \in Bounded \ {b} : used'[c] = used[c]
  BY DEF Spend, Shape, CoreOK

LEMMA SpentLate ==
    ASSUME Shape
    PROVE  /\ Spend("late") => LateNow
           /\ \A b \in Bounded \ {"late"} : Spend(b) => SameLate
           /\ UNCHANGED used => SameLate
  BY Spent DEF Bounded, LateNow, SameLate

LEMMA SweptCalm == ASSUME NEW held, Sweep(held) PROVE routes' \in {routes, None}
  BY DEF Sweep

LEMMA StartMoves ==
    ASSUME Shape, RunOK, OwnOK, StaysOn, StartAttempt \/ RefusedEarly \/ SpawnFails
    PROVE  Calm /\ Moves
<1>1. CASE StartAttempt
  <2>1. /\ pc = "attempt" /\ n' = n + 1
        /\ UNCHANGED <<sid, session, file, saved, routes, used>>
        /\ \/ mode = "tun" /\ Send("up", n + 1) /\ pc' = "up"
           \/ mode = "proxy" /\ pc' = "spawn" /\ UNCHANGED conn
    BY <1>1 DEF StartAttempt, super, helper, net
  <2>2. Calm BY <2>1 DEF Calm
  <2>3. SameLate BY <2>1 DEF SameLate
  <2>4. CASE Send("up", n + 1) /\ pc' = "up"
    <3>1. Req("up", n + 1) \in Request BY <2>1, Numbers DEF Req, Request
    <3>2. SendsOne(Req("up", n + 1))
      BY <2>1, <2>3, <2>4 DEF SendsOne, Send, late, Waiting
    <3>. QED BY <2>2, <3>1, <3>2 DEF Moves
  <2>5. CASE pc' = "spawn" /\ UNCHANGED conn
    <3>1. pc \notin Waiting /\ pc' \notin Waiting BY <2>1, <2>5 DEF Waiting
    <3>2. StepsOn BY <2>1, <2>3, <2>5, <3>1 DEF StepsOn, conn, late
    <3>. QED BY <2>2, <3>2 DEF Moves
  <2>. QED BY <2>1, <2>4, <2>5
<1>2. CASE RefusedEarly \/ SpawnFails
  <2>1. /\ pc \in {"attempt", "spawn"} /\ Spend("step") /\ NextOrFail
        /\ UNCHANGED <<inbox, unread, orphans, stray, sid, session, file, saved, routes>>
    BY <1>2 DEF RefusedEarly, SpawnFails, super, conn, late, helper, net
  <2>2. pc' \in {"attempt", "idle"} /\ n' = n BY <2>1, NextIs
  <2>3. SameLate BY <2>1, SpentLate DEF Bounded
  <2>. QED BY <2>1, <2>2, <2>3 DEF Moves, StepsOn, Calm, OwnPhase, Waiting
<1>. QED BY <1>1, <1>2

LEMMA AnswerMoves ==
    ASSUME Shape, RunOK, OwnOK, StaysOn, UpAnswered \/ Healed \/ FdAnswered \/ CommitAnswered
    PROVE  Calm /\ Moves
<1>1. CASE UpAnswered
  <2>1. /\ pc \in {"up", "up2"} /\ unread # <<>>
        /\ UNCHANGED <<session, file, saved, routes, used>>
    BY <1>1 DEF UpAnswered, helper, net
  <2>2. SameLate BY <2>1 DEF SameLate
  <2>3. CASE /\ Good /\ pc' = "fd" /\ sid' = n
             /\ inbox' = Append(inbox, Req("fd", n)) /\ unread' = Tail(unread)
             /\ UNCHANGED <<late, app, work, told>>
    BY <2>1, <2>2, <2>3 DEF Moves, UpIsGood, Calm, OwnPhase, late, work
  <2>4. CASE /\ Answer.resp = "conflict" /\ pc = "up" /\ pc' = "heal"
             /\ DropAndSend("restore", None) /\ UNCHANGED <<app, work, sid, told>>
    BY <2>1, <2>2, <2>4 DEF Moves, LetsGoAndHeals, Calm, OwnPhase, work
  <2>5. CASE Drop /\ NextOrFail /\ UNCHANGED sid
    <3>1. pc' \in {"attempt", "idle"} /\ n' = n BY <2>5, NextIs
    <3>. QED BY <2>1, <2>2, <2>5, <3>1 DEF Moves, LetsGo, Calm, OwnPhase, Waiting
  <2>. QED BY <1>1, <2>3, <2>4, <2>5 DEF UpAnswered
<1>2. CASE Healed
  <2>1. pc = "heal" /\ unread # <<>> /\ UNCHANGED <<session, file, saved, routes, used, sid>>
    BY <1>2 DEF Healed, helper, net, super
  <2>2. SameLate BY <2>1 DEF SameLate
  <2>3. CASE /\ Good /\ pc' = "up2"
             /\ inbox' = Append(inbox, Req("up", n)) /\ unread' = Tail(unread)
             /\ UNCHANGED <<late, app, work, told>>
    BY <2>1, <2>2, <2>3 DEF Moves, HealIsGood, Calm, OwnPhase, late, work
  <2>4. CASE Drop /\ NextOrFail
    <3>1. pc' \in {"attempt", "idle"} /\ n' = n BY <2>4, NextIs
    <3>. QED BY <2>1, <2>2, <2>4, <3>1 DEF Moves, LetsGo, Calm, OwnPhase, Waiting
  <2>. QED BY <1>2, <2>3, <2>4 DEF Healed
<1>3. CASE FdAnswered
  <2>1. pc = "fd" /\ unread # <<>> /\ UNCHANGED <<session, file, saved, routes, used, sid>>
    BY <1>3 DEF FdAnswered, helper, net
  <2>2. SameLate BY <2>1 DEF SameLate
  <2>3. CASE /\ Answer.resp = "fd" /\ unread' = Tail(Tail(unread)) /\ pc' = "spawn"
             /\ UNCHANGED <<inbox, late, app, work, told>>
    BY <2>1, <2>2, <2>3 DEF Moves, ReadsFd, Calm, OwnPhase, late, work, Waiting
  <2>4. CASE Answer.resp # "fd" /\ Take /\ NextOrFail
    <3>1. pc' \in {"attempt", "idle"} /\ n' = n BY <2>4, NextIs
    <3>. QED BY <2>1, <2>2, <2>4, <3>1 DEF Moves, ReadsOne, Take, late, Calm, OwnPhase, Waiting
  <2>. QED BY <1>3, <2>3, <2>4 DEF FdAnswered
<1>4. CASE CommitAnswered
  <2>1. /\ pc = "commit" /\ unread # <<>>
        /\ UNCHANGED <<session, file, saved, used, sid, n>>
    BY <1>4 DEF CommitAnswered, helper, super, work
  <2>2. SameLate BY <2>1 DEF SameLate
  <2>3. CASE Good /\ Take /\ pc' = "recheck" /\ UNCHANGED <<cores, routes>>
    BY <2>1, <2>2, <2>3 DEF Moves, ReadsOne, Take, late, Calm, OwnPhase, Waiting
  <2>4. CASE Drop /\ pc' = "undo" /\ Sweep(Held(hfd, fds, cores \ {n}))
    <3>1. routes' \in {routes, None} BY <2>4, SweptCalm
    <3>. QED BY <2>1, <2>2, <2>4, <3>1 DEF Moves, LetsGo, Calm, OwnPhase, Waiting
  <2>. QED BY <1>4, <2>3, <2>4 DEF CommitAnswered
<1>. QED BY <1>1, <1>2, <1>3, <1>4

LEMMA ForwardMoves ==
    ASSUME Shape, RunOK, OwnOK, StaysOn,
           SpawnCore \/ Ready \/ StillReachable \/ GiveUp \/ Started \/ PassGate
    PROVE  Calm /\ Moves
<1>1. CASE SpawnCore \/ Ready \/ StillReachable \/ GiveUp \/ Started
  <2>1. /\ pc \in {"spawn", "ready", "gate", "recheck", "success"}
        /\ pc' \in {"ready", "gate", "success", "undo", "idle"}
        /\ pc' \in OwnPhase => pc \in OwnPhase
        /\ UNCHANGED <<inbox, unread, orphans, stray, sid, n, session, file, saved>>
    BY <1>1 DEF SpawnCore, Ready, StillReachable, GiveUp, Started, work, super, conn, late,
                helper, OwnPhase
  <2>2. SameLate
    BY <1>1, SpentLate DEF SpawnCore, Ready, StillReachable, GiveUp, Started, Bounded
  <2>3. routes' \in {routes, None}
    BY <1>1, SweptCalm DEF SpawnCore, Ready, StillReachable, GiveUp, Started, net
  <2>. QED BY <2>1, <2>2, <2>3 DEF Moves, StepsOn, Calm, Waiting
<1>2. CASE PassGate
  <2>1. /\ pc = "gate" /\ pc' = "commit" /\ Send("commit", sid)
        /\ UNCHANGED <<sid, n, session, file, saved, routes, used>>
    BY <1>2 DEF PassGate, work, super, helper, net
  <2>2. SameLate BY <2>1 DEF SameLate
  <2>3. Req("commit", sid) \in Request BY DEF Shape, SuperOK, Req, Request
  <2>4. SendsOne(Req("commit", sid))
    BY <2>1, <2>2 DEF SendsOne, Send, late, Waiting
  <2>. QED BY <2>1, <2>3, <2>4 DEF Moves, Calm, OwnPhase
<1>. QED BY <1>1, <1>2

LEMMA EndingMoves ==
    ASSUME Shape, RunOK, OwnOK, pc \notin {"leave", "exit"}, Ending
    PROVE  Calm /\ Moves
<1>1. CASE RollbackAsks
  <2>1. /\ pc \in {"undo", "stop"} /\ pc' \in {"undowait", "stopwait"} /\ Send("down", sid)
        /\ sid' = None /\ UNCHANGED <<n, session, file, saved, routes, used>>
    BY <1>1 DEF RollbackAsks, work, helper, net
  <2>2. SameLate BY <2>1 DEF SameLate
  <2>3. Req("down", sid) \in Request BY DEF Shape, SuperOK, Req, Request
  <2>4. SendsOne(Req("down", sid))
    BY <2>1, <2>2 DEF SendsOne, Send, late, Waiting
  <2>. QED BY <2>1, <2>3, <2>4 DEF Moves, Calm, OwnPhase
<1>2. CASE UndoEnds \/ StopEnds
  <2>1. pc' \in {"attempt", "idle"} /\ UNCHANGED <<sid, n, session, file, saved, used>>
    <3>1. CASE UndoEnds BY <3>1, NextIs DEF UndoEnds, helper
    <3>2. CASE StopEnds
      <4>1. pc' = "idle" /\ UNCHANGED <<app, work, proc, sid, helper, resolver, core, watch, used>>
        BY <3>2, Zenon DEF StopEnds
      <4>. QED BY <4>1 DEF helper, work
    <3>. QED BY <1>2, <3>1, <3>2
  <2>2. SameLate BY <2>1 DEF SameLate
  <2>3. CASE pc \in {"undo", "stop"} /\ CloseFd /\ UNCHANGED conn
    <3>1. routes' \in {routes, None} BY <2>3, SweptCalm DEF CloseFd
    <3>2. pc \notin Waiting /\ pc' \notin Waiting BY <2>1, <2>3 DEF Waiting
    <3>3. StepsOn BY <2>1, <2>2, <2>3, <3>2 DEF StepsOn, conn, late
    <3>. QED BY <2>1, <3>1, <3>3 DEF Moves, Calm, OwnPhase
  <2>4. CASE pc \in {"undowait", "stopwait"} /\ unread # <<>> /\ Take /\ CloseFd
    <3>1. routes' \in {routes, None} BY <2>4, SweptCalm DEF CloseFd
    <3>. QED
      BY <2>1, <2>2, <2>4, <3>1 DEF Moves, ReadsOne, Take, late, Calm, OwnPhase, Waiting
  <2>5. CASE pc \in {"undowait", "stopwait"} /\ unread # <<>> /\ Drop /\ UNCHANGED routes
    BY <2>1, <2>2, <2>5 DEF Moves, LetsGo, Calm, OwnPhase, Waiting
  <2>6. CASE UndoEnds BY <2>3, <2>4, <2>5, <2>6 DEF UndoEnds
  <2>7. CASE StopEnds
    <3>1. \/ ((pc = "stop" /\ UNCHANGED conn) \/ (pc = "stopwait" /\ unread # <<>> /\ Take)) /\ CloseFd
          \/ pc = "stopwait" /\ unread # <<>> /\ Drop /\ UNCHANGED <<tunFd, fds, routes>>
      BY <2>7, Zenon DEF StopEnds
    <3>. QED BY <2>3, <2>4, <2>5, <3>1
  <2>. QED BY <1>2, <2>6, <2>7
<1>3. CASE RepairEnds
  <2>1. /\ pc \in {"repair", "boot"} /\ pc' = "idle" /\ unread # <<>> /\ (Take \/ Drop)
        /\ UNCHANGED <<sid, n, session, file, saved, routes, used>>
    BY <1>3 DEF RepairEnds, work, super, helper, net
  <2>2. SameLate BY <2>1 DEF SameLate
  <2>. QED
    BY <2>1, <2>2 DEF Moves, ReadsOne, LetsGo, Take, late, Calm, OwnPhase, Waiting
<1>. QED BY <1>1, <1>2, <1>3 DEF Ending, LeaveAnswered, Exit

LEMMA UserMoves ==
    ASSUME Shape, RunOK, OwnOK, app = "on", User, ~Spend("exit")
    PROVE  Calm /\ Moves
<1>1. ASSUME NEW m \in {"tun", "proxy"}, Begin(m) PROVE Calm /\ Moves
  <2>1. /\ pc = "idle" /\ pc' \in {"idle", "attempt"}
        /\ UNCHANGED <<inbox, unread, orphans, stray, sid, n, session, file, saved, routes, used>>
    BY <1>1 DEF Begin, conn, late, helper, net, work
  <2>2. SameLate BY <2>1 DEF SameLate
  <2>. QED BY <2>1, <2>2 DEF Moves, StepsOn, Calm, OwnPhase, Waiting
<1>2. CASE Stop
  <2>1. /\ pc = "idle" /\ pc' = "stop" /\ Sweep(Held(hfd, fds, cores \ {proc}))
        /\ UNCHANGED <<inbox, unread, orphans, stray, sid, n, session, file, saved, used>>
    BY <1>2 DEF Stop, conn, late, helper, work
  <2>2. SameLate BY <2>1 DEF SameLate
  <2>. QED BY <2>1, <2>2, SweptCalm DEF Moves, StepsOn, Calm, OwnPhase, Waiting
<1>3. CASE Repair
  <2>1. /\ pc = "idle" /\ pc' = "repair" /\ Spend("repair") /\ Send("restore", None)
        /\ UNCHANGED <<sid, n, session, file, saved, routes>>
    BY <1>3 DEF Repair, work, super, helper, net
  <2>2. SameLate BY <2>1, SpentLate DEF Bounded
  <2>3. Req("restore", None) \in Request BY Numbers DEF Req, Request
  <2>4. SendsOne(Req("restore", None))
    BY <2>1, <2>2 DEF SendsOne, Send, late, Waiting
  <2>. QED BY <2>1, <2>3, <2>4 DEF Moves, Calm, OwnPhase
<1>. QED BY <1>1, <1>2, <1>3 DEF User, Quit, Crash, Launch

LEMMA TimesOutMoves ==
    ASSUME Shape, RunOK, OwnOK, pc # "leave", TimesOut
    PROVE  Calm /\ Moves
<1>1. /\ pc \in Waiting /\ unread = <<>> /\ UNCHANGED <<sid, session, file, saved>>
  BY DEF TimesOut, super, helper
<1>2. LateNow BY SpentLate DEF TimesOut
<1>3. CASE pc = "fd" /\ NextOrFail /\ UNCHANGED <<conn, cores, routes>>
  <2>1. pc' \in {"attempt", "idle"} /\ n' = n BY <1>3, NextIs
  <2>. QED
    BY <1>1, <1>2, <1>3, <2>1 DEF Moves, LeavesFd, Calm, OwnPhase, Waiting, conn, late
<1>4. CASE pc # "fd" /\ Drop /\ NextOrFail /\ UNCHANGED routes
  <2>1. pc' \in {"attempt", "idle"} /\ n' = n BY <1>4, NextIs
  <2>. QED BY <1>1, <1>2, <1>4, <2>1 DEF Moves, LetsGo, Calm, OwnPhase, Waiting
<1>5. CASE pc # "fd" /\ Drop /\ UNCHANGED work /\ pc' \in {"idle", "undo"}
           /\ routes' \in {routes, None}
  BY <1>1, <1>2, <1>5 DEF Moves, LetsGo, Calm, OwnPhase, Waiting, work
<1>. QED BY <1>3, <1>4, <1>5, SweptCalm DEF TimesOut

LEMMA Moved ==
    ASSUME Shape, RunOK, OwnOK, StaysOn, used["exit"] = 0, used'["exit"] = 0, [Next]_vars
    PROVE  HelperServes \/ HelperServesLate \/ (Calm /\ Moves)
<1>1. app = "on" /\ pc \notin {"leave", "exit"} BY DEF StaysOn
<1>2. ~Spend("exit") BY Spent DEF Bounded
<1>3. CASE Publish \/ UNCHANGED vars \/ \E p \in Attempt : CoreDies(p) \/ OutputEnds(p)
  <2>1. /\ UNCHANGED <<inbox, unread, orphans, stray, session, file, saved, pc, n, sid>>
        /\ used' = used \/ Spend("die")
        /\ routes' = routes \/ \E held : Sweep(held)
    BY <1>3 DEF Publish, vars, CoreDies, OutputEnds, conn, late, helper, super, work, net
  <2>2. SameLate BY <2>1, SpentLate DEF Bounded
  <2>. QED BY <2>1, <2>2, SweptCalm DEF Moves, StepsOn, Calm
<1>4. CASE Attempting
  BY <1>4, StartMoves, AnswerMoves, ForwardMoves DEF Attempting
<1>. QED
  BY <1>1, <1>2, <1>3, <1>4, EndingMoves, UserMoves, TimesOutMoves DEF Next

------------------------------------------------------------------------------
(* Bounds only fill up *)

LEMMA CountsOn ==
    ASSUME Shape, [Next]_vars PROVE used' = used \/ \E b \in Bounded : Spend(b)
<1>0. {"step", "undo", "late", "die", "exit", "repair"} \subseteq Bounded BY DEF Bounded
<1>1. CASE Attempting
  BY <1>0, <1>1
  DEF Attempting, StartAttempt, RefusedEarly, UpAnswered, Healed, FdAnswered, SpawnCore,
      SpawnFails, Ready, PassGate, GiveUp, CommitAnswered, StillReachable, Started
<1>2. CASE RollbackAsks \/ UndoEnds \/ RepairEnds \/ LeaveAnswered \/ Exit
  BY <1>2 DEF RollbackAsks, UndoEnds, RepairEnds, LeaveAnswered, Exit
<1>3. CASE StopEnds BY <1>3, Zenon DEF StopEnds
<1>4. CASE User
  BY <1>0, <1>4 DEF User, Stop, Repair, Quit, Crash, Launch, Begin
<1>5. CASE HelperServes \/ HelperServesLate
  <2>1. PICK r, resp : Serve(r, resp) BY <1>5 DEF HelperServes, HelperServesLate
  <2>. QED
    BY <1>0, <2>1 DEF Serve, ServeUp, ServeFd, ServeCommit, ServeDown, ServeRestore, Undo
<1>6. CASE TimesOut \/ Publish \/ UNCHANGED vars
  BY <1>0, <1>6 DEF TimesOut, Publish, vars
<1>7. CASE \E p \in Attempt : CoreDies(p) \/ OutputEnds(p)
  BY <1>0, <1>7 DEF CoreDies, OutputEnds
<1>. QED BY <1>1, <1>2, <1>3, <1>4, <1>5, <1>6, <1>7 DEF Next, Ending

LEMMA FewBefore ==
    ASSUME Shape, [Next]_vars, Few'
    PROVE  Few /\ (LateNow => used["late"] = 0)
<1>1. /\ used["undo"] \in Nat /\ used["exit"] \in Nat /\ used["late"] \in Nat
      /\ {"undo", "exit", "late"} \subseteq Bounded
  BY DEF Shape, CoreOK, Bounded
<1>2. CASE used' = used BY <1>1, <1>2 DEF Few, LateNow
<1>3. ASSUME NEW b \in Bounded, Spend(b) PROVE Few /\ (LateNow => used["late"] = 0)
  <2>1. /\ used'[b] = used[b] + 1 /\ used[b] \in Nat
        /\ \A c \in Bounded \ {b} : used'[c] = used[c]
    BY <1>3, Spent
  <2>2. b # "undo" /\ b # "exit" BY <2>1 DEF Few
  <2>3. used["undo"] = 0 /\ used["exit"] = 0 BY <1>1, <2>1, <2>2 DEF Few
  <2>4. b = "late" => used["late"] = 0 BY <1>1, <2>1 DEF Few
  <2>5. b # "late" => used'["late"] = used["late"] BY <1>1, <2>1
  <2>6. used["late"] <= 1 BY <1>1, <2>4, <2>5 DEF Few
  <2>7. LateNow => used["late"] = 0 BY <1>1, <2>4, <2>5 DEF LateNow
  <2>. QED BY <2>3, <2>6, <2>7 DEF Few
<1>. QED BY <1>2, <1>3, CountsOn

LEMMA AppStays ==
    ASSUME Shape, StaysOn, used["exit"] = 0, used'["exit"] = 0, [Next]_vars PROVE StaysOn'
<1>1. app = "on" /\ pc \notin {"leave", "exit", "boot"} BY DEF StaysOn
<1>2. ~Spend("exit") BY Spent DEF Bounded
<1>3. CASE Attempting
  BY <1>1, <1>3
  DEF Attempting, StartAttempt, RefusedEarly, UpAnswered, Healed, FdAnswered, SpawnCore,
      SpawnFails, Ready, PassGate, GiveUp, CommitAnswered, StillReachable, Started, NextOrFail,
      StaysOn
<1>4. CASE RollbackAsks \/ UndoEnds \/ RepairEnds \/ LeaveAnswered \/ Exit
  BY <1>1, <1>4 DEF RollbackAsks, UndoEnds, RepairEnds, LeaveAnswered, Exit, NextOrFail, StaysOn
<1>5. CASE StopEnds
  <2>1. pc' = "idle" /\ UNCHANGED <<app, work, proc, sid, helper, resolver, core, watch, used>>
    BY <1>5, Zenon DEF StopEnds
  <2>. QED BY <1>1, <2>1 DEF StaysOn
<1>6. CASE User
  BY <1>1, <1>2, <1>6 DEF User, Stop, Repair, Quit, Crash, Launch, Begin, StaysOn
<1>7. CASE HelperServes \/ HelperServesLate \/ Publish \/ UNCHANGED vars
  BY <1>1, <1>7 DEF HelperServes, HelperServesLate, Publish, vars, StaysOn
<1>8. CASE TimesOut BY <1>1, <1>8 DEF TimesOut, NextOrFail, StaysOn
<1>9. CASE \E p \in Attempt : CoreDies(p) \/ OutputEnds(p)
  BY <1>1, <1>9 DEF CoreDies, OutputEnds, StaysOn
<1>. QED BY <1>3, <1>4, <1>5, <1>6, <1>7, <1>8, <1>9 DEF Next, Ending

------------------------------------------------------------------------------
(* What a move does to the stream *)

LEMMA OneDue ==
    ASSUME OwnOK, InStep \/ LeftBehind, pc \in {"heal", "up2", "commit"} PROVE One
<1>1. CASE InStep BY <1>1 DEF InStep, Waiting
<1>2. CASE LeftBehind
  <2>1. OwnDue BY <1>2 DEF LeftBehind, OwnOK, Stream
  <2>. QED BY <2>1 DEF OwnDue, One
<1>. QED BY <1>1, <1>2

LEMMA SendsAlone ==
    ASSUME Shape, Empty, NEW r \in Request, inbox' = Append(inbox, r), UNCHANGED unread
    PROVE  Len(unread') = 0 /\ Len(inbox') = 1 /\ inbox'[1] = r
<1>1. Len(inbox) = 0 BY DEF Empty
<1>. QED BY <1>1, Sends DEF Empty

LEMMA ReadsLast ==
    ASSUME Shape, One, unread # <<>>, unread' = Tail(unread)
    PROVE  /\ Len(unread) = 1 /\ Len(inbox) = 0 /\ Len(unread') = 0
           /\ inbox' = inbox => Empty'
           /\ \A r \in Request : inbox' = Append(inbox, r) => Len(inbox') = 1 /\ inbox'[1] = r
<1>1. Len(unread) \in Nat \ {0} /\ Len(unread') = Len(unread) - 1 BY FirstFrame
<1>2. Len(unread) = 1 /\ Len(inbox) = 0 BY <1>1 DEF One
<1>3. Len(unread') = 0 BY <1>1, <1>2
<1>4. ASSUME NEW r \in Request, inbox' = Append(inbox, r)
      PROVE  Len(inbox') = 1 /\ inbox'[1] = r
  BY <1>2, <1>4, Sends
<1>. QED BY <1>2, <1>3, <1>4 DEF Empty

LEMMA ReadsFdLast ==
    ASSUME Shape, OneFd, unread # <<>>, inbox' = inbox,
           \/ Answer.resp # "fd" /\ unread' = Tail(unread)
           \/ Answer.resp = "fd" /\ unread' = Tail(Tail(unread))
    PROVE  Empty'
<1>0. Len(unread) \in Nat \ {0} /\ Answer = unread[1] BY FirstFrame
<1>1. Len(unread) \in Nat \ {0} /\ Len(Tail(unread)) = Len(unread) - 1 /\ Answer = unread[1]
      /\ Tail(unread) \in Seq(Response)
  BY FirstFrame
<1>2. CASE Answer.resp # "fd" /\ unread' = Tail(unread)
  <2>0. Answer.resp # "fd" BY <1>2
  <2>1. Len(unread) = 1 /\ Len(inbox) = 0 BY <1>0, <2>0 DEF OneFd
  <2>. QED BY <1>1, <1>2, <2>1 DEF Empty
<1>3. CASE Answer.resp = "fd" /\ unread' = Tail(Tail(unread))
  <2>1. Len(unread) = 2 /\ Len(inbox) = 0 BY <1>1, <1>3 DEF OneFd
  <2>. DEFINE t == Tail(unread)
  <2>2. t \in Seq(Response) /\ Len(t) = 1 /\ unread' = Tail(t) BY <1>1, <1>3, <2>1
  <2>. HIDE DEF t
  <2>3. Len(unread') = 0
    <3>1. t # <<>> BY <2>2
    <3>2. Len(Tail(t)) = Len(t) - 1 BY <2>2, <3>1, Shrinks
    <3>. QED BY <2>2, <3>2
  <2>. QED BY <2>1, <2>3 DEF Empty
<1>. QED BY <1>2, <1>3

(* A command that gives up with a closed stream, or heals.                 *)
LEMMA GoesInStep ==
    ASSUME LetsGo \/ LetsGoAndHeals PROVE InStep'
<1>1. CASE LetsGo
  <2>1. Len(unread') = 0 /\ Len(inbox') = 0 BY <1>1 DEF LetsGo, Drop
  <2>. QED BY <1>1, <2>1 DEF LetsGo, InStep, Empty, Waiting
<1>2. CASE LetsGoAndHeals
  <2>1. Len(unread') = 0 /\ Len(inbox') = 1 /\ inbox'[1] = Req("restore", None) /\ pc' = "heal"
    BY <1>2 DEF LetsGoAndHeals, DropAndSend
  <2>2. inbox'[1].req = "restore" BY <2>1 DEF Req
  <2>. QED BY <2>1, <2>2 DEF InStep, One, Waiting
<1>. QED BY <1>1, <1>2

LEMMA MovesInStep ==
    ASSUME Shape, OwnOK, InStep, Calm, Moves PROVE InStep' \/ LeavesFd
<1>1. CASE StepsOn
  <2>1. UNCHANGED <<inbox, unread>> BY <1>1 DEF StepsOn
  <2>2. CASE pc \notin Waiting /\ pc' \notin Waiting
    BY <2>1, <2>2 DEF InStep, Empty, Waiting
  <2>3. CASE pc' = pc /\ n' = n BY <2>1, <2>3 DEF InStep, Empty, One, OneFd
  <2>. QED BY <1>1, <2>2, <2>3 DEF StepsOn
<1>2. ASSUME NEW r \in Request, SendsOne(r) PROVE InStep'
  <2>1. Empty BY <1>2 DEF InStep, SendsOne
  <2>2. Len(unread') = 0 /\ Len(inbox') = 1 /\ inbox'[1] = r
    BY <1>2, <2>1, SendsAlone DEF SendsOne
  <2>3. pc' \in Waiting \ {"fd"} BY <1>2 DEF SendsOne
  <2>4. r.req # "fd" /\ (pc' \in {"up", "up2"} => r = Req("up", n')) BY <1>2 DEF SendsOne, Req
  <2>5. One' BY <2>2, <2>4 DEF One
  <2>. QED BY <2>3, <2>5 DEF InStep
<1>3. CASE ReadsOne \/ ReadsFd
  <2>1. pc' \notin Waiting /\ unread # <<>> /\ inbox' = inbox
    BY <1>3 DEF ReadsOne, ReadsFd
  <2>2. CASE pc = "fd"
    <3>1. OneFd BY <2>2 DEF InStep
    <3>2. \/ Answer.resp # "fd" /\ unread' = Tail(unread)
          \/ Answer.resp = "fd" /\ unread' = Tail(Tail(unread))
      BY <1>3, <2>2 DEF ReadsOne, ReadsFd
    <3>3. Empty' BY <2>1, <3>1, <3>2, ReadsFdLast
    <3>. QED BY <2>1, <3>3 DEF InStep, Waiting
  <2>3. CASE pc # "fd"
    <3>1. One /\ unread' = Tail(unread) BY <1>3, <2>3 DEF InStep, ReadsOne, ReadsFd
    <3>2. Empty' BY <2>1, <3>1, ReadsLast
    <3>. QED BY <2>1, <3>2 DEF InStep, Waiting
  <2>. QED BY <2>2, <2>3
<1>4. CASE UpIsGood
  <2>1. One BY <1>4 DEF UpIsGood, InStep, Waiting
  <2>2. Req("fd", n) \in Request BY Numbers DEF Req, Request
  <2>3. Len(unread') = 0 /\ Len(inbox') = 1 /\ inbox'[1] = Req("fd", n)
    BY <1>4, <2>1, <2>2, ReadsLast DEF UpIsGood
  <2>4. OneFd' BY <1>4, <2>3 DEF UpIsGood, OneFd
  <2>. QED BY <1>4, <2>4 DEF UpIsGood, InStep, Waiting
<1>5. CASE HealIsGood
  <2>1. One BY <1>5 DEF HealIsGood, InStep, Waiting
  <2>2. Req("up", n) \in Request BY Numbers DEF Req, Request
  <2>3. Len(unread') = 0 /\ Len(inbox') = 1 /\ inbox'[1] = Req("up", n)
    BY <1>5, <2>1, <2>2, ReadsLast DEF HealIsGood
  <2>4. inbox'[1].req # "fd" /\ n' = n BY <1>5, <2>3 DEF Req, HealIsGood
  <2>5. One' BY <2>3, <2>4 DEF One
  <2>. QED BY <1>5, <2>5 DEF HealIsGood, InStep, Waiting
<1>. QED BY <1>1, <1>2, <1>3, <1>4, <1>5, GoesInStep DEF Moves

(* No tunnel has the traffic where take_tun_fd gives up.                   *)
LEMMA LeavesBehind ==
    ASSUME Shape, OwnOK, KnownOK, Few, Few', used["late"] = 0, Calm, LeavesFd PROVE LeftBehind'
<1>1. /\ pc = "fd" /\ unread = <<>> /\ LateNow /\ UNCHANGED <<orphans, stray>>
      /\ orphans = {} /\ ~stray
  BY DEF LeavesFd, KnownOK, InTime
<1>2. OwnFd \/ FdLost BY <1>1 DEF OwnOK, Stream
<1>3. Len(unread) = 0 BY <1>1
<1>4. session = n BY <1>2, <1>3 DEF OwnFd, FdLost, Mine
<1>5. routes < n BY <1>1 DEF KnownOK, RoutesBelow, OwnPhase
<1>6. routes = None \/ routes = n BY <1>4 DEF KnownOK, HelperKnows
<1>7. routes = None BY <1>5, <1>6, Numbers
<1>8. used'["late"] = 1 BY <1>1 DEF LateNow
<1>. QED BY <1>1, <1>7, <1>8 DEF LeftBehind, Calm

LEMMA MovesLeft ==
    ASSUME LeftBehind, Few', Calm, Moves PROVE (InStep \/ LeftBehind)'
<1>1. ~LateNow BY DEF LeftBehind, LateNow, Few
<1>2. CASE LetsGo \/ LetsGoAndHeals BY <1>2, GoesInStep
<1>3. CASE StepsOn \/ ReadsOne \/ ReadsFd \/ UpIsGood \/ HealIsGood \/ \E r \in Request : SendsOne(r)
  <2>1. UNCHANGED <<orphans, stray>> /\ SameLate
    BY <1>3 DEF StepsOn, ReadsOne, ReadsFd, UpIsGood, HealIsGood, SendsOne
  <2>2. routes' = None BY DEF LeftBehind, Calm
  <2>. QED BY <2>1, <2>2 DEF LeftBehind, SameLate
<1>. QED BY <1>1, <1>2, <1>3 DEF Moves, LeavesFd

LEMMA MovesCommitNow ==
    ASSUME Shape, OwnOK, InStep \/ LeftBehind, CommitNow, Moves PROVE CommitNow'
<1>1. pc # "commit" => \A r \in Asks(inbox) : r.req # "commit" BY DEF CommitNow
<1>2. CASE StepsOn
  <2>1. UNCHANGED <<inbox, sid>> /\ (pc = "commit" => pc' = "commit")
    BY <1>2 DEF StepsOn, Waiting
  <2>2. Asks(inbox)' = Asks(inbox) BY <2>1 DEF Asks
  <2>. QED BY <2>1, <2>2 DEF CommitNow
<1>3. ASSUME NEW r \in Request, SendsOne(r) PROVE CommitNow'
  <2>1. pc # "commit" BY <1>3 DEF SendsOne, Waiting
  <2>2. Asks(inbox)' = Asks(inbox) \cup {r} BY <1>3, AsksMore DEF SendsOne
  <2>3. r.req = "commit" => pc' = "commit" /\ r.id = sid' BY <1>3 DEF SendsOne, Req
  <2>. QED BY <1>1, <2>1, <2>2, <2>3 DEF CommitNow
<1>4. CASE ReadsOne \/ ReadsFd \/ LeavesFd
  <2>1. inbox' = inbox BY <1>4 DEF ReadsOne, ReadsFd, LeavesFd
  <2>2. Asks(inbox)' = Asks(inbox) BY <2>1 DEF Asks
  <2>3. CASE pc = "commit"
    <3>1. One /\ unread # <<>> BY <1>4, <2>3, OneDue DEF ReadsOne, ReadsFd, LeavesFd
    <3>2. Len(inbox) = 0 BY <3>1, Lens DEF One
    <3>. QED BY <2>2, <3>2, AsksNone DEF CommitNow
  <2>. QED BY <1>1, <2>2, <2>3 DEF CommitNow
<1>5. CASE UpIsGood \/ HealIsGood
  <2>. DEFINE r == IF pc = "heal" THEN Req("up", n) ELSE Req("fd", n)
  <2>1. pc # "commit" /\ inbox' = Append(inbox, r) BY <1>5 DEF UpIsGood, HealIsGood
  <2>2. r \in Request /\ r.req # "commit" BY Numbers DEF Req, Request
  <2>. HIDE DEF r
  <2>3. Asks(inbox)' = Asks(inbox) \cup {r} BY <2>1, <2>2, AsksMore
  <2>. QED BY <1>1, <2>1, <2>2, <2>3 DEF CommitNow
<1>6. CASE LetsGo
  <2>1. Len(inbox') = 0 BY <1>6 DEF LetsGo, Drop
  <2>2. Asks(inbox)' = {} BY <2>1 DEF Asks
  <2>. QED BY <2>2 DEF CommitNow
<1>7. CASE LetsGoAndHeals
  <2>1. Len(inbox') = 1 /\ inbox'[1] = Req("restore", None)
    BY <1>7 DEF LetsGoAndHeals, DropAndSend
  <2>2. Asks(inbox)' = {Req("restore", None)} BY <2>1 DEF Asks
  <2>. QED BY <2>2 DEF CommitNow, Req
<1>. QED BY <1>2, <1>3, <1>4, <1>5, <1>6, <1>7 DEF Moves

(* What is on its way after a move: all that was, and what is sent.        *)
LEMMA WayAfter ==
    ASSUME Shape
    PROVE  /\ UNCHANGED <<inbox, orphans>> => OnWay' = OnWay /\ Orphaned' = Orphaned
           /\ \A r \in Request : inbox' = Append(inbox, r) /\ UNCHANGED orphans =>
                OnWay' = OnWay \cup {r} /\ Orphaned' = Orphaned
           /\ LetsGo => OnWay' = OnWay
           /\ LetsGoAndHeals => OnWay' = OnWay \cup {Req("restore", None)}
<1>0. UNCHANGED orphans => Orphaned' = Orphaned BY DEF Orphaned, Asks
<1>1. UNCHANGED <<inbox, orphans>> => OnWay' = OnWay /\ Orphaned' = Orphaned
  BY <1>0 DEF OnWay, Asks
<1>2. ASSUME NEW r \in Request, inbox' = Append(inbox, r), UNCHANGED orphans
      PROVE  OnWay' = OnWay \cup {r} /\ Orphaned' = Orphaned
  BY <1>0, <1>2, AsksMore DEF OnWay
<1>3. ASSUME LetsGo PROVE OnWay' = OnWay
  <2>1. inbox' = <<>> /\ Abandon(inbox) BY <1>3 DEF LetsGo, Drop
  <2>2. Len(inbox') = 0 BY <2>1
  <2>3. Asks(inbox)' = {} BY <2>2 DEF Asks
  <2>. QED BY <2>1, <2>3, AsksDropped DEF OnWay
<1>4. ASSUME LetsGoAndHeals PROVE OnWay' = OnWay \cup {Req("restore", None)}
  <2>1. inbox' = <<Req("restore", None)>> /\ Abandon(inbox)
    BY <1>4 DEF LetsGoAndHeals, DropAndSend
  <2>2. Len(inbox') = 1 /\ inbox'[1] = Req("restore", None) BY <2>1
  <2>3. Asks(inbox)' = {Req("restore", None)} BY <2>2 DEF Asks
  <2>. QED BY <2>1, <2>3, AsksDropped DEF OnWay
<1>. QED BY <1>1, <1>2, <1>3, <1>4

(* A commit that is dropped was late, and was all there was.               *)
LEMMA CommitLeft ==
    ASSUME Shape, OwnOK, KnownOK, Few, LateNow => used["late"] = 0,
           LetsGo, NEW r \in Asks(inbox), r.req = "commit"
    PROVE  LateNow /\ Orphaned = {} /\ Asks(inbox) = {r} /\ ~stray
<1>1. pc = "commit" BY DEF KnownOK, InTime, CommitNow
<1>2. One BY <1>1, OneDue DEF KnownOK, InTime
<1>3. Len(inbox) = 1 /\ Len(unread) = 0
  <2>1. Len(inbox) # 0 BY AsksNone
  <2>. QED BY <1>2, <2>1 DEF One
<1>4. Asks(inbox) = {r} BY <1>3, AsksOne
<1>5. LateNow BY <1>3, Lens DEF LetsGo
<1>6. orphans = {} /\ ~stray BY <1>5 DEF KnownOK, InTime
<1>. QED BY <1>4, <1>5, <1>6 DEF Orphaned

LEMMA LetsGoAdds ==
    ASSUME Shape, LetsGo \/ LetsGoAndHeals
    PROVE  /\ Orphaned' = Orphaned \cup Asks(inbox)
           /\ stray' = (stray \/ \E r \in Asks(inbox) : r.req = "restore")
           /\ inbox = <<>> => UNCHANGED <<orphans, stray>>
<1>1. Abandon(inbox) BY DEF LetsGo, LetsGoAndHeals, Drop, DropAndSend
<1>. QED BY <1>1, AsksDropped

(* Nothing is dropped before an answer is late.                            *)
LEMMA DropsNothing ==
    ASSUME Shape, OwnOK, InStep, LetsGo \/ LetsGoAndHeals, SameLate PROVE inbox = <<>>
<1>1. /\ pc \in Waiting \ {"fd"} /\ unread # <<>>
  BY DEF LetsGo, LetsGoAndHeals, Waiting, SameLate, LateNow, Shape, CoreOK, Bounded
<1>2. One BY <1>1 DEF InStep
<1>. QED BY <1>1, <1>2, Lens DEF One

LEMMA MovesOnTime ==
    ASSUME Shape, OwnOK, KnownOK, Few, Moves, used'["late"] = 0
    PROVE  orphans' = {} /\ ~stray'
<1>1. used["late"] \in Nat BY DEF Shape, CoreOK, Bounded
<1>2. ~LateNow /\ ~LeavesFd BY <1>1 DEF LateNow, LeavesFd
<1>3. SameLate
  BY <1>2 DEF Moves, StepsOn, SendsOne, ReadsOne, ReadsFd, UpIsGood, HealIsGood, LetsGo,
              LetsGoAndHeals
<1>4. used["late"] = 0 BY <1>3 DEF SameLate
<1>5. orphans = {} /\ ~stray /\ InStep BY <1>4 DEF KnownOK, InTime, LeftBehind
<1>6. CASE LetsGo \/ LetsGoAndHeals
  BY <1>3, <1>5, <1>6, DropsNothing, LetsGoAdds
<1>7. CASE StepsOn \/ ReadsOne \/ ReadsFd \/ UpIsGood \/ HealIsGood \/ \E r \in Request : SendsOne(r)
  BY <1>5, <1>7 DEF StepsOn, ReadsOne, ReadsFd, UpIsGood, HealIsGood, SendsOne
<1>. QED BY <1>2, <1>6, <1>7 DEF Moves

(* No second session under the number of a commit that was dropped.        *)
LEMMA OlderIds ==
    ASSUME Shape, OwnOK, NEW r \in Orphaned, r.req = "commit"
    PROVE  r.id <= n /\ (pc \in OwnPhase => r.id < n) /\ r.id \in Nat
<1>1. r \in Request /\ r.id \in Id BY AsksRequests DEF Request
<1>2. r.id \in Nat BY <1>1, LimitsAssumption DEF Id, Attempt, None
<1>. QED BY <1>2 DEF Orphaned, Asks, OwnOK, IdsBelow, Targets

LEMMA MovesNoSecondUp ==
    ASSUME Shape, OwnOK, KnownOK, Few, LateNow => used["late"] = 0, Moves PROVE NoSecondUp'
<1>0. NoSecondUp /\ CommitNow BY DEF KnownOK, InTime
<1>1. CASE StepsOn \/ ReadsOne \/ ReadsFd \/ LeavesFd
  <2>1. UNCHANGED <<inbox, orphans>> BY <1>1 DEF StepsOn, ReadsOne, ReadsFd, LeavesFd
  <2>2. OnWay' = OnWay /\ Orphaned' = Orphaned BY <2>1, WayAfter
  <2>. QED BY <1>0, <2>2 DEF NoSecondUp
<1>2. ASSUME NEW r \in Request, SendsOne(r) PROVE NoSecondUp'
  <2>1. inbox' = Append(inbox, r) /\ UNCHANGED orphans BY <1>2 DEF SendsOne
  <2>2. OnWay' = OnWay \cup {r} /\ Orphaned' = Orphaned BY <2>1, WayAfter
  <2>3. ASSUME NEW o \in Orphaned, o.req = "commit" PROVE Req("up", o.id) # r
    <3>1. r.req = "up" => r.id = n + 1 BY <1>2 DEF SendsOne, Req
    <3>2. o.id <= n /\ o.id \in Nat BY <2>3, OlderIds
    <3>3. o.id # n + 1 BY <3>2, Numbers
    <3>. QED BY <3>1, <3>3 DEF Req
  <2>. QED BY <1>0, <2>2, <2>3 DEF NoSecondUp
<1>3. CASE UpIsGood
  <2>1. Req("fd", n) \in Request BY Numbers DEF Req, Request
  <2>2. OnWay' = OnWay \cup {Req("fd", n)} /\ Orphaned' = Orphaned
    BY <1>3, <2>1, WayAfter DEF UpIsGood
  <2>3. \A id : Req("up", id) # Req("fd", n) BY DEF Req
  <2>. QED BY <1>0, <2>2, <2>3 DEF NoSecondUp
<1>4. CASE HealIsGood
  <2>1. Req("up", n) \in Request BY Numbers DEF Req, Request
  <2>2. OnWay' = OnWay \cup {Req("up", n)} /\ Orphaned' = Orphaned
    BY <1>4, <2>1, WayAfter DEF HealIsGood
  <2>3. ASSUME NEW o \in Orphaned, o.req = "commit" PROVE Req("up", o.id) # Req("up", n)
    <3>1. o.id < n /\ o.id \in Nat BY <1>4, <2>3, OlderIds DEF HealIsGood, OwnPhase
    <3>2. o.id # n BY <3>1, Numbers
    <3>. QED BY <3>2 DEF Req
  <2>. QED BY <1>0, <2>2, <2>3 DEF NoSecondUp
<1>5. CASE LetsGo
  <2>1. OnWay' = OnWay /\ Orphaned' = Orphaned \cup Asks(inbox) BY <1>5, WayAfter, LetsGoAdds
  <2>2. ASSUME NEW o \in Asks(inbox), o.req = "commit" PROVE Req("up", o.id) \notin OnWay
    <3>1. Orphaned = {} /\ Asks(inbox) = {o} BY <1>5, <2>2, CommitLeft
    <3>2. OnWay = {o} BY <3>1 DEF OnWay
    <3>. QED BY <2>2, <3>2 DEF Req
  <2>. QED BY <1>0, <2>1, <2>2 DEF NoSecondUp
<1>6. CASE LetsGoAndHeals
  <2>1. /\ OnWay' = OnWay \cup {Req("restore", None)} /\ Orphaned' = Orphaned \cup Asks(inbox)
    BY <1>6, WayAfter, LetsGoAdds
  <2>2. \A o \in Asks(inbox) : o.req # "commit" BY <1>0, <1>6 DEF CommitNow, LetsGoAndHeals
  <2>3. \A id : Req("up", id) # Req("restore", None) BY DEF Req
  <2>. QED BY <1>0, <2>1, <2>2, <2>3 DEF NoSecondUp
<1>. QED BY <1>1, <1>2, <1>3, <1>4, <1>5, <1>6 DEF Moves

(* A Restore that was dropped meets no commit, nor a tunnel it would miss. *)
LEMMA MovesStray ==
    ASSUME Shape, OwnOK, KnownOK, Few, LateNow => used["late"] = 0, Calm, Moves, stray'
    PROVE  NoCommitLost' /\ RaisedAlone'
<1>0. /\ InStep \/ LeftBehind
      /\ CommitNow
      /\ stray => NoCommitLost /\ RaisedAlone /\ InStep
      /\ used["late"] = 0 => orphans = {}
  BY DEF KnownOK, InTime, LeftBehind
<1>1. orphans = {} => NoCommitLost BY DEF NoCommitLost, Orphaned
<1>2. CASE LetsGo \/ LetsGoAndHeals
  <2>1. pc' \notin {"up", "up2"} BY <1>2 DEF LetsGo, LetsGoAndHeals, Waiting
  <2>2. /\ Orphaned' = Orphaned \cup Asks(inbox)
        /\ stray' = (stray \/ \E r \in Asks(inbox) : r.req = "restore")
        /\ inbox = <<>> => UNCHANGED <<orphans, stray>>
    BY <1>2, LetsGoAdds
  <2>3. ASSUME NEW r \in Asks(inbox) PROVE r.req # "commit"
    <3>1. CASE LetsGoAndHeals BY <1>0, <3>1 DEF CommitNow, LetsGoAndHeals
    <3>2. CASE LetsGo
      <4>. SUFFICES ASSUME r.req = "commit" PROVE FALSE OBVIOUS
      <4>1. Asks(inbox) = {r} /\ ~stray BY <3>2, CommitLeft
      <4>. QED BY <2>2, <4>1
    <3>. QED BY <1>2, <3>1, <3>2
  <2>4. NoCommitLost
    <3>1. CASE stray BY <1>0, <3>1
    <3>2. CASE LeftBehind BY <1>1, <3>2 DEF LeftBehind
    <3>3. CASE LateNow BY <1>0, <1>1, <3>3
    <3>4. CASE InStep /\ SameLate /\ ~stray
      <4>1. UNCHANGED stray BY <1>2, <2>2, <3>4, DropsNothing
      <4>. QED BY <3>4, <4>1
    <3>. QED BY <1>0, <1>2, <3>1, <3>2, <3>3, <3>4 DEF LetsGo, LetsGoAndHeals
  <2>. QED BY <2>1, <2>2, <2>3, <2>4 DEF NoCommitLost, RaisedAlone
<1>3. CASE StepsOn \/ ReadsOne \/ ReadsFd \/ UpIsGood \/ HealIsGood \/ LeavesFd
           \/ \E r \in Request : SendsOne(r)
  <2>1. UNCHANGED <<orphans, stray>>
    BY <1>3 DEF StepsOn, ReadsOne, ReadsFd, UpIsGood, HealIsGood, LeavesFd, SendsOne
  <2>2. Orphaned' = Orphaned BY <2>1 DEF Orphaned, Asks
  <2>3. NoCommitLost' BY <1>0, <2>1, <2>2 DEF NoCommitLost
  <2>4. CASE StepsOn
    <3>1. unread' = unread /\ (pc' \in {"up", "up2"} => pc' = pc)
      BY <2>4 DEF StepsOn, Waiting
    <3>2. RaisedAlone BY <1>0, <2>1
    <3>. QED BY <2>3, <3>1, <3>2 DEF RaisedAlone, Calm
  <2>5. ASSUME NEW r \in Request, SendsOne(r) PROVE RaisedAlone'
    <3>1. Empty BY <1>0, <2>1, <2>5 DEF InStep, SendsOne
    <3>2. Len(unread') = 0 BY <2>5, <3>1 DEF SendsOne, Empty
    <3>. QED BY <3>2 DEF RaisedAlone
  <2>6. CASE HealIsGood
    <3>1. One BY <1>0, <2>1, <2>6 DEF InStep, HealIsGood, Waiting
    <3>2. Len(unread') = 0 BY <2>6, <3>1, ReadsLast DEF HealIsGood
    <3>. QED BY <2>3, <3>2 DEF RaisedAlone
  <2>7. CASE ReadsOne \/ ReadsFd \/ UpIsGood \/ LeavesFd
    <3>1. pc' \notin {"up", "up2"}
      BY <2>7 DEF ReadsOne, ReadsFd, UpIsGood, LeavesFd, Waiting
    <3>. QED BY <2>3, <3>1 DEF RaisedAlone
  <2>. QED BY <1>3, <2>3, <2>4, <2>5, <2>6, <2>7
<1>. QED BY <1>2, <1>3 DEF Moves

(* A good answer to TunUp is this attempt's own session, or no session     *)
(* takes the traffic any more.                                             *)
LEMMA UpTakesOwn ==
    ASSUME Shape, OwnOK, KnownOK, Few, UpIsGood, NEW c \in Id, Takes(c) PROVE c = n
<1>0. /\ InStep \/ LeftBehind
      /\ CommitNow
      /\ stray => NoCommitLost /\ RaisedAlone
      /\ pc \in {"up", "up2"} /\ unread # <<>> /\ unread[1].resp \in {"ok", "fd"}
      /\ Len(unread) \in Nat \ {0}
  BY FirstFrame DEF KnownOK, InTime, UpIsGood, Good
<1>1. \A r \in Asks(inbox) : r.req # "commit" BY <1>0 DEF CommitNow
<1>2. ASSUME routes = None, NoCommitLost PROVE FALSE
  <2>1. c # None /\ Req("commit", c) \in OnWay BY <1>2 DEF Takes
  <2>. QED BY <1>1, <1>2, <2>1 DEF NoCommitLost, OnWay, Req
<1>3. CASE stray
  <2>1. One BY <1>0, <1>3 DEF InStep, LeftBehind, Waiting
  <2>2. Len(unread) = 1 BY <1>0, <2>1 DEF One
  <2>3. routes = None /\ NoCommitLost BY <1>0, <1>3, <2>2 DEF RaisedAlone
  <2>. QED BY <1>2, <2>3
<1>4. CASE ~stray
  <2>1. AnswerDue \/ OwnDue BY <1>0, <1>4 DEF OwnOK, Stream
  <2>2. ~RefusedAt(1) /\ ~FdFirst BY <1>0 DEF RefusedAt, FdFirst, FdAsked
  <2>3. OwnDue => c = n BY <1>0 DEF OwnDue, Takes
  <2>4. ASSUME FdRead PROVE FALSE
    <3>1. Len(unread) >= 2 BY <2>4 DEF FdRead, FdGiven
    <3>2. ~One BY <1>0, <3>1 DEF One
    <3>3. LeftBehind BY <1>0, <3>2 DEF InStep, Waiting
    <3>. QED BY <1>2, <3>3 DEF LeftBehind, NoCommitLost, Orphaned
  <2>. QED BY <2>1, <2>2, <2>3, <2>4 DEF AnswerDue
<1>. QED BY <1>3, <1>4

LEMMA MovesRemember ==
    ASSUME Shape, OwnOK, KnownOK, Few, LateNow => used["late"] = 0, Calm, Moves
    PROVE  Remembered'
<1>0. Remembered BY DEF KnownOK
<1>. SUFFICES ASSUME NEW c \in Id, Takes(c)' PROVE (sid = c \/ EndDue(c))'
  BY DEF Remembered
<1>1. /\ session = c /\ c # None
      /\ routes = c \/ Req("commit", c) \in OnWay'
  BY DEF Takes, Calm
<1>2. ASSUME OnWay' = OnWay, sid' = sid PROVE (sid = c \/ EndDue(c))'
  <2>1. Takes(c) BY <1>1, <1>2 DEF Takes
  <2>. QED BY <1>0, <1>2, <2>1 DEF Remembered, EndDue
<1>3. ASSUME NEW r \in Request, OnWay' = OnWay \cup {r}, r.req # "commit", sid' = sid
      PROVE  (sid = c \/ EndDue(c))'
  <2>1. Takes(c) BY <1>1, <1>3 DEF Takes, Req
  <2>. QED BY <1>0, <1>3, <2>1 DEF Remembered, EndDue
<1>4. CASE StepsOn \/ ReadsOne \/ ReadsFd \/ LeavesFd
  <2>1. UNCHANGED <<inbox, orphans, sid>> BY <1>4 DEF StepsOn, ReadsOne, ReadsFd, LeavesFd
  <2>. QED BY <1>2, <2>1, WayAfter
<1>5. ASSUME NEW r \in Request, SendsOne(r) PROVE (sid = c \/ EndDue(c))'
  <2>1. OnWay' = OnWay \cup {r} BY <1>5, WayAfter DEF SendsOne
  <2>2. CASE r.req = "commit"
    <3>1. r = Req("commit", sid) /\ sid' = sid BY <1>5, <2>2 DEF SendsOne, Req
    <3>2. CASE sid = c BY <3>1, <3>2
    <3>3. CASE sid # c
      <4>1. Takes(c) BY <1>1, <2>1, <3>1, <3>3 DEF Takes, Req
      <4>. QED BY <1>0, <2>1, <3>1, <4>1 DEF Remembered, EndDue
    <3>. QED BY <3>2, <3>3
  <2>3. CASE r.req # "commit" /\ sid' = sid BY <1>3, <2>1, <2>3
  <2>4. CASE r = Req("down", sid)
    <3>1. Takes(c) BY <1>1, <2>1, <2>4 DEF Takes, Req
    <3>2. sid = c => r \in Ends(c) BY <2>4 DEF Ends
    <3>. QED BY <1>0, <2>1, <3>1, <3>2 DEF Remembered, EndDue
  <2>. QED BY <1>5, <2>2, <2>3, <2>4 DEF SendsOne
<1>6. CASE UpIsGood
  <2>1. Req("fd", n) \in Request /\ Req("fd", n).req # "commit" BY Numbers DEF Req, Request
  <2>2. OnWay' = OnWay \cup {Req("fd", n)} BY <1>6, <2>1, WayAfter DEF UpIsGood
  <2>3. Takes(c) BY <1>1, <2>2 DEF Takes, Req
  <2>4. c = n BY <1>6, <2>3, UpTakesOwn
  <2>. QED BY <1>6, <2>4 DEF UpIsGood
<1>7. CASE HealIsGood
  <2>1. Req("up", n) \in Request /\ Req("up", n).req # "commit" BY Numbers DEF Req, Request
  <2>2. OnWay' = OnWay \cup {Req("up", n)} /\ sid' = sid
    BY <1>7, <2>1, WayAfter DEF HealIsGood
  <2>. QED BY <1>3, <2>1, <2>2
<1>8. CASE LetsGo
  <2>1. OnWay' = OnWay /\ sid' = sid BY <1>8, WayAfter DEF LetsGo
  <2>. QED BY <1>2, <2>1
<1>9. CASE LetsGoAndHeals
  <2>1. Req("restore", None) \in OnWay' BY <1>9, WayAfter
  <2>. QED BY <2>1 DEF EndDue, Ends
<1>. QED BY <1>4, <1>5, <1>6, <1>7, <1>8, <1>9 DEF Moves

LEMMA MovesRoutes ==
    ASSUME Shape, Shape', KnownOK, Few, Calm PROVE RoutesBelow' /\ HelperKnows'
<1>1. RoutesBelow /\ HelperKnows BY DEF KnownOK
<1>2. HelperKnows' BY <1>1 DEF HelperKnows, Calm
<1>3. n \in Nat /\ routes \in Nat
  BY Numbers, LimitsAssumption DEF Shape, CoreOK, Id, Attempt, None
<1>4. n' \in Nat /\ (pc' \in OwnPhase => n' >= 1)
  <2>1. n' \in 0 .. MaxAttempt /\ (pc' \in Trying \ {"attempt"} => n' >= 1)
    BY DEF Shape, WorkOK, AttemptOK
  <2>. QED BY <2>1, LimitsAssumption DEF OwnPhase, Trying
<1>5. RoutesBelow' BY <1>1, <1>3, <1>4 DEF RoutesBelow, Calm, None
<1>. QED BY <1>2, <1>5

------------------------------------------------------------------------------
(* What the helper does to a session that has the traffic *)

(* A request that is served ends the session, or raises one, or gives it   *)
(* the traffic, or changes neither.                                        *)
LEMMA Effects ==
    ASSUME Shape, HelperKnows, NEW r \in Request, NEW resp, Serve(r, resp),
           used["undo"] = 0, used'["undo"] = 0
    PROVE  /\ HelperKnows'
           /\ \/ session' = None /\ routes' = None
              \/ /\ session' = session /\ routes' = routes
                 /\ session # None => r \notin Ends(session)
              \/ /\ r = Req("up", session') /\ session = None
                 /\ routes = None /\ routes' = None
              \/ /\ r = Req("commit", session) /\ session' = session /\ routes' = session
           /\ routes' \in {routes, None} \/ (r.req = "commit" /\ routes' = r.id)
           /\ r.req = "up" /\ resp \in {"ok", "fd"} => routes = None /\ routes' = None
<1>0. r = Req(r.req, r.id) BY AsksRequests
<1>1. ~Spend("undo") BY Spent DEF Bounded
<1>2. session = None => routes = None BY DEF HelperKnows
<1>3. CASE r.req = "up" /\ ServeUp(r.id, resp)
  BY <1>0, <1>2, <1>3 DEF ServeUp, net, HelperKnows, Ends, Req
<1>4. CASE r.req = "fd" /\ ServeFd(r.id, resp)
  BY <1>0, <1>4 DEF ServeFd, helper, net, HelperKnows, Ends, Req
<1>5. CASE r.req = "commit" /\ ServeCommit(r.id, resp)
  <2>1. CASE UNCHANGED <<helper, net>>
    BY <1>0, <1>5, <2>1 DEF helper, net, HelperKnows, Ends, Req
  <2>2. CASE /\ session = r.id
             /\ saved' = (IF resolver = "user" THEN "user" ELSE "dhcp")
             /\ routes' = r.id /\ UNCHANGED <<session, file, hfd, used>>
    BY <1>0, <1>5, <2>2 DEF HelperKnows, Req
  <2>3. CASE session = r.id /\ saved = "none" /\ session' = None /\ file' = None /\ UNCHANGED net
    BY <1>2, <1>5, <2>3 DEF net, HelperKnows
  <2>. QED BY <1>5, <2>1, <2>2, <2>3 DEF ServeCommit
<1>6. ASSUME Undo(session, resp), r.req \in {"down", "restore"}
      PROVE  /\ HelperKnows' /\ session' = None /\ routes' = None
  <2>1. /\ session' = None /\ routes' = IF routes \in {file, session} THEN None ELSE routes
    BY <1>1, <1>6 DEF Undo
  <2>2. routes' = None BY <2>1 DEF HelperKnows
  <2>. QED BY <2>1, <2>2 DEF HelperKnows
<1>7. CASE r.req = "down" /\ ServeDown(r.id, resp)
  <2>1. CASE session # r.id /\ UNCHANGED <<helper, net>>
    BY <1>0, <1>7, <2>1 DEF helper, net, HelperKnows, Ends, Req
  <2>2. CASE session = r.id /\ Undo(r.id, resp)
    <3>1. Undo(session, resp) BY <2>2
    <3>. QED BY <1>6, <1>7, <3>1
  <2>. QED BY <1>7, <2>1, <2>2 DEF ServeDown
<1>8. CASE r.req = "restore" /\ ServeRestore(r.id, resp)
  BY <1>6, <1>8 DEF ServeRestore
<1>. QED BY <1>3, <1>4, <1>5, <1>7, <1>8 DEF Serve

(* Either way of serving: the request leaves, the rest is kept.            *)
ServesOne(r, resp) ==
    /\ Serve(r, resp) /\ r \in OnWay
    /\ OnWay' \subseteq OnWay /\ OnWay \ {r} \subseteq OnWay'
    /\ Asks(inbox)' \subseteq Asks(inbox) /\ Orphaned' \subseteq Orphaned
    /\ UNCHANGED <<pc, n, sid, stray>>

LEMMA ServesAre ==
    ASSUME Shape, HelperServes \/ HelperServesLate
    PROVE  \E resp \in {"ok", "conflict", "error", "fd"}, r \in Request : ServesOne(r, resp)
<1>1. UNCHANGED <<pc, n, sid, stray>>
  BY DEF HelperServes, HelperServesLate, work, super, late
<1>2. CASE HelperServes
  <2>1. PICK resp \in {"ok", "conflict", "error", "fd"}, r \in Request :
             /\ Serve(r, resp) /\ r \in Asks(inbox)
             /\ Asks(inbox)' \subseteq Asks(inbox) /\ Asks(inbox) \ {r} \subseteq Asks(inbox)'
             /\ Orphaned' = Orphaned
    BY <1>2, AsksServed
  <2>2. ServesOne(r, resp) BY <1>1, <2>1 DEF ServesOne, OnWay
  <2>. QED BY <2>2
<1>3. CASE HelperServesLate
  <2>1. PICK resp \in {"ok", "conflict", "error", "fd"}, r \in Request :
             /\ Serve(r, resp) /\ r \in Orphaned
             /\ Asks(inbox)' = Asks(inbox)
             /\ Orphaned' \subseteq Orphaned /\ Orphaned \ {r} \subseteq Orphaned'
    BY <1>3, AsksServedLate
  <2>2. ServesOne(r, resp) BY <1>1, <2>1 DEF ServesOne, OnWay
  <2>. QED BY <2>2
<1>. QED BY <1>2, <1>3

LEMMA ServedKeeps ==
    ASSUME Shape, OwnOK, KnownOK, Few, Few', NEW r \in Request, NEW resp, ServesOne(r, resp)
    PROVE  RoutesBelow' /\ HelperKnows' /\ CommitNow' /\ NoSecondUp' /\ Remembered'
<1>0. RoutesBelow /\ HelperKnows /\ CommitNow /\ NoSecondUp /\ Remembered
  BY DEF KnownOK, InTime
<1>1. used["undo"] = 0 /\ used'["undo"] = 0 BY DEF Few
<1>2. /\ HelperKnows'
      /\ \/ session' = None /\ routes' = None
         \/ /\ session' = session /\ routes' = routes
            /\ session # None => r \notin Ends(session)
         \/ /\ r = Req("up", session') /\ session = None
            /\ routes = None /\ routes' = None
         \/ /\ r = Req("commit", session) /\ session' = session /\ routes' = session
      /\ routes' \in {routes, None} \/ (r.req = "commit" /\ routes' = r.id)
  BY <1>0, <1>1, Effects DEF ServesOne
<1>3. RoutesBelow'
  <2>1. n \in Nat /\ routes \in Nat
    BY Numbers, LimitsAssumption DEF Shape, CoreOK, Id, Attempt, None
  <2>2. pc \in OwnPhase => n >= 1
    BY Numbers, LimitsAssumption DEF OwnPhase, Trying, Attempt
  <2>3. r.req = "commit" => r.id <= n /\ (pc \in OwnPhase => r.id < n)
    BY DEF ServesOne, OnWay, Orphaned, Asks, OwnOK, IdsBelow, Targets
  <2>. QED BY <1>0, <1>2, <2>1, <2>2, <2>3 DEF RoutesBelow, ServesOne, None
<1>4. CommitNow' /\ NoSecondUp' BY <1>0 DEF CommitNow, NoSecondUp, ServesOne
<1>5. Remembered'
  <2>. SUFFICES ASSUME NEW c \in Id, Takes(c)' PROVE (sid = c \/ EndDue(c))'
    BY DEF Remembered
  <2>1. /\ session' = c /\ c # None
        /\ routes' = c \/ Req("commit", c) \in OnWay
    BY DEF Takes, ServesOne
  <2>2. CASE session' = session /\ routes' = routes /\ r \notin Ends(session)
    <3>1. Takes(c) BY <2>1, <2>2 DEF Takes
    <3>2. sid = c \/ EndDue(c) BY <1>0, <3>1 DEF Remembered
    <3>3. r \notin Ends(c) BY <2>1, <2>2
    <3>. QED BY <3>2, <3>3 DEF EndDue, ServesOne
  <2>3. CASE r = Req("up", c) /\ routes' = None
    <3>1. Req("commit", c) \in OnWay BY <2>1, <2>3
    <3>2. Req("commit", c).req = "commit" /\ Req("commit", c).id = c BY DEF Req
    <3>3. Req("commit", c) \notin Orphaned BY <1>0, <2>3, <3>2 DEF NoSecondUp, ServesOne
    <3>4. Req("commit", c) \in Asks(inbox) BY <3>1, <3>3 DEF OnWay
    <3>5. sid = c BY <1>0, <3>2, <3>4 DEF CommitNow
    <3>. QED BY <3>5 DEF ServesOne
  <2>4. CASE r = Req("commit", session) /\ session' = session
    <3>1. Takes(c) BY <2>1, <2>4 DEF Takes, ServesOne
    <3>2. sid = c \/ EndDue(c) BY <1>0, <3>1 DEF Remembered
    <3>3. r \notin Ends(c) BY <2>4 DEF Ends, Req
    <3>. QED BY <3>2, <3>3 DEF EndDue, ServesOne
  <2>. QED BY <1>2, <2>1, <2>2, <2>3, <2>4
<1>. QED BY <1>2, <1>3, <1>4, <1>5

(* The answer to a command that is in step.                                *)
LEMMA AnswersOne ==
    ASSUME Shape, HelperServes, Len(unread) = 0, Len(inbox) = 1
    PROVE  \E resp \in {"ok", "conflict", "error", "fd"} :
             /\ Serve(inbox[1], resp) /\ inbox[1] \in Request /\ Len(inbox') = 0
             /\ unread'[1].resp = resp
             /\ Len(unread') = IF resp = "fd" THEN 2 ELSE 1
<1>1. PICK resp \in {"ok", "conflict", "error", "fd"}, r \in Request :
         Serve(r, resp) /\ r = inbox[1] /\ unread' = unread \o Frames(resp, r.id)
  BY AsksServed
<1>2. r.id \in Id BY DEF Request
<1>. DEFINE f == Frames(resp, r.id)
<1>3. (resp # "fd" => Len(f) = 1) /\ (resp = "fd" => Len(f) = 2) BY <1>2, FramesType
<1>4. Len(unread') = Len(unread) + Len(f)
      /\ unread'[Len(unread) + 1] = [resp |-> resp, id |-> r.id]
  BY <1>1, <1>2, AnsweredType
<1>. HIDE DEF f
<1>5. Len(unread') = IF resp = "fd" THEN 2 ELSE 1 BY <1>3, <1>4
<1>6. unread'[1].resp = resp BY <1>4
<1>7. Len(inbox') = 0
  <2>1. inbox # <<>> /\ inbox' = Tail(inbox) /\ inbox \in Seq(Request)
    BY DEF HelperServes, Shape, ConnOK
  <2>2. Len(inbox') = Len(inbox) - 1 BY <2>1, Shrinks
  <2>. QED BY <2>2
<1>. QED BY <1>1, <1>5, <1>6, <1>7

LEMMA NotFd ==
    ASSUME NEW r, NEW resp, Serve(r, resp), r.req # "fd" PROVE resp # "fd"
  BY DEF Serve, ServeUp, ServeCommit, ServeDown, ServeRestore, Undo

LEMMA OneServed == ASSUME Shape, One, HelperServes PROVE One'
<1>1. inbox # <<>> BY DEF HelperServes
<1>2. Len(unread) = 0 /\ Len(inbox) = 1 /\ inbox[1].req # "fd" BY <1>1, Lens DEF One
<1>3. PICK resp \in {"ok", "conflict", "error", "fd"} :
         /\ Serve(inbox[1], resp) /\ Len(inbox') = 0
         /\ Len(unread') = IF resp = "fd" THEN 2 ELSE 1
  BY <1>2, AnswersOne
<1>4. resp # "fd" BY <1>2, <1>3, NotFd
<1>. QED BY <1>3, <1>4 DEF One

LEMMA OneFdServed == ASSUME Shape, OneFd, HelperServes PROVE OneFd'
<1>1. inbox # <<>> BY DEF HelperServes
<1>2. Len(unread) = 0 /\ Len(inbox) = 1 BY <1>1, Lens DEF OneFd
<1>3. PICK resp \in {"ok", "conflict", "error", "fd"} :
         /\ Len(inbox') = 0 /\ unread'[1].resp = resp
         /\ Len(unread') = IF resp = "fd" THEN 2 ELSE 1
  BY <1>2, AnswersOne
<1>. QED BY <1>3 DEF OneFd

LEMMA ServedInStep ==
    ASSUME Shape, OwnOK, KnownOK, Few, Few', HelperServes \/ HelperServesLate
    PROVE  (InStep \/ LeftBehind)'
<1>0. (InStep \/ LeftBehind) /\ CommitNow BY DEF KnownOK, InTime
<1>1. UNCHANGED <<pc, n, sid, stray>>
  BY DEF HelperServes, HelperServesLate, work, super, late
<1>2. CASE InStep /\ HelperServes
  <2>1. ~Empty
    <3>1. inbox # <<>> BY <1>2 DEF HelperServes
    <3>. QED BY <3>1, Lens DEF Empty
  <2>2. pc \in Waiting BY <1>2, <2>1 DEF InStep
  <2>3. CASE pc = "fd" BY <1>1, <1>2, <2>3, OneFdServed DEF InStep, Waiting
  <2>4. CASE pc # "fd" BY <1>1, <1>2, <2>2, <2>4, OneServed DEF InStep, Waiting
  <2>. QED BY <2>3, <2>4
<1>3. CASE InStep /\ HelperServesLate
  <2>1. UNCHANGED <<inbox, unread>> BY <1>3 DEF HelperServesLate
  <2>. QED BY <1>1, <1>3, <2>1 DEF InStep, Empty, One, OneFd
<1>4. CASE LeftBehind /\ HelperServesLate BY <1>4 DEF LeftBehind, HelperServesLate
<1>5. CASE LeftBehind /\ HelperServes
  <2>1. PICK resp \in {"ok", "conflict", "error", "fd"}, r \in Request :
             Serve(r, resp) /\ r \in Asks(inbox)
    BY <1>5, AsksServed
  <2>2. CASE pc = "commit"
    <3>1. One' BY <1>0, <1>5, <2>2, OneDue, OneServed
    <3>. QED BY <1>1, <2>2, <3>1 DEF InStep, Waiting
  <2>3. CASE pc # "commit"
    <3>1. r.req # "commit" BY <1>0, <2>1, <2>3 DEF CommitNow
    <3>2. routes' = None
      <4>1. HelperKnows /\ used["undo"] = 0 /\ used'["undo"] = 0 BY DEF KnownOK, Few
      <4>2. routes' \in {routes, None} BY <2>1, <3>1, <4>1, Effects
      <4>. QED BY <1>5, <4>2 DEF LeftBehind
    <3>3. used["late"] \in Nat /\ used["late"] = 1 /\ used'["late"] = 1
      <4>1. used' = used \/ Spend("step") \/ Spend("undo")
        BY <2>1 DEF Serve, ServeUp, ServeFd, ServeCommit, ServeDown, ServeRestore, Undo
      <4>2. SameLate BY <4>1, SpentLate DEF Bounded
      <4>. QED BY <1>5, <4>2 DEF LeftBehind, SameLate
    <3>4. orphans' = {} /\ ~stray' BY <1>1, <1>5, SMTT(60) DEF LeftBehind, HelperServes, late
    <3>. QED BY <3>2, <3>3, <3>4 DEF LeftBehind
  <2>. QED BY <2>2, <2>3
<1>. QED BY <1>0, <1>2, <1>3, <1>4, <1>5

LEMMA ServedStray ==
    ASSUME Shape, OwnOK, KnownOK, Few, Few', HelperServes \/ HelperServesLate, stray'
    PROVE  NoCommitLost' /\ RaisedAlone'
<1>1. PICK resp \in {"ok", "conflict", "error", "fd"}, r \in Request : ServesOne(r, resp)
  BY ServesAre
<1>2. stray BY <1>1 DEF ServesOne
<1>3. /\ InStep /\ NoCommitLost /\ RaisedAlone /\ CommitNow /\ HelperKnows
      /\ used["undo"] = 0 /\ used'["undo"] = 0
  BY <1>2 DEF KnownOK, InTime, LeftBehind, Few
<1>4. NoCommitLost' BY <1>1, <1>3 DEF NoCommitLost, ServesOne
<1>5. CASE HelperServesLate
  <2>1. unread' = unread /\ pc' = pc BY <1>5 DEF HelperServesLate
  <2>2. PICK resp2 \in {"ok", "conflict", "error", "fd"}, r2 \in Request :
             Serve(r2, resp2) /\ r2 \in Orphaned
    BY <1>5, AsksServedLate
  <2>3. routes' \in {routes, None} BY <1>3, <2>2, Effects DEF NoCommitLost
  <2>. QED BY <1>3, <1>4, <2>1, <2>3 DEF RaisedAlone
<1>6. CASE HelperServes
  <2>. SUFFICES ASSUME pc' \in {"up", "up2"}, unread'[1].resp \in {"ok", "fd"}
                PROVE  routes' = None
    BY <1>4 DEF RaisedAlone
  <2>1. pc \in {"up", "up2"} BY <1>1 DEF ServesOne
  <2>2. One /\ inbox # <<>> BY <1>3, <1>6, <2>1 DEF InStep, Waiting, HelperServes
  <2>3. Len(unread) = 0 /\ Len(inbox) = 1 /\ inbox[1] = Req("up", n)
    BY <2>1, <2>2, Lens DEF One
  <2>4. PICK resp2 \in {"ok", "conflict", "error", "fd"} :
             Serve(inbox[1], resp2) /\ inbox[1] \in Request /\ unread'[1].resp = resp2
    BY <1>6, <2>3, AnswersOne
  <2>5. inbox[1].req = "up" BY <2>3 DEF Req
  <2>. QED BY <1>3, <2>4, <2>5, Effects
<1>. QED BY <1>4, <1>5, <1>6

LEMMA ServedOnTime ==
    ASSUME Shape, KnownOK, Few, HelperServes \/ HelperServesLate, used'["late"] = 0
    PROVE  orphans' = {} /\ ~stray'
<1>1. PICK r, resp : Serve(r, resp) BY DEF HelperServes, HelperServesLate
<1>2. used' = used \/ Spend("step") \/ Spend("undo")
  BY <1>1 DEF Serve, ServeUp, ServeFd, ServeCommit, ServeDown, ServeRestore, Undo
<1>3. SameLate BY <1>2, SpentLate DEF Bounded
<1>4. orphans = {} /\ ~stray BY <1>3 DEF SameLate, KnownOK, InTime
<1>. QED BY <1>4 DEF HelperServes, HelperServesLate, late

------------------------------------------------------------------------------
LEMMA StepKnown ==
    ASSUME Shape, RunOK, OwnOK, KnownOK, [Next]_vars, Shape' PROVE KnownOK'
<1>. SUFFICES ASSUME Few' PROVE (StaysOn /\ RoutesBelow /\ HelperKnows /\ InTime /\ Remembered)'
  BY DEF KnownOK
<1>1. Few /\ (LateNow => used["late"] = 0) BY FewBefore
<1>2. used["exit"] = 0 /\ used'["exit"] = 0 BY <1>1 DEF Few
<1>3. StaysOn BY <1>1 DEF KnownOK
<1>4. StaysOn' BY <1>2, <1>3, AppStays
<1>5. CASE HelperServes \/ HelperServesLate
  <2>1. PICK resp \in {"ok", "conflict", "error", "fd"}, r \in Request : ServesOne(r, resp)
    BY <1>5, ServesAre
  <2>2. RoutesBelow' /\ HelperKnows' /\ CommitNow' /\ NoSecondUp' /\ Remembered'
    BY <1>1, <2>1, ServedKeeps
  <2>3. InTime' BY <1>1, <1>5, <2>2, ServedInStep, ServedStray, ServedOnTime DEF InTime
  <2>. QED BY <1>4, <2>2, <2>3
<1>6. CASE Calm /\ Moves
  <2>1. (InStep \/ LeftBehind) /\ CommitNow BY <1>1 DEF KnownOK, InTime
  <2>2. RoutesBelow' /\ HelperKnows' BY <1>1, <1>6, MovesRoutes
  <2>3. (InStep \/ LeftBehind)'
    <3>1. CASE LeftBehind BY <1>6, <3>1, MovesLeft
    <3>2. CASE InStep
      <4>1. LeavesFd => used["late"] = 0 BY <1>1 DEF LeavesFd
      <4>. QED BY <1>1, <1>6, <3>2, <4>1, MovesInStep, LeavesBehind
    <3>. QED BY <2>1, <3>1, <3>2
  <2>4. used'["late"] = 0 => orphans' = {} /\ ~stray' BY <1>1, <1>6, MovesOnTime
  <2>5. CommitNow' BY <1>6, <2>1, MovesCommitNow
  <2>6. NoSecondUp' BY <1>1, <1>6, MovesNoSecondUp
  <2>7. stray' => NoCommitLost' /\ RaisedAlone' BY <1>1, <1>6, MovesStray
  <2>8. Remembered' BY <1>1, <1>6, MovesRemember
  <2>. QED BY <1>4, <2>2, <2>3, <2>4, <2>5, <2>6, <2>7, <2>8 DEF InTime
<1>. QED BY <1>2, <1>3, <1>5, <1>6, Moved

(* Whatever answer is late or misread, a tunnel that has taken over the    *)
(* traffic is never forgotten while the app runs: between commands the     *)
(* supervisor knows its id, or the request that ends it is on its way, as  *)
(* long as no rollback fails and one answer at most is late                *)
(* (CaptureIsKnown).                                                       *)
THEOREM CaptureRemembered == Spec => []CaptureIsKnown
<1>1. Init => RunOK BY DEF Init, RunOK, Known, Busy, Trying
<1>2. Shape /\ RunOK /\ [Next]_vars /\ Shape' => RunOK' BY StepRuns
<1>3. Init => OwnOK BY InitOwn
<1>4. Shape /\ RunOK /\ OwnOK /\ [Next]_vars => OwnOK' BY StepOwn
<1>5. Init => KnownOK
  <2>. SUFFICES ASSUME Init PROVE KnownOK OBVIOUS
  <2>1. /\ app = "on" /\ pc = "idle" /\ n = 0 /\ routes = None /\ session = None
        /\ Len(inbox) = 0 /\ Len(unread) = 0 /\ orphans = {} /\ ~stray
    BY DEF Init
  <2>2. StaysOn /\ RoutesBelow /\ HelperKnows
    BY <2>1 DEF StaysOn, RoutesBelow, HelperKnows, OwnPhase, None
  <2>3. InStep BY <2>1 DEF InStep, Empty, Waiting
  <2>4. Asks(inbox) = {} /\ Orphaned = {} BY <2>1 DEF Asks, Orphaned
  <2>5. InTime BY <2>1, <2>3, <2>4 DEF InTime, CommitNow, NoSecondUp
  <2>6. Remembered BY <2>1 DEF Remembered, Takes
  <2>. QED BY <2>2, <2>5, <2>6 DEF KnownOK
<1>6. Shape /\ RunOK /\ OwnOK /\ KnownOK /\ [Next]_vars /\ Shape' => KnownOK' BY StepKnown
<1>7. Shape /\ KnownOK => CaptureIsKnown
  <2>. SUFFICES ASSUME Shape, KnownOK, routes # None, used["undo"] = 0, used["exit"] = 0,
                       used["late"] < 2
                PROVE  sid = routes \/ OnItsWay(routes)
    BY DEF CaptureIsKnown
  <2>1. Few
    <3>1. used["late"] \in Nat BY DEF Shape, CoreOK, Bounded
    <3>. QED BY <3>1 DEF Few
  <2>2. session = routes BY <2>1 DEF KnownOK, HelperKnows
  <2>3. routes \in Id /\ Takes(routes) BY <2>2 DEF Shape, CoreOK, Takes
  <2>4. sid = routes \/ EndDue(routes) BY <2>1, <2>3 DEF KnownOK, Remembered
  <2>5. ASSUME NEW r \in Ends(routes), r \in OnWay PROVE OnItsWay(routes)
    <3>1. PICK q \in orphans \cup {inbox} : r \in Asks(q) BY <2>5 DEF OnWay, Orphaned
    <3>2. PICK i \in 1 .. Len(q) : q[i] = r BY <3>1 DEF Asks
    <3>3. q \in Seq(Request) BY DEF Shape, ConnOK
    <3>4. i \in DOMAIN q BY <3>2, <3>3
    <3>. QED BY <2>5, <3>2, <3>4 DEF OnItsWay
  <2>. QED BY <2>4, <2>5 DEF EndDue
<1>. QED BY <1>1, <1>2, <1>3, <1>4, <1>5, <1>6, <1>7, ShapeStays, PTL DEF Spec
------------------------------------------------------------------------------
(* How many steps a command has at most before it gives the locks back: so *)
(* many on this candidate, and a whole attempt for each that is left.      *)
Distance(p) ==
    CASE p = "idle" -> 0
      [] p = "exit" -> 1
      [] p \in {"undo", "stop"} -> 3
      [] p = "recheck" -> 4
      [] p = "commit"  -> 5
      [] p = "gate"    -> 6
      [] p = "ready"   -> 7
      [] p = "spawn"   -> 8
      [] p = "fd"      -> 9
      [] p = "up2"     -> 10
      [] p = "heal"    -> 11
      [] p = "up"      -> 12
      [] p = "attempt" -> 13
      [] OTHER         -> 2   \* "success" and the last answers

ToGo == Distance(pc) + (IF pc = "idle" THEN 0 ELSE 13 * tries)

Nearer == pc # "idle" => UNCHANGED <<pc, tries>> \/ ToGo' < ToGo

ComesToItsEnd == [][Nearer]_vars

Onward(p, q) == Distance(q) < Distance(p)

LEMMA WaysOn ==
    /\ Onward("attempt", "up") /\ Onward("attempt", "spawn")
    /\ Onward("up", "fd") /\ Onward("up2", "fd") /\ Onward("up", "heal") /\ Onward("heal", "up2")
    /\ Onward("fd", "spawn") /\ Onward("spawn", "ready")
    /\ Onward("ready", "gate") /\ Onward("ready", "success") /\ Onward("gate", "commit")
    /\ \A p \in {"ready", "gate", "recheck", "commit"} : Onward(p, "undo")
    /\ Onward("commit", "recheck") /\ Onward("recheck", "success")
    /\ Onward("undo", "undowait") /\ Onward("stop", "stopwait")
    /\ \A p \in {"success", "recheck", "undo", "stop", "attempt", "spawn", "ready", "gate"}
              \cup Waiting : Onward(p, "exit")
  BY DEF Onward, Distance, Waiting

LEMMA StepNearer ==
    ASSUME Shape, pc # "idle", pc' # "idle", UNCHANGED tries, Onward(pc, pc')
    PROVE  Nearer
<1>1. Distance(pc) \in Nat /\ Distance(pc') \in Nat /\ tries \in Nat
  BY Numbers DEF Distance
<1>2. 13 * tries \in Nat BY <1>1
<1>3. ToGo' < ToGo BY <1>1, <1>2 DEF ToGo, Onward
<1>. QED BY <1>3 DEF Nearer

LEMMA EndNearer ==
    ASSUME Shape, pc # "idle", pc' = "idle"
    PROVE  Nearer
<1>1. Distance(pc) \in Nat /\ tries \in Nat /\ Distance(pc') = 0 BY Numbers DEF Distance
<1>2. Distance(pc) > 0 BY DEF Distance
<1>3. 13 * tries \in Nat BY <1>1
<1>4. ToGo' < ToGo BY <1>1, <1>2, <1>3 DEF ToGo
<1>. QED BY <1>4 DEF Nearer

(* The next candidate, or none.                                            *)
LEMMA NextNearer ==
    ASSUME Shape, pc \in Trying, NextOrFail
    PROVE  Nearer
<1>1. CASE pc' = "idle"
  BY <1>1, EndNearer DEF Trying
<1>2. CASE tries > 1 /\ pc' = "attempt" /\ tries' = tries - 1
  <2>1. Distance(pc) \in Nat /\ tries \in Nat /\ Distance(pc') = 13
    BY <1>2, Numbers DEF Distance
  <2>2. Distance(pc) > 0 BY DEF Distance, Trying
  <2>3. 13 * (tries - 1) = 13 * tries - 13 /\ 13 * tries \in Nat BY <2>1
  <2>4. ToGo' < ToGo BY <1>2, <2>1, <2>2, <2>3 DEF ToGo, Trying
  <2>. QED BY <2>4 DEF Nearer
<1>. QED BY <1>1, <1>2 DEF NextOrFail

LEMMA SamePlace == ASSUME UNCHANGED <<pc, tries>> PROVE Nearer
  BY DEF Nearer

LEMMA AttemptNearer == ASSUME Shape, Attempting PROVE Nearer
<1>. USE DEF work, Trying
<1>1. CASE StartAttempt
  BY <1>1, StepNearer, WaysOn DEF StartAttempt
<1>2. CASE RefusedEarly \/ SpawnFails
  BY <1>2, NextNearer DEF RefusedEarly, SpawnFails
<1>3. CASE UpAnswered
  BY <1>3, StepNearer, NextNearer, WaysOn DEF UpAnswered
<1>4. CASE Healed
  BY <1>4, StepNearer, NextNearer, WaysOn DEF Healed
<1>5. CASE FdAnswered
  BY <1>5, StepNearer, NextNearer, WaysOn DEF FdAnswered
<1>6. CASE SpawnCore
  BY <1>6, StepNearer, WaysOn DEF SpawnCore
<1>7. CASE Ready
  BY <1>7, StepNearer, WaysOn DEF Ready
<1>8. CASE PassGate
  BY <1>8, StepNearer, WaysOn DEF PassGate
<1>9. CASE GiveUp
  BY <1>9, StepNearer, WaysOn DEF GiveUp
<1>10. CASE CommitAnswered
  BY <1>10, StepNearer, WaysOn DEF CommitAnswered
<1>11. CASE StillReachable
  BY <1>11, StepNearer, WaysOn DEF StillReachable
<1>12. CASE Started
  BY <1>12, EndNearer DEF Started
<1>. QED
  BY <1>1, <1>2, <1>3, <1>4, <1>5, <1>6, <1>7, <1>8, <1>9, <1>10, <1>11, <1>12, Attempting
     DEF Attempting

LEMMA EndingNearer == ASSUME Shape, Ending PROVE Nearer
<1>. USE DEF work
<1>1. CASE RollbackAsks
  BY <1>1, StepNearer, WaysOn DEF RollbackAsks
<1>2. CASE UndoEnds
  BY <1>2, NextNearer DEF UndoEnds, Trying
<1>3. CASE StopEnds
  <2>1. (pc = "stop" \/ pc = "stopwait") /\ pc' = "idle" BY <1>3, Zenon DEF StopEnds
  <2>. QED BY <2>1, EndNearer
<1>4. CASE RepairEnds
  BY <1>4, EndNearer DEF RepairEnds
<1>5. CASE LeaveAnswered
  BY <1>5, StepNearer, WaysOn DEF LeaveAnswered, Waiting
<1>6. CASE Exit
  BY <1>6, EndNearer DEF Exit
<1>. QED BY <1>1, <1>2, <1>3, <1>4, <1>5, <1>6, Ending DEF Ending

LEMMA LateNearer == ASSUME Shape, TimesOut PROVE Nearer
<1>. USE DEF work
<1>1. CASE pc \in {"fd", "up", "heal", "up2", "undowait"} /\ NextOrFail
  BY <1>1, NextNearer DEF Trying
<1>2. CASE pc = "commit" /\ pc' = "undo" /\ UNCHANGED work
  BY <1>2, StepNearer, WaysOn
<1>3. CASE pc \in {"stopwait", "repair", "boot"} /\ pc' = "idle"
  BY <1>3, EndNearer
<1>4. CASE pc = "leave" /\ pc' = "exit" /\ UNCHANGED work
  BY <1>4, StepNearer, WaysOn DEF Waiting
<1>. QED BY <1>1, <1>2, <1>3, <1>4, TimesOut DEF TimesOut

(* What the user starts, starts where nothing runs; quitting cuts a        *)
(* command short.                                                          *)
LEMMA UserNearer == ASSUME Shape, RunOK, User PROVE Nearer
<1>. USE DEF work
<1>1. CASE Quit \/ Crash
  <2>1. pc # "exit" /\ UNCHANGED tries /\ (pc = "idle" \/ pc' = "exit")
    BY <1>1 DEF Quit, Crash
  <2>2. pc \in {"idle", "success", "recheck", "undo", "stop", "attempt", "spawn", "ready", "gate"}
               \cup Waiting
    BY <2>1 DEF Shape, WorkOK
  <2>. QED BY <2>1, <2>2, StepNearer, WaysOn DEF Nearer
<1>2. CASE Launch
  BY <1>2 DEF Launch, RunOK, Nearer
<1>3. CASE Stop \/ Repair \/ \E m \in {"tun", "proxy"} : Begin(m)
  BY <1>3 DEF Stop, Repair, Begin, Nearer
<1>. QED BY <1>1, <1>2, <1>3, User DEF User

LEMMA StepsNearer == Shape /\ RunOK /\ [Next]_vars => [Nearer]_vars
<1>. SUFFICES ASSUME Shape, RunOK, Next PROVE Nearer OBVIOUS
<1>1. CASE Publish \/ HelperServes \/ HelperServesLate \/ \E p \in Attempt : CoreDies(p) \/ OutputEnds(p)
  BY <1>1, SamePlace DEF Publish, HelperServes, HelperServesLate, CoreDies, OutputEnds, work
<1>. QED BY <1>1, AttemptNearer, EndingNearer, LateNearer, UserNearer DEF Next

(* No command goes on for ever: every step that moves one, a late answer   *)
(* or the app's exit included, brings it nearer to giving the locks back,  *)
(* and neither the helper nor a dying core ever sets it back.  The retry   *)
(* after a conflict and the next candidate come a bounded number of times. *)
THEOREM CommandsRunOut == Spec => ComesToItsEnd
<1>1. Init => RunOK BY DEF Init, RunOK, Known, Busy, Trying
<1>2. Shape /\ RunOK /\ [Next]_vars /\ Shape' => RunOK' BY StepRuns
<1>3. Shape /\ RunOK /\ [Next]_vars => [Nearer]_vars BY StepsNearer
<1>. QED BY <1>1, <1>2, <1>3, ShapeStays, PTL DEF Spec, ComesToItsEnd

(* What a command waits for.                                               *)
Attended == pc \in Waiting => inbox # <<>> \/ unread # <<>>

LEMMA AsksAnew ==
    ASSUME Shape, NEW what, NEW id,
           inbox' = Append(inbox, Req(what, id)) \/ inbox' = <<Req(what, id)>>
    PROVE  Attended'
<1>. DEFINE R == Request \cup {Req(what, id)}
<1>1. inbox \in Seq(R)
  <2>1. inbox \in Seq(Request) /\ Request \subseteq R BY DEF Shape, ConnOK
  <2>. QED BY <2>1, SeqMonotonic
<1>2. Len(inbox') # 0
  <2>1. Req(what, id) \in R OBVIOUS
  <2>. HIDE DEF R
  <2>. QED BY <1>1, <2>1
<1>. QED BY <1>2 DEF Attended

LEMMA NotAsking == ASSUME pc' \notin Waiting PROVE Attended'
  BY DEF Attended

LEMMA NextAsksNothing == ASSUME NextOrFail PROVE Attended'
  BY DEF NextOrFail, Attended, Waiting

LEMMA StepDue == Shape /\ Attended /\ [Next]_vars => Attended'
<1>. SUFFICES ASSUME Shape, Attended, [Next]_vars PROVE Attended' OBVIOUS
<1>. USE DEF Send, DropAndSend
<1>1. CASE User
  <2>1. CASE Quit
    BY <2>1, AsksAnew, NotAsking DEF Quit, Waiting
  <2>2. CASE Crash
    BY <2>2, NotAsking DEF Crash, Waiting
  <2>3. CASE Launch
    BY <2>3, AsksAnew DEF Launch, conn, Attended
  <2>4. CASE Stop
    BY <2>4, NotAsking DEF Stop, Waiting
  <2>5. CASE Repair
    BY <2>5, AsksAnew DEF Repair
  <2>6. ASSUME NEW m \in {"tun", "proxy"}, Begin(m) PROVE Attended'
    BY <2>6 DEF Begin, conn, Attended, Waiting
  <2>. QED BY <1>1, <2>1, <2>2, <2>3, <2>4, <2>5, <2>6 DEF User
<1>2. CASE Attempting
  <2>1. CASE StartAttempt
    BY <2>1, AsksAnew, NotAsking DEF StartAttempt, Waiting
  <2>2. CASE RefusedEarly \/ SpawnFails
    BY <2>2, NextAsksNothing DEF RefusedEarly, SpawnFails
  <2>3. CASE UpAnswered
    BY <2>3, AsksAnew, NextAsksNothing DEF UpAnswered
  <2>4. CASE Healed
    BY <2>4, AsksAnew, NextAsksNothing DEF Healed
  <2>5. CASE FdAnswered
    BY <2>5, NextAsksNothing, NotAsking DEF FdAnswered, Waiting
  <2>6. CASE PassGate
    BY <2>6, AsksAnew DEF PassGate
  <2>7. CASE SpawnCore \/ Ready \/ GiveUp \/ CommitAnswered \/ StillReachable \/ Started
    BY <2>7, NotAsking DEF SpawnCore, Ready, GiveUp, CommitAnswered, StillReachable, Started, Waiting
  <2>. QED BY <1>2, <2>1, <2>2, <2>3, <2>4, <2>5, <2>6, <2>7 DEF Attempting
<1>3. CASE Ending
  <2>1. CASE RollbackAsks
    BY <2>1, AsksAnew DEF RollbackAsks
  <2>2. CASE UndoEnds
    BY <2>2, NextAsksNothing DEF UndoEnds
  <2>3. CASE RepairEnds \/ LeaveAnswered \/ Exit
    BY <2>3, NotAsking DEF RepairEnds, LeaveAnswered, Exit, Waiting
  <2>4. CASE StopEnds
    <3>1. pc' = "idle" BY <2>4, Zenon DEF StopEnds
    <3>. QED BY <3>1, NotAsking DEF Waiting
  <2>. QED BY <1>3, <2>1, <2>2, <2>3, <2>4 DEF Ending
<1>4. CASE TimesOut
  BY <1>4, NextAsksNothing, NotAsking DEF TimesOut, Waiting
<1>5. CASE HelperServes
  <2>1. PICK resp : unread' = unread \o Frames(resp, Head(inbox).id) /\ inbox # <<>>
    BY <1>5 DEF HelperServes
  <2>2. unread \in Seq(Response) BY DEF Shape, ConnOK
  <2>3. Len(Frames(resp, Head(inbox).id)) \in {1, 2} BY DEF Frames
  <2>4. Len(unread') # 0 BY <2>1, <2>2, <2>3 DEF Frames
  <2>. QED BY <2>4 DEF Attended
<1>6. CASE \/ Publish \/ HelperServesLate \/ UNCHANGED vars
           \/ \E p \in Attempt : CoreDies(p) \/ OutputEnds(p)
  BY <1>6 DEF Publish, HelperServesLate, CoreDies, OutputEnds, vars, conn, Attended
<1>. QED BY <1>1, <1>2, <1>3, <1>4, <1>5, <1>6 DEF Next

(* No command waits for an answer that nobody will send: whatever came     *)
(* before on the connection, dropped streams and misread descriptors       *)
(* included, a request is still before the helper or an answer to read.    *)
THEOREM AnswersAreDue == Spec => []Attended
<1>1. Init => Attended BY DEF Init, Attended, Waiting
<1>2. Shape /\ Attended /\ [Next]_vars => Attended' BY StepDue
<1>. QED BY <1>1, <1>2, ShapeStays, PTL DEF Spec

==============================================================================
