------------------------- MODULE HelperServer_proofs -------------------------
(***************************************************************************)
(* For any number of connections and sessions: the handlers that roll back *)
(* or commit hold the state lock while they do, the session in memory      *)
(* always has its descriptor, and the file follows it while handlers do    *)
(* not overlap; every handler comes nearer its answer with every step, and *)
(* whoever holds the lock is not waiting for it.                           *)
(***************************************************************************)
EXTENDS HelperServer, TLAPS

Raising(t)  == op[t] \in {"prepare", "up"}
Installing  == {"bypass", "defer", "captures", "backup", "setdns", "markup", "publish"}
Rolling     == {"rbdns", "rbroutes", "rbverify", "rbclear"}

(* Which handlers can be at which program point, and with a snapshot.      *)
Places ==
    \A t \in Thread :
        /\ pc[t] \in {"idle", "gone"} <=> op[t] = "none"
        /\ op[t] = "term" <=> t = Signal /\ op[t] # "none"
        /\ pc[t] \in {"create", "bypass", "defer", "publish"} => Raising(t)
        /\ pc[t] \in {"captures", "backup", "setdns", "markup"} => op[t] \in {"up", "commit"}
        /\ pc[t] = "force" => op[t] \in {"restore", "uninstall", "term"}
        /\ pc[t] \in Installing \cup Rolling => rec[t] # None
        /\ t = Signal => pc[t] # "wait"
        /\ Raising(t) => arg[t] # None
        /\ op[t] = "shutdown" => pc[t] = "wait"
        /\ alive # "running" => pc[t] = "gone"

(* Every tunnel that is being raised has an id of its own; from its        *)
(* creation to its answer the helper holds its descriptor.                 *)
OwnId ==
    /\ session # None => session.id \in issued /\ session.id \in fd
    /\ \A t \in Conn : Raising(t) =>
          /\ arg[t] \in issued
          /\ session # None => session.id # arg[t]
          /\ \A u \in Conn \ {t} : Raising(u) => arg[u] # arg[t]
          /\ pc[t] \notin {"wait", "create"} =>
                rec[t] # None /\ rec[t].id = arg[t] /\ arg[t] \in fd

(* Who holds the lock, and what it works on.                               *)
Locking ==
    /\ LockedAlone
    /\ lock # None =>
          /\ Active(lock) /\ pc[lock] # "force"
          /\ op[lock] \in {"commit", "down", "restore", "uninstall"}
          /\ rec[lock] # None /\ rec[lock].id \in issued
          /\ \A u \in Conn : Raising(u) => arg[u] # rec[lock].id
          /\ IF op[lock] = "commit" /\ pc[lock] \in Installing
             THEN session # None /\ session.id = rec[lock].id
             ELSE session = None

IInv == TypeOK /\ Places /\ OwnId /\ Locking

(* The helper starts with nobody at work and no session.                   *)
LEMMA InitInv == Init => IInv
<1> SUFFICES ASSUME Init PROVE IInv
  OBVIOUS
<1> USE DEF Init, Thread
<1>1. TypeOK
  BY DEF TypeOK
<1>2. Places
  BY DEF Places, Raising, Installing, Rolling
<1>3. OwnId /\ Locking
  BY DEF OwnId, Locking, LockedAlone, Raising
<1> QED BY <1>1, <1>2, <1>3 DEF IInv

------------------------------------------------------------------------------
(* Requests: an id that nobody has used yet comes in with every TunUp.     *)
LEMMA ReceiveInv ==
  ASSUME IInv, NEW t \in Conn, NEW what, NEW id,
       what \in {"prepare", "up", "commit", "down", "restore", "uninstall", "shutdown"},
       id \in Session \cup {None},
       Receive(t, what, id)
  PROVE  IInv'
<1> USE DEF Thread, Goto, net, Receive
<1>1. TypeOK'
  BY DEF IInv, TypeOK
<1>2. Places'
  BY NamesAssumption DEF IInv, TypeOK, Places, Installing, Rolling, Raising
<1>3. OwnId'
  BY NamesAssumption DEF IInv, TypeOK, OwnId, Raising
<1>4. Locking'
  BY DEF IInv, TypeOK, Locking, LockedAlone, Raising, Active
<1> QED BY <1>1, <1>2, <1>3, <1>4 DEF IInv

LEMMA RefuseInv ==
  ASSUME IInv, NEW t \in Conn, Refuse(t)
  PROVE  IInv'
<1> USE DEF Thread, net, bounds, Refuse, Answer
<1>1. TypeOK'
  BY DEF IInv, TypeOK
<1>2. Places'
  BY DEF IInv, TypeOK, Places, Installing, Rolling, Raising
<1>3. OwnId'
  BY DEF IInv, TypeOK, OwnId, Raising
<1>4. Locking'
  BY DEF IInv, Locking, LockedAlone, Active
<1> QED BY <1>1, <1>2, <1>3, <1>4 DEF IInv

------------------------------------------------------------------------------
(* bring_up works beside the lock: its id and its descriptor are its own.  *)
LEMMA UpCheckInv ==
  ASSUME IInv, NEW t \in Conn, UpCheck(t)
  PROVE  IInv'
<1> USE DEF Goto, net, bounds, UpCheck, Enter
<1>1. TypeOK'
  BY DEF IInv, TypeOK
<1>2. Places'
  BY DEF IInv, Places, Installing, Rolling, Raising
<1>3. OwnId'
  BY DEF IInv, OwnId, Raising
<1>4. Locking'
  BY DEF IInv, Locking, LockedAlone, Active
<1> QED BY <1>1, <1>2, <1>3, <1>4 DEF IInv

LEMMA UpCreateInv ==
  ASSUME IInv, NEW t \in Conn, UpCreate(t)
  PROVE  IInv'
<1> USE DEF Thread, Goto, bounds, UpCreate, Fresh
<1>1. TypeOK'
  BY DEF IInv, TypeOK, Places, Rec
<1>2. Places'
  BY NoneAssumption DEF IInv, TypeOK, Places, Raising, Rec
<1>3. OwnId'
  BY NoneAssumption DEF IInv, TypeOK, OwnId, Raising, Rec
<1>4. Locking'
  BY DEF IInv, Places, Locking, LockedAlone, Raising, Active
<1> QED BY <1>1, <1>2, <1>3, <1>4 DEF IInv

LEMMA UpBypassInv ==
  ASSUME IInv, NEW t \in Conn, UpBypass(t)
  PROVE  IInv'
<1> USE DEF Thread, Goto, bounds, UpBypass, Save
<1>1. TypeOK'
  BY DEF IInv, TypeOK, Places, Installing, Rec
<1>2. Places'
  BY NoneAssumption DEF IInv, TypeOK, Places, Installing, Raising, Rec
<1>3. OwnId'
  BY NoneAssumption DEF IInv, TypeOK, OwnId, Raising, Rec
<1>4. Locking'
  BY DEF IInv, Places, Locking, LockedAlone, Raising, Active
<1> QED BY <1>1, <1>2, <1>3, <1>4 DEF IInv

LEMMA UpDeferInv ==
  ASSUME IInv, NEW t \in Conn, UpDefer(t)
  PROVE  IInv'
<1> USE DEF Thread, Goto, bounds, UpDefer, Save
<1>1. TypeOK'
  BY DEF IInv, TypeOK, Places, Installing, Rec
<1>2. Places'
  BY NoneAssumption DEF IInv, TypeOK, Places, Installing, Raising, Rec
<1>3. OwnId'
  BY NoneAssumption DEF IInv, TypeOK, OwnId, Raising, Rec
<1>4. Locking'
  BY DEF IInv, Places, Locking, LockedAlone, Raising, Active
<1> QED BY <1>1, <1>2, <1>3, <1>4 DEF IInv

LEMMA UpSavedInv ==
  ASSUME IInv, NEW t \in Conn, UpSaved(t)
  PROVE  IInv'
<1> USE DEF Thread, Goto, bounds, UpSaved, Save
<1>1. TypeOK'
  BY DEF IInv, TypeOK
<1>2. Places'
  BY DEF IInv, Places, Installing, Raising
<1>3. OwnId'
  BY DEF IInv, OwnId, Raising
<1>4. Locking'
  BY DEF IInv, Locking, LockedAlone, Raising, Active
<1> QED BY <1>1, <1>2, <1>3, <1>4 DEF IInv

LEMMA UpSaveFailsInv ==
  ASSUME IInv, NEW t \in Conn, UpSaveFails(t)
  PROVE  IInv'
<1> USE DEF Thread, UpSaveFails, Fault, Close, Answer
<1>1. TypeOK'
  BY DEF IInv, TypeOK
<1>2. Places'
  BY DEF IInv, TypeOK, Places, OwnId, Installing, Rolling, Raising
<1>3. OwnId'
  BY DEF IInv, TypeOK, OwnId, Raising
<1>4. Locking'
  BY DEF IInv, TypeOK, Locking, LockedAlone, Raising, Active
<1> QED BY <1>1, <1>2, <1>3, <1>4 DEF IInv

LEMMA UpPublishInv ==
  ASSUME IInv, NEW t \in Conn, UpPublish(t)
  PROVE  IInv'
<1> USE DEF Thread, net, bounds, UpPublish, Answer
<1>1. TypeOK'
  BY NamesAssumption DEF IInv, TypeOK
<1>2. Places'
  BY NamesAssumption, LimitsAssumption
     DEF IInv, TypeOK, Places, Installing, Rolling, Raising
<1>3. OwnId'
  BY DEF IInv, TypeOK, Places, OwnId, Raising
<1>4. Locking'
  BY DEF IInv, Locking, LockedAlone, Active
<1> QED BY <1>1, <1>2, <1>3, <1>4 DEF IInv

------------------------------------------------------------------------------
(* commit_routes takes the lock on a session that stays in memory.         *)
LEMMA CommitCheckInv ==
  ASSUME IInv, NEW t \in Conn, CommitCheck(t)
  PROVE  IInv'
<1> USE DEF Thread, Goto, net, bounds, CommitCheck, Applies, Names, Enter
<1>1. TypeOK'
  BY DEF IInv, TypeOK
<1>2. Places'
  BY DEF IInv, TypeOK, Places, Raising
<1>3. OwnId'
  BY DEF IInv, OwnId, Raising
<1>4. Locking'
  BY NamesAssumption
     DEF IInv, TypeOK, OwnId, Locking, LockedAlone, Installing, Raising, Active
<1> QED BY <1>1, <1>2, <1>3, <1>4 DEF IInv

LEMMA CapturesInv ==
  ASSUME IInv, NEW t \in Conn, Captures(t)
  PROVE  IInv'
<1> DEFINE s == [rec[t] EXCEPT !.captures = "installed", !.taken = capture]
<1>1. /\ pc[t] = "captures" /\ op[t] \in {"up", "commit"} /\ rec[t] \in Rec
      /\ capture \in Session \cup {None}
  BY NoneAssumption DEF IInv, TypeOK, Places, Captures, Installing, Thread
<1>2. s \in Rec /\ s.id = rec[t].id /\ s # None
  BY <1>1, NoneAssumption DEF Rec
<1>3. Save(t, s, "backup") /\ capture' = rec[t].id /\ UNCHANGED <<bypass, resolver>>
  BY DEF Captures
<1> HIDE DEF s
<1> USE DEF Thread, Goto, net, local, bounds, Save
<1>4. TypeOK'
  BY <1>1, <1>2, <1>3, NamesAssumption DEF IInv, TypeOK, Rec
<1>5. Places'
  BY <1>1, <1>2, <1>3, NamesAssumption DEF IInv, TypeOK, Places, Installing, Rolling, Raising
<1>6. OwnId'
  BY <1>1, <1>2, <1>3, NamesAssumption DEF IInv, TypeOK, Places, OwnId, Raising, Installing
<1>7. Locking'
  BY <1>1, <1>2, <1>3, NamesAssumption
     DEF IInv, TypeOK, Places, OwnId, Locking, LockedAlone, Installing, Raising, Active
<1> QED BY <1>4, <1>5, <1>6, <1>7 DEF IInv

LEMMA BackupInv ==
  ASSUME IInv, NEW t \in Conn, Backup(t)
  PROVE  IInv'
<1> USE DEF Thread, Goto, bounds, Backup, Save
<1>1. TypeOK'
  BY DEF IInv, TypeOK, Places, Installing, Rec
<1>2. Places'
  BY NoneAssumption DEF IInv, TypeOK, Places, Installing, Raising, Rec
<1>3. OwnId'
  BY NoneAssumption DEF IInv, TypeOK, OwnId, Raising, Rec
<1>4. Locking'
  BY NoneAssumption
     DEF IInv, TypeOK, Locking, LockedAlone, Installing, Raising, Active, Rec
<1> QED BY <1>1, <1>2, <1>3, <1>4 DEF IInv

LEMMA SetDnsInv ==
  ASSUME IInv, NEW t \in Conn, SetDns(t)
  PROVE  IInv'
<1> USE DEF Goto, bounds, SetDns
<1>1. TypeOK'
  BY DEF IInv, TypeOK
<1>2. Places'
  BY DEF IInv, Places, Installing, Raising
<1>3. OwnId'
  BY DEF IInv, OwnId, Raising
<1>4. Locking'
  BY DEF IInv, Locking, LockedAlone, Installing, Raising, Active
<1> QED BY <1>1, <1>2, <1>3, <1>4 DEF IInv

LEMMA CommitDoneInv ==
  ASSUME IInv, NEW t \in Conn, CommitDone(t)
  PROVE  IInv'
<1> USE DEF Thread, net, local, bounds, CommitDone, Answer
<1>1. TypeOK'
  BY NamesAssumption DEF IInv, TypeOK, Places
<1>2. Places'
  BY NamesAssumption DEF IInv, TypeOK, Places, Installing, Rolling, Raising
<1>3. /\ lock = t /\ rec[t] \in Rec
      /\ session # None /\ session.id = rec[t].id
      /\ \A u \in Conn : Raising(u) => arg[u] # rec[t].id
  BY NamesAssumption
     DEF IInv, TypeOK, Locking, LockedAlone, Active, Installing
<1>4. \A u \in Conn : Raising(u)' => Raising(u) /\ u # t /\ arg'[u] = arg[u]
                                   /\ pc'[u] = pc[u] /\ rec'[u] = rec[u]
  BY DEF IInv, TypeOK, Raising
<1>5. OwnId'
  <2>1. session' # None => session'.id \in issued' /\ session'.id \in fd'
    BY <1>3 DEF IInv, OwnId
  <2>2. ASSUME NEW u \in Conn, Raising(u)'
        PROVE  /\ arg'[u] \in issued'
               /\ session' # None => session'.id # arg'[u]
               /\ \A v \in Conn \ {u} : Raising(v)' => arg'[v] # arg'[u]
               /\ pc'[u] \notin {"wait", "create"} =>
                     rec'[u] # None /\ rec'[u].id = arg'[u] /\ arg'[u] \in fd'
    BY <2>2, <1>3, <1>4 DEF IInv, OwnId
  <2> QED BY <2>1, <2>2 DEF OwnId, Raising
<1>6. Locking'
  BY <1>3, NamesAssumption DEF IInv, TypeOK, Locking, LockedAlone, Active
<1> QED BY <1>1, <1>2, <1>5, <1>6 DEF IInv

LEMMA StepFailsInv ==
  ASSUME IInv, NEW t \in Conn, StepFails(t)
  PROVE  IInv'
<1> USE DEF Thread, Goto, net, StepFails, Rollback, Fault
<1>1. TypeOK'
  BY DEF IInv, TypeOK
<1>2. Places'
  BY DEF IInv, Places, Installing, Raising
<1>3. OwnId'
  BY DEF IInv, OwnId, Raising
<1>4. Locking'
  BY NamesAssumption DEF IInv, TypeOK, Locking, LockedAlone, Installing, Raising, Active
<1> QED BY <1>1, <1>2, <1>3, <1>4 DEF IInv

------------------------------------------------------------------------------
(* A tear-down takes the session out of memory before it lets go of it.    *)
LEMMA TearDownInv ==
  ASSUME IInv, NEW t \in Conn, TearDown(t)
  PROVE  IInv'
<1> USE DEF Thread, Goto, net, bounds, TearDown, Applies, Names, Rollback, Enter
<1>1. TypeOK'
  BY DEF IInv, TypeOK
<1>2. Places'
  BY DEF IInv, TypeOK, Places, Raising
<1>3. OwnId'
  BY DEF IInv, OwnId, Raising
<1>4. Locking'
  BY NamesAssumption DEF IInv, TypeOK, OwnId, Locking, LockedAlone, Raising, Active
<1> QED BY <1>1, <1>2, <1>3, <1>4 DEF IInv

LEMMA NothingLiveInv ==
  ASSUME IInv, NEW t \in Conn, NothingLive(t)
  PROVE  IInv'
<1> USE DEF Goto, net, bounds, NothingLive, Enter
<1>1. TypeOK'
  BY DEF IInv, TypeOK
<1>2. Places'
  BY DEF IInv, Places, Installing, Rolling, Raising
<1>3. OwnId'
  BY DEF IInv, OwnId, Raising
<1>4. Locking'
  BY DEF IInv, Locking, LockedAlone, Active
<1> QED BY <1>1, <1>2, <1>3, <1>4 DEF IInv

------------------------------------------------------------------------------
(* Returning from a rollback: only descriptors of sessions that are no     *)
(* longer in memory are closed.                                            *)
LEMMA EndUpInv ==
  ASSUME IInv, NEW t \in Conn, EndUp(t)
  PROVE  IInv'
<1> USE DEF Thread, bounds, EndUp, Close, Answer
<1>1. TypeOK'
  BY DEF IInv, TypeOK
<1>2. Places'
  BY DEF IInv, TypeOK, Places, OwnId, Installing, Rolling, Raising, Rec
<1>3. OwnId'
  BY DEF IInv, TypeOK, OwnId, Raising
<1>4. Locking'
  BY DEF IInv, TypeOK, Locking, LockedAlone, Raising, Active
<1> QED BY <1>1, <1>2, <1>3, <1>4 DEF IInv

LEMMA EndCommitInv ==
  ASSUME IInv, NEW t \in Conn, EndCommit(t)
  PROVE  IInv'
<1> USE DEF Thread, net, bounds, EndCommit, Answer
<1>1. TypeOK'
  BY DEF IInv, TypeOK
<1>2. Places'
  BY DEF IInv, TypeOK, Places, Installing, Rolling, Raising
<1>3. OwnId'
  BY NamesAssumption, NoneAssumption DEF IInv, OwnId, Raising
<1>4. Locking'
  BY DEF IInv, TypeOK, Locking, LockedAlone, Active
<1> QED BY <1>1, <1>2, <1>3, <1>4 DEF IInv

LEMMA EndDownInv ==
  ASSUME IInv, NEW t \in Conn, EndDown(t)
  PROVE  IInv'
<1> USE DEF Thread, net, local, bounds, EndDown, Close, Answer
<1>1. TypeOK'
  BY NamesAssumption DEF IInv, TypeOK, Places
<1>2. Places'
  BY NamesAssumption DEF IInv, TypeOK, Places, Installing, Rolling, Raising
<1>3. /\ lock = t /\ session = None
      /\ \A u \in Conn : Raising(u) => arg[u] # rec[t].id
  BY NamesAssumption
     DEF IInv, TypeOK, Locking, LockedAlone, Active, Installing
<1>4. \A u \in Conn : Raising(u)' => Raising(u) /\ u # t /\ arg'[u] = arg[u]
                                   /\ pc'[u] = pc[u] /\ rec'[u] = rec[u]
  BY DEF IInv, TypeOK, Raising
<1>5. OwnId'
  <2>1. ASSUME NEW u \in Conn, Raising(u)'
        PROVE  /\ arg'[u] \in issued'
               /\ \A v \in Conn \ {u} : Raising(v)' => arg'[v] # arg'[u]
               /\ pc'[u] \notin {"wait", "create"} =>
                     rec'[u] # None /\ rec'[u].id = arg'[u] /\ arg'[u] \in fd'
    BY <2>1, <1>3, <1>4 DEF IInv, OwnId
  <2> QED BY <2>1, <1>3 DEF OwnId, Raising
<1>6. Locking'
  BY <1>3, NamesAssumption DEF IInv, TypeOK, Locking, LockedAlone, Active
<1> QED BY <1>1, <1>2, <1>5, <1>6 DEF IInv

LEMMA EndTearDownInv ==
  ASSUME IInv, NEW t \in Conn, EndTearDown(t)
  PROVE  IInv'
<1> USE DEF Goto, bounds, EndTearDown, Close, Enter
<1>1. TypeOK'
  BY DEF IInv, TypeOK
<1>2. Places'
  BY DEF IInv, Places, Installing, Rolling, Raising
<1>3. OwnId'
  BY NamesAssumption DEF IInv, OwnId, Locking, Raising
<1>4. Locking'
  BY DEF IInv, Locking, LockedAlone, Active
<1> QED BY <1>1, <1>2, <1>3, <1>4 DEF IInv

LEMMA EndRestoreInv ==
  ASSUME IInv, NEW t \in Conn, EndRestore(t)
  PROVE  IInv'
<1> USE DEF Thread, net, bounds, EndRestore, Answer
<1>1. TypeOK'
  BY DEF IInv, TypeOK
<1>2. Places'
  BY NamesAssumption, NoneAssumption
     DEF IInv, TypeOK, Places, OwnId, Installing, Rolling, Raising
<1>3. OwnId'
  BY NoneAssumption DEF IInv, OwnId, Raising
<1>4. Locking'
  BY DEF IInv, Locking, LockedAlone, Raising, Active
<1> QED BY <1>1, <1>2, <1>3, <1>4 DEF IInv

------------------------------------------------------------------------------
(* rollback itself touches neither the lock nor a descriptor.              *)
LEMMA ForceCleanupInv ==
  ASSUME IInv, NEW t \in Thread, ForceCleanup(t)
  PROVE  IInv'
<1> USE DEF Goto, net, bounds, ForceCleanup, Rollback
<1>1. TypeOK'
  BY DEF IInv, TypeOK
<1>2. Places'
  BY DEF IInv, TypeOK, Places, Installing, Rolling, Raising
<1>3. OwnId'
  BY DEF IInv, Places, OwnId, Raising
<1>4. Locking'
  BY DEF IInv, Locking, LockedAlone, Raising, Active
<1> QED BY <1>1, <1>2, <1>3, <1>4 DEF IInv

LEMMA RbDnsInv ==
  ASSUME IInv, NEW t \in Thread, RbDns(t)
  PROVE  IInv'
<1> USE DEF Thread, Goto, net, local, bounds, RbDns, RbStep, RbFails, Fault
<1>1. TypeOK'
  <2>1. rec[t] \in Rec
    BY DEF IInv, TypeOK, Places, Rolling
  <2>2. resolver' \in {"user", "dhcp", "sentinel"}
    BY <2>1 DEF IInv, TypeOK, Rec
  <2>3. clean' \in [Thread -> BOOLEAN] /\ bypass' \in BOOLEAN
    BY Zenon DEF IInv, TypeOK
  <2>4. pc' \in [Thread -> {"idle", "wait", "gone", "create", "bypass", "defer",
                          "captures", "backup", "setdns", "markup", "publish", "force",
                          "rbdns", "rbroutes", "rbverify", "rbclear", "end"}]
    BY DEF IInv, TypeOK
  <2>5. faults' \in Nat /\ overlapped' \in BOOLEAN /\ dropped' \in BOOLEAN
    BY DEF IInv, TypeOK
  <2> QED BY <2>2, <2>3, <2>4, <2>5 DEF IInv, TypeOK
<1>2. Places'
  BY NamesAssumption DEF IInv, TypeOK, Places, Installing, Rolling, Raising
<1>3. OwnId'
  BY NamesAssumption DEF IInv, TypeOK, Places, OwnId, Raising
<1>4. Locking'
  BY NamesAssumption
     DEF IInv, TypeOK, Places, OwnId, Locking, LockedAlone, Installing, Rolling, Raising, Active
<1> QED BY <1>1, <1>2, <1>3, <1>4 DEF IInv

LEMMA RbRoutesInv ==
  ASSUME IInv, NEW t \in Thread, RbRoutes(t)
  PROVE  IInv'
<1> USE DEF Thread, Goto, net, local, bounds, RbRoutes, RbStep, RbFails, Fault
<1>1. TypeOK'
  <2>1. rec[t] \in Rec
    BY DEF IInv, TypeOK, Places, Rolling
  <2>2. capture' \in Session \cup {None}
    BY <2>1 DEF IInv, TypeOK, Rec
  <2>3. bypass' \in BOOLEAN
    BY Zenon DEF IInv, TypeOK
  <2>4. clean' \in [Thread -> BOOLEAN]
    BY Zenon DEF IInv, TypeOK
  <2>5. pc' \in [Thread -> {"idle", "wait", "gone", "create", "bypass", "defer",
                          "captures", "backup", "setdns", "markup", "publish", "force",
                          "rbdns", "rbroutes", "rbverify", "rbclear", "end"}]
    BY DEF IInv, TypeOK
  <2>6. faults' \in Nat /\ overlapped' \in BOOLEAN /\ dropped' \in BOOLEAN
    BY DEF IInv, TypeOK
  <2> QED BY <2>2, <2>3, <2>4, <2>5, <2>6 DEF IInv, TypeOK
<1>2. Places'
  BY NamesAssumption DEF IInv, TypeOK, Places, Installing, Rolling, Raising
<1>3. OwnId'
  BY NamesAssumption DEF IInv, TypeOK, Places, OwnId, Raising
<1>4. Locking'
  BY NamesAssumption
     DEF IInv, TypeOK, Places, OwnId, Locking, LockedAlone, Installing, Rolling, Raising, Active
<1> QED BY <1>1, <1>2, <1>3, <1>4 DEF IInv

LEMMA RbVerifyInv ==
  ASSUME IInv, NEW t \in Thread, RbVerify(t)
  PROVE  IInv'
<1> USE DEF Goto, RbVerify, RbStep
<1>1. TypeOK'
  BY DEF IInv, TypeOK, Places, Rolling, Rec
<1>2. Places'
  BY DEF IInv, Places, Rolling, Raising
<1>3. OwnId'
  BY DEF IInv, OwnId, Raising
<1>4. Locking'
  BY DEF IInv, Locking, LockedAlone, Installing, Raising, Active
<1> QED BY <1>1, <1>2, <1>3, <1>4 DEF IInv

LEMMA RbClearInv ==
  ASSUME IInv, NEW t \in Thread, RbClear(t)
  PROVE  IInv'
<1> USE DEF Goto, RbClear, RbStep
<1>1. TypeOK'
  BY DEF IInv, TypeOK
<1>2. Places'
  BY NamesAssumption DEF IInv, Places, Rolling, Raising
<1>3. OwnId'
  BY DEF IInv, OwnId, Raising
<1>4. Locking'
  BY DEF IInv, Locking, LockedAlone, Installing, Raising, Active
<1> QED BY <1>1, <1>2, <1>3, <1>4 DEF IInv

------------------------------------------------------------------------------
(* The ends of the process and its restart                                 *)
LEMMA SigtermInv ==
  ASSUME IInv, Sigterm
  PROVE  IInv'
<1> USE DEF Thread, Goto, net, Sigterm, Enter
<1>1. TypeOK'
  BY DEF IInv, TypeOK
<1>2. Places'
  BY DEF IInv, TypeOK, Places, Installing, Rolling, Raising
<1>3. OwnId'
  BY DEF IInv, OwnId, Raising
<1>4. Locking'
  BY DEF IInv, Places, Locking, LockedAlone, Raising, Active
<1> QED BY <1>1, <1>2, <1>3, <1>4 DEF IInv

LEMMA BootInv ==
  ASSUME IInv, Boot
  PROVE  IInv'
<1> USE DEF Thread, net, local, bounds, Boot
<1>1. /\ \A t \in Thread : pc[t] = "gone" /\ op[t] = "none" /\ pc'[t] = "idle"
      /\ lock = None /\ lock' = None
  BY NamesAssumption DEF IInv, TypeOK, Places, Locking, Active
<1>2. TypeOK'
  <2>1. bypass' \in BOOLEAN
    BY Zenon DEF IInv, TypeOK
  <2>2. resolver' \in {"user", "dhcp", "sentinel"}
    BY DEF IInv, TypeOK, Rec
  <2>3. file' \in Rec \cup {None}
    BY DEF IInv, TypeOK
  <2>4. pc' \in [Thread -> {"idle", "wait", "gone", "create", "bypass", "defer",
                          "captures", "backup", "setdns", "markup", "publish", "force",
                          "rbdns", "rbroutes", "rbverify", "rbclear", "end"}]
    OBVIOUS
  <2> QED BY <2>1, <2>2, <2>3, <2>4 DEF IInv, TypeOK
<1>3. Places'
  BY <1>1 DEF IInv, Places, Raising, Installing, Rolling
<1>4. OwnId'
  BY <1>1 DEF IInv, OwnId, Raising
<1>5. Locking'
  BY <1>1 DEF Locking, LockedAlone, Active
<1> QED BY <1>2, <1>3, <1>4, <1>5 DEF IInv

LEMMA ExitInv ==
  ASSUME IInv, NEW state \in {"down", "removed"}, Exit(state)
  PROVE  IInv'
<1> USE DEF Thread, bounds, Exit, Close
<1>1. TypeOK'
  BY DEF IInv, TypeOK
<1>2. Places'
  BY DEF Places, Installing, Rolling, Raising
<1>3. OwnId' /\ Locking'
  BY DEF OwnId, Locking, LockedAlone, Raising
<1> QED BY <1>1, <1>2, <1>3 DEF IInv

------------------------------------------------------------------------------
(* Every step keeps the invariant.                                         *)
LEMMA StutterInv ==
  ASSUME IInv, UNCHANGED vars
  PROVE  IInv'
<1> USE DEF vars, net, local, bounds
<1>1. TypeOK'
  BY DEF IInv, TypeOK
<1>2. Places'
  BY DEF IInv, Places, Raising, Installing, Rolling
<1>3. OwnId'
  BY DEF IInv, OwnId, Raising
<1>4. Locking'
  BY DEF IInv, Locking, LockedAlone, Active, Raising, Installing
<1> QED BY <1>1, <1>2, <1>3, <1>4 DEF IInv

LEMMA HandleInv ==
  ASSUME IInv, NEW t \in Conn, Handle(t)
  PROVE  IInv'
<1>1. CASE Refuse(t)
  BY <1>1, RefuseInv
<1>2. CASE BringUp(t)
  BY <1>2, UpCheckInv, UpCreateInv, UpBypassInv, UpDeferInv, UpSavedInv, UpSaveFailsInv,
     UpPublishInv DEF BringUp
<1>3. CASE Commit(t)
  BY <1>3, CommitCheckInv, CapturesInv, BackupInv, SetDnsInv, CommitDoneInv, StepFailsInv
     DEF Commit
<1>4. CASE TearDown(t) \/ NothingLive(t)
  BY <1>4, TearDownInv, NothingLiveInv
<1>5. CASE Undo(t)
  BY <1>5, ForceCleanupInv, RbDnsInv, RbRoutesInv, RbVerifyInv, RbClearInv DEF Undo, Thread
<1>6. CASE Finish(t)
  BY <1>6, EndUpInv, EndCommitInv, EndDownInv, EndTearDownInv, EndRestoreInv, ExitInv
     DEF Finish, EndUninstall
<1>7. CASE Shutdown(t)
  BY <1>7, ExitInv DEF Shutdown
<1> QED BY <1>1, <1>2, <1>3, <1>4, <1>5, <1>6, <1>7 DEF Handle

LEMMA NextInv == IInv /\ [Next]_vars => IInv'
<1> SUFFICES ASSUME IInv, [Next]_vars PROVE IInv'
  OBVIOUS
<1>1. CASE Arrive
  BY <1>1, ReceiveInv DEF Arrive
<1>2. CASE Sigterm
  BY <1>2, SigtermInv
<1>3. CASE EndTerm
  BY <1>3, ExitInv DEF EndTerm
<1>4. CASE Boot
  BY <1>4, BootInv
<1>5. CASE Undo(Signal)
  BY <1>5, ForceCleanupInv, RbDnsInv, RbRoutesInv, RbVerifyInv, RbClearInv DEF Undo, Thread
<1>6. CASE \E t \in Conn : Handle(t)
  BY <1>6, HandleInv
<1>7. CASE UNCHANGED vars
  BY <1>7, StutterInv
<1> QED BY <1>1, <1>2, <1>3, <1>4, <1>5, <1>6, <1>7 DEF Next

LEMMA AlwaysIInv == Spec => []IInv
  BY InitInv, NextInv, PTL DEF Spec

(* Whatever requests, signals, failed commands and restarts do, every      *)
(* variable of the helper stays in its range.                              *)
THEOREM ServerTypeCorrect == Spec => []TypeOK
<1>1. IInv => TypeOK
  BY DEF IInv
<1> QED BY <1>1, AlwaysIInv, PTL

(* commit_routes and tun_down hold the state lock from their check to      *)
(* their answer, so that no two of them, and none of them with the first   *)
(* half of Restore, ever change routes and resolvers side by side.         *)
THEOREM LockExcludes == Spec => []LockedAlone
<1>1. IInv => LockedAlone
  BY DEF IInv, Locking
<1> QED BY <1>1, AlwaysIInv, PTL

(* The session in memory always has its utun descriptor: whenever          *)
(* take_tun_fd looks, tun_down, Restore or a failed bring_up has not       *)
(* closed the one it finds.                                                *)
THEOREM SessionKeepsTunnel == Spec => []SessionHasTunnel
<1>1. IInv => SessionHasTunnel
  BY DEF IInv, OwnId, SessionHasTunnel
<1> QED BY <1>1, AlwaysIInv, PTL

------------------------------------------------------------------------------
(* What holds as long as handlers do not overlap: one of them works at a   *)
(* time; while it raises a tunnel, or takes one down, there is no session  *)
(* in memory; what it works on is in the file; and when nobody works the   *)
(* file is the session.                                                    *)
Solo ==
    /\ \A t, u \in Thread : Active(t) /\ Active(u) => t = u
    /\ \A t \in Conn : Active(t) =>
          /\ op[t] # "commit" => session = None
          /\ pc[t] \in Installing => file = rec[t]
    /\ session # None /\ (\A t \in Thread : ~Active(t)) => file = session

Alone == (alive # "running" => session = None) /\ (~overlapped => Solo)

LEMMA InitAlone == Init => Alone
  BY DEF Init, Alone, Solo, Active, Thread

(* A handler that is entered is the only one, or handlers overlap.         *)
LEMMA EnterAlone ==
  ASSUME Alone, NEW t \in Thread, NEW p, Enter(t, p), ~overlapped'
  PROVE  /\ Solo /\ ~overlapped /\ \A o \in Thread \ {t} : ~Active(o)
         /\ pc' = [pc EXCEPT ![t] = p]
  BY DEF Enter, Alone, Goto

(* A step of the one handler that works leaves it the only one.            *)
LEMMA StepAlone ==
  ASSUME IInv, Solo, NEW t \in Thread, Active(t), NEW p, pc' = [pc EXCEPT ![t] = p]
  PROVE  /\ \A o \in Thread \ {t} : ~Active(o) /\ ~Active(o)'
         /\ \A a, b \in Thread : Active(a)' /\ Active(b)' => a = b
<1>1. pc \in [Thread -> {"idle", "wait", "gone", "create", "bypass", "defer",
                          "captures", "backup", "setdns", "markup", "publish", "force",
                          "rbdns", "rbroutes", "rbverify", "rbclear", "end"}]
  BY DEF IInv, TypeOK
<1>. QED BY <1>1 DEF Solo, Active

LEMMA RaisingAlone ==
  ASSUME IInv, Alone, NEW t \in Conn, BringUp(t)
  PROVE  Alone'
<1>. USE DEF Thread, Goto, net, local, bounds
<1>0. TypeOK BY DEF IInv
<1>1. CASE UpCheck(t)
  BY <1>0, <1>1, EnterAlone DEF UpCheck, Enter, Applies, TypeOK, Alone, Solo, Active, Installing
<1>2. CASE UpCreate(t)
  BY <1>0, <1>2, StepAlone DEF UpCreate, TypeOK, Alone, Solo, Active, Installing
<1>3. CASE UpBypass(t)
  BY <1>0, <1>3, StepAlone DEF UpBypass, Save, TypeOK, Alone, Solo, Active, Installing
<1>4. CASE UpDefer(t)
  BY <1>0, <1>4, StepAlone DEF UpDefer, Save, TypeOK, Alone, Solo, Active, Installing
<1>5. CASE UpSaved(t)
  BY <1>0, <1>5, StepAlone DEF UpSaved, Save, TypeOK, Alone, Solo, Active, Installing
<1>6. CASE UpSaveFails(t)
  BY <1>0, <1>6, StepAlone DEF UpSaveFails, Answer, TypeOK, Alone, Solo, Active, Installing
<1>7. CASE UpPublish(t)
  <2>1. /\ pc[t] = "publish" /\ session' = rec[t] /\ UNCHANGED <<alive, file, overlapped>>
        /\ pc' = [pc EXCEPT ![t] = "idle"]
    BY <1>7 DEF UpPublish, Answer
  <2>2. alive = "running" BY <2>1 DEF IInv, Places
  <2>3. ASSUME Solo PROVE Solo'
    <3>1. Active(t) /\ file = rec[t] BY <2>1, <2>3 DEF Active, Solo, Installing
    <3>2. \A o \in Thread : ~Active(o)'
      BY <1>0, <2>1, <2>3, <3>1, StepAlone DEF TypeOK, Active
    <3>. QED BY <2>1, <3>1, <3>2 DEF Solo
  <2>. QED BY <2>1, <2>2, <2>3 DEF Alone
<1>. QED BY <1>1, <1>2, <1>3, <1>4, <1>5, <1>6, <1>7, BringUp(t) DEF BringUp

LEMMA CommitAlone ==
  ASSUME IInv, Alone, NEW t \in Conn, Commit(t)
  PROVE  Alone'
<1>. USE DEF Thread, Goto, net, local, bounds
<1>0. TypeOK BY DEF IInv
<1>1. CASE CommitCheck(t)
  BY <1>0, <1>1, EnterAlone DEF CommitCheck, Enter, Applies, Names, TypeOK, Alone, Solo, Active, Installing
<1>2. CASE Captures(t)
  BY <1>0, <1>2, StepAlone DEF Captures, Save, TypeOK, Alone, Solo, Active, Installing
<1>3. CASE Backup(t)
  BY <1>0, <1>3, StepAlone DEF Backup, Save, TypeOK, Alone, Solo, Active, Installing
<1>4. CASE SetDns(t)
  BY <1>0, <1>4, StepAlone DEF SetDns, TypeOK, Alone, Solo, Active, Installing
<1>5. CASE CommitDone(t)
  <2>1. /\ pc[t] = "markup" /\ session' = file' /\ UNCHANGED <<alive, overlapped>>
        /\ pc' = [pc EXCEPT ![t] = "idle"]
    BY <1>5 DEF CommitDone, Answer
  <2>2. alive = "running" BY <2>1 DEF IInv, Places
  <2>3. ASSUME Solo PROVE Solo'
    <3>1. Active(t) BY <2>1 DEF Active
    <3>2. \A o \in Thread : ~Active(o)'
      BY <1>0, <2>1, <2>3, <3>1, StepAlone DEF TypeOK, Active
    <3>. QED BY <2>1, <3>2 DEF Solo
  <2>. QED BY <2>1, <2>2, <2>3 DEF Alone
<1>6. CASE StepFails(t)
  BY <1>0, <1>6, StepAlone DEF StepFails, Rollback, TypeOK, Alone, Solo, Active, Installing
<1>. QED BY <1>1, <1>2, <1>3, <1>4, <1>5, <1>6, Commit(t) DEF Commit

(* A handler that rolls back works without a session, but for the signal's. *)
LEMMA UndoingAlone ==
  ASSUME IInv, NEW t \in Conn, Solo, Active(t), pc[t] \notin Installing
  PROVE  session = None
  BY NamesAssumption DEF IInv, Locking, LockedAlone, Solo, Thread

LEMMA UndoAlone ==
  ASSUME IInv, Alone, NEW t \in Thread, Undo(t)
  PROVE  Alone'
<1>. USE DEF Goto, net, local, bounds, RbStep, RbFails
<1>0. TypeOK BY DEF IInv
<1>s. Thread = Conn \cup {Signal} BY DEF Thread
<1>a. ASSUME NEW p, NEW q, p \in Rolling \cup {"force"}, q \in Rolling \cup {"end"},
             pc[t] = p, pc' = [pc EXCEPT ![t] = q],
             UNCHANGED <<alive, session, op, overlapped>>,
             \A c \in Conn \ {t} : rec'[c] = rec[c]
      PROVE  Alone'
  <2>. SUFFICES ASSUME ~overlapped PROVE Solo'
    BY <1>a DEF Alone
  <2>1. Solo /\ Active(t) BY <1>a DEF Alone, Active, Rolling
  <2>2. /\ \A o \in Thread \ {t} : ~Active(o) /\ ~Active(o)'
        /\ \A a, b \in Thread : Active(a)' /\ Active(b)' => a = b
    BY <1>a, <2>1, StepAlone
  <2>3. pc'[t] = q BY <1>a, <1>0 DEF TypeOK
  <2>4. Active(t)' BY <1>a, <2>3 DEF Active, Rolling
  <2>5. t \in Conn => session = None
    BY <1>a, <2>1, UndoingAlone DEF Rolling, Installing
  <2>. QED
    BY <1>a, <1>s, <2>2, <2>3, <2>4, <2>5 DEF Solo, Rolling, Installing
<1>1. CASE ForceCleanup(t)
  BY <1>0, <1>1, <1>a, <1>s DEF ForceCleanup, Rollback, Rolling, TypeOK
<1>2. CASE RbDns(t)
  BY <1>2, <1>a DEF RbDns, Rolling
<1>3. CASE RbRoutes(t)
  BY <1>3, <1>a DEF RbRoutes, Rolling
<1>4. CASE RbVerify(t)
  BY <1>4, <1>a DEF RbVerify, Rolling
<1>5. CASE RbClear(t)
  BY <1>5, <1>a DEF RbClear, Rolling
<1>. QED BY <1>1, <1>2, <1>3, <1>4, <1>5, Undo(t) DEF Undo

(* The process has gone, and the session with it.                          *)
LEMMA ExitAlone ==
  ASSUME NEW state, Exit(state) PROVE Alone'
  BY DEF Exit, Alone, Solo, Active, Thread

LEMMA FinishAlone ==
  ASSUME IInv, Alone, NEW t \in Conn, Finish(t)
  PROVE  Alone'
<1>. USE DEF Thread, Goto, net, local, bounds
<1>0. TypeOK BY DEF IInv
<1>a. ASSUME pc[t] = "end", Answer(t), UNCHANGED <<alive, session, file, overlapped>>
      PROVE  Alone'
  BY <1>0, <1>a, StepAlone, UndoingAlone DEF Answer, TypeOK, Alone, Solo, Active, Installing
<1>1. CASE EndUp(t)
  BY <1>1, <1>a DEF EndUp
<1>2. CASE EndCommit(t)
  BY <1>2, <1>a DEF EndCommit
<1>3. CASE EndDown(t)
  BY <1>3, <1>a DEF EndDown
<1>4. CASE EndTearDown(t)
  BY <1>0, <1>4, EnterAlone, UndoingAlone
     DEF EndTearDown, Enter, TypeOK, Alone, Solo, Active, Installing
<1>5. CASE EndRestore(t)
  BY <1>5, <1>a DEF EndRestore
<1>6. CASE EndUninstall(t)
  BY <1>6, ExitAlone DEF EndUninstall
<1>. QED BY <1>1, <1>2, <1>3, <1>4, <1>5, <1>6, Finish(t) DEF Finish

LEMMA HandleAlone ==
  ASSUME IInv, Alone, NEW t \in Conn, Handle(t)
  PROVE  Alone'
<1>. USE DEF Thread, Goto, net, local, bounds
<1>0. TypeOK BY DEF IInv
<1>1. CASE Refuse(t)
  BY <1>0, <1>1 DEF Refuse, Answer, TypeOK, Alone, Solo, Active, Installing
<1>2. CASE TearDown(t)
  BY <1>0, <1>2, EnterAlone
     DEF TearDown, Enter, Rollback, TypeOK, Alone, Solo, Active, Installing
<1>3. CASE NothingLive(t)
  BY <1>0, <1>3, EnterAlone
     DEF NothingLive, Enter, TypeOK, Alone, Solo, Active, Installing
<1>4. CASE Shutdown(t)
  BY <1>4, ExitAlone DEF Shutdown
<1>. QED
  BY <1>1, <1>2, <1>3, <1>4, RaisingAlone, CommitAlone, UndoAlone, FinishAlone,
     Handle(t) DEF Handle

LEMMA AloneNext == IInv /\ Alone /\ [Next]_vars => Alone'
<1>. SUFFICES ASSUME IInv, Alone, [Next]_vars PROVE Alone'
  OBVIOUS
<1>. USE DEF Thread, Goto, net, local, bounds
<1>0. TypeOK BY DEF IInv
<1>1. CASE Arrive
  BY <1>0, <1>1 DEF Arrive, Receive, TypeOK, Alone, Solo, Active, Installing
<1>2. CASE Sigterm
  BY <1>0, <1>2, EnterAlone, NamesAssumption
     DEF Sigterm, Enter, TypeOK, Alone, Solo, Active, Installing
<1>3. CASE EndTerm
  BY <1>3, ExitAlone DEF EndTerm
<1>4. CASE Boot
  BY <1>0, <1>4 DEF Boot, Alone, Solo, Active
<1>5. CASE Undo(Signal)
  BY <1>5, UndoAlone
<1>6. CASE UNCHANGED vars
  BY <1>6 DEF vars, Alone, Solo, Active
<1>. QED BY <1>1, <1>2, <1>3, <1>4, <1>5, <1>6, HandleAlone DEF Next

(* While no two handlers overlap, the snapshot file says all the session   *)
(* in memory says, whenever no request is being served: bring_up, the      *)
(* commit and rollback save before they answer, so that a SIGTERM or a     *)
(* kill then undoes the whole session.                                     *)
THEOREM FileFollowsSession == Spec => []FileIsSession
<1>1. Init => IInv /\ Alone
  BY InitInv, InitAlone
<1>2. IInv /\ Alone /\ [Next]_vars => IInv' /\ Alone'
  BY NextInv, AloneNext
<1>3. IInv /\ Alone => FileIsSession
  BY NamesAssumption DEF IInv, Locking, LockedAlone, Alone, Solo, FileIsSession, Thread
<1>. QED BY <1>1, <1>2, <1>3, PTL DEF Spec

------------------------------------------------------------------------------
(* How many steps a thread has at most before it answers.  Restore and     *)
(* Uninstall go through a second rollback once they have released the lock. *)
Distance(p) ==
    CASE p \in {"idle", "gone"} -> 0
      [] p \in {"publish", "end"} -> 1
      [] p = "rbclear"  -> 2
      [] p = "rbverify" -> 3
      [] p = "rbroutes" -> 4
      [] p = "rbdns"    -> 5
      [] p \in {"force", "markup"} -> 6
      [] p = "setdns"   -> 7
      [] p = "backup"   -> 8
      [] p \in {"captures", "defer"} -> 9
      [] p = "bypass"   -> 10
      [] p = "create"   -> 11
      [] OTHER          -> 12   \* "wait"

Twice(t) == lock = t /\ op[t] \in {"restore", "uninstall"}

ToGo(t) == Distance(pc[t]) + (IF Twice(t) THEN 6 ELSE 0)

Nearer(t) ==
    pc[t] \notin {"idle", "gone"} =>
        (pc'[t] = pc[t] /\ ToGo(t)' = ToGo(t)) \/ ToGo(t)' < ToGo(t)

ComesToItsAnswer == [][\A t \in Thread : Nearer(t)]_vars

Onward(p, q) == Distance(q) < Distance(p)

LEMMA WaysOn ==
    /\ Onward("wait", "create") /\ Onward("wait", "force")
    /\ Onward("create", "bypass") /\ Onward("bypass", "defer") /\ Onward("bypass", "captures")
    /\ Onward("defer", "publish") /\ Onward("captures", "backup")
    /\ Onward("backup", "setdns") /\ Onward("setdns", "markup") /\ Onward("markup", "publish")
    /\ \A p \in {"bypass", "defer", "captures", "backup", "setdns", "markup"} :
          Onward(p, "rbdns")
    /\ Onward("force", "rbdns") /\ Onward("force", "end") /\ Onward("rbdns", "rbroutes")
    /\ Onward("rbroutes", "rbverify") /\ Onward("rbverify", "rbclear") /\ Onward("rbclear", "end")
  BY DEF Onward, Distance

(* A step of one thread leaves the others where they are.                  *)
LEMMA OthersStay ==
  ASSUME IInv, NEW t \in Thread, NEW p, pc' = [pc EXCEPT ![t] = p],
         \A u \in Thread \ {t} : op'[u] = op[u],
         lock' = lock \/ (lock \in {None, t} /\ lock' \in {None, t}),
         Nearer(t)
  PROVE  \A u \in Thread : Nearer(u)
<1>. SUFFICES ASSUME NEW u \in Thread, u # t PROVE Nearer(u)
  OBVIOUS
<1>1. pc'[u] = pc[u] /\ op'[u] = op[u] BY DEF IInv, TypeOK
<1>2. lock' = u <=> lock = u BY NamesAssumption DEF Thread
<1>3. Twice(u)' <=> Twice(u) BY <1>1, <1>2 DEF Twice
<1>4. ToGo(u)' = ToGo(u) BY <1>1, <1>3 DEF ToGo
<1>. QED BY <1>1, <1>4 DEF Nearer

(* A step to a nearer place in the same handler.                           *)
LEMMA StepNearer ==
  ASSUME IInv, NEW t \in Thread, NEW p, pc' = [pc EXCEPT ![t] = p],
         UNCHANGED <<op, lock>>, Onward(pc[t], p)
  PROVE  \A u \in Thread : Nearer(u)
<1>1. pc'[t] = p BY DEF IInv, TypeOK
<1>2. Twice(t)' <=> Twice(t) BY DEF Twice
<1>3. Distance(p) \in Nat /\ Distance(pc[t]) \in Nat BY DEF Distance
<1>4. ToGo(t)' < ToGo(t) BY <1>1, <1>2, <1>3 DEF ToGo, Onward
<1>. QED BY <1>4, OthersStay DEF Nearer

(* Answering and the end of the process.                                   *)
LEMMA AnswerNearer ==
  ASSUME IInv, NEW t \in Thread, pc[t] \notin {"idle", "gone"}, Answer(t),
         lock' = lock \/ (lock \in {None, t} /\ lock' = None)
  PROVE  \A u \in Thread : Nearer(u)
<1>1. /\ pc'[t] = "idle" /\ op'[t] = "none" /\ pc' = [pc EXCEPT ![t] = "idle"]
      /\ \A u \in Thread \ {t} : op'[u] = op[u]
  BY DEF Answer, IInv, TypeOK
<1>2. ToGo(t)' = 0 BY <1>1 DEF ToGo, Twice, Distance
<1>3. Distance(pc[t]) > 0
  BY DEF IInv, TypeOK, Distance
<1>4. ToGo(t) > 0 BY <1>3, Distance(pc[t]) \in Nat DEF ToGo, Distance
<1>. QED BY <1>1, <1>2, <1>4, OthersStay DEF Nearer

LEMMA ExitNearer ==
  ASSUME IInv, NEW state, Exit(state)
  PROVE  \A u \in Thread : Nearer(u)
<1>. SUFFICES ASSUME NEW u \in Thread, pc[u] \notin {"idle", "gone"} PROVE ToGo(u)' < ToGo(u)
  BY DEF Nearer
<1>1. pc'[u] = "gone" /\ op'[u] = "none" BY DEF Exit
<1>2. ToGo(u)' = 0 BY <1>1 DEF ToGo, Twice, Distance
<1>3. Distance(pc[u]) > 0 /\ Distance(pc[u]) \in Nat BY DEF Distance
<1>. QED BY <1>2, <1>3 DEF ToGo

(* A thread that was not at work comes into a handler.                     *)
LEMMA ComingNearer ==
  ASSUME IInv, NEW t \in Thread, pc[t] \in {"idle", "gone"}, NEW p,
         pc' = [pc EXCEPT ![t] = p],
         \A u \in Thread \ {t} : op'[u] = op[u], UNCHANGED lock
  PROVE  \A u \in Thread : Nearer(u)
  BY OthersStay DEF Nearer

LEMMA RaisingNearer ==
  ASSUME IInv, NEW t \in Conn, BringUp(t)
  PROVE  \A u \in Thread : Nearer(u)
<1>. t \in Thread BY DEF Thread
<1>. USE DEF Goto, net, local, bounds
<1>1. CASE UpCheck(t)
  BY <1>1, StepNearer, WaysOn DEF UpCheck, Enter
<1>2. CASE UpCreate(t)
  BY <1>2, StepNearer, WaysOn DEF UpCreate
<1>3. CASE UpBypass(t)
  BY <1>3, StepNearer, WaysOn DEF UpBypass, Save
<1>4. CASE UpDefer(t)
  BY <1>4, StepNearer, WaysOn DEF UpDefer, Save
<1>5. CASE UpSaved(t)
  BY <1>5, StepNearer, WaysOn DEF UpSaved, Save
<1>6. CASE UpSaveFails(t)
  BY <1>6, AnswerNearer DEF UpSaveFails
<1>7. CASE UpPublish(t)
  BY <1>7, AnswerNearer DEF UpPublish
<1>. QED BY <1>1, <1>2, <1>3, <1>4, <1>5, <1>6, <1>7, BringUp(t) DEF BringUp

(* A handler that takes the lock does so where it waited for it.           *)
LEMMA TakesLock ==
  ASSUME IInv, NEW t \in Thread, pc[t] = "wait", lock = None, lock' = t,
         NEW p \in {"captures", "rbdns"}, pc' = [pc EXCEPT ![t] = p], UNCHANGED op,
         op[t] \in {"restore", "uninstall"} => p = "rbdns"
  PROVE  \A u \in Thread : Nearer(u)
<1>1. pc'[t] = p BY DEF IInv, TypeOK
<1>2. ToGo(t)' \in 5 .. 11 BY <1>1 DEF ToGo, Twice, Distance
<1>3. ToGo(t) = 12 BY NamesAssumption DEF ToGo, Twice, Distance, Thread
<1>4. Nearer(t) BY <1>2, <1>3 DEF Nearer
<1>. QED BY <1>4, OthersStay

LEMMA CommitNearer ==
  ASSUME IInv, NEW t \in Conn, Commit(t)
  PROVE  \A u \in Thread : Nearer(u)
<1>. t \in Thread BY DEF Thread
<1>. USE DEF Goto, net, local, bounds
<1>1. CASE CommitCheck(t)
  BY <1>1, TakesLock DEF CommitCheck, Enter
<1>2. CASE Captures(t)
  BY <1>2, StepNearer, WaysOn DEF Captures, Save
<1>3. CASE Backup(t)
  BY <1>3, StepNearer, WaysOn DEF Backup, Save
<1>4. CASE SetDns(t)
  BY <1>4, StepNearer, WaysOn DEF SetDns
<1>5. CASE CommitDone(t)
  <2>1. lock = t
    BY <1>5 DEF CommitDone, IInv, Locking, LockedAlone, Active
  <2>. QED BY <1>5, <2>1, AnswerNearer DEF CommitDone
<1>6. CASE StepFails(t)
  BY <1>6, StepNearer, WaysOn DEF StepFails
<1>. QED BY <1>1, <1>2, <1>3, <1>4, <1>5, <1>6, Commit(t) DEF Commit

LEMMA UndoNearer ==
  ASSUME IInv, NEW t \in Thread, Undo(t)
  PROVE  \A u \in Thread : Nearer(u)
<1>. USE DEF Goto, net, local, bounds
<1>1. CASE ForceCleanup(t)
  BY <1>1, StepNearer, WaysOn DEF ForceCleanup
<1>2. CASE RbDns(t)
  BY <1>2, StepNearer, WaysOn DEF RbDns, RbStep
<1>3. CASE RbRoutes(t)
  BY <1>3, StepNearer, WaysOn DEF RbRoutes, RbStep
<1>4. CASE RbVerify(t)
  BY <1>4, StepNearer, WaysOn DEF RbVerify, RbStep
<1>5. CASE RbClear(t)
  BY <1>5, StepNearer, WaysOn DEF RbClear, RbStep
<1>. QED BY <1>1, <1>2, <1>3, <1>4, <1>5, Undo(t) DEF Undo

LEMMA FinishNearer ==
  ASSUME IInv, NEW t \in Conn, Finish(t)
  PROVE  \A u \in Thread : Nearer(u)
<1>. t \in Thread BY DEF Thread
<1>. USE DEF Goto, net, local, bounds
<1>0. pc[t] = "end" /\ op[t] \in {"commit", "down"} => lock = t
  BY DEF IInv, Locking, LockedAlone, Active
<1>1. CASE EndUp(t)
  BY <1>1, AnswerNearer DEF EndUp
<1>2. CASE EndCommit(t)
  BY <1>0, <1>2, AnswerNearer DEF EndCommit
<1>3. CASE EndDown(t)
  BY <1>0, <1>3, AnswerNearer DEF EndDown
<1>4. CASE EndTearDown(t)
  <2>1. pc'[t] = "force" BY <1>4 DEF EndTearDown, Enter, IInv, TypeOK
  <2>2. ToGo(t) = 7 /\ ToGo(t)' = 6
    BY <1>4, <2>1, NamesAssumption DEF EndTearDown, ToGo, Twice, Distance
  <2>3. Nearer(t) BY <2>2 DEF Nearer
  <2>. QED BY <1>4, <2>3, OthersStay DEF EndTearDown, Enter
<1>5. CASE EndRestore(t)
  BY <1>5, AnswerNearer DEF EndRestore
<1>6. CASE EndUninstall(t)
  BY <1>6, ExitNearer DEF EndUninstall
<1>. QED BY <1>1, <1>2, <1>3, <1>4, <1>5, <1>6, Finish(t) DEF Finish

LEMMA HandleNearer ==
  ASSUME IInv, NEW t \in Conn, Handle(t)
  PROVE  \A u \in Thread : Nearer(u)
<1>. t \in Thread BY DEF Thread
<1>. USE DEF Goto, net, local, bounds
<1>1. CASE Refuse(t)
  BY <1>1, AnswerNearer DEF Refuse
<1>2. CASE TearDown(t)
  BY <1>2, TakesLock DEF TearDown, Enter
<1>3. CASE NothingLive(t)
  BY <1>3, StepNearer, WaysOn DEF NothingLive, Enter
<1>4. CASE Shutdown(t)
  BY <1>4, ExitNearer DEF Shutdown
<1>. QED
  BY <1>1, <1>2, <1>3, <1>4, RaisingNearer, CommitNearer, UndoNearer, FinishNearer,
     Handle(t) DEF Handle

LEMMA NextNearer == IInv /\ [Next]_vars => [\A u \in Thread : Nearer(u)]_vars
<1>. SUFFICES ASSUME IInv, Next PROVE \A u \in Thread : Nearer(u)
  OBVIOUS
<1>. USE DEF Goto, net, local, bounds
<1>s. Signal \in Thread /\ Conn \subseteq Thread BY DEF Thread
<1>1. CASE Arrive
  <2>1. PICK t \in Conn : /\ pc[t] = "idle" /\ pc' = [pc EXCEPT ![t] = "wait"]
                          /\ \A u \in Thread \ {t} : op'[u] = op[u]
                          /\ UNCHANGED lock
    BY <1>1 DEF Arrive, Receive, IInv, TypeOK
  <2>. QED BY <1>s, <2>1, ComingNearer
<1>2. CASE Sigterm
  <2>1. \A u \in Thread \ {Signal} : op'[u] = op[u]
    BY <1>2 DEF Sigterm, IInv, TypeOK
  <2>. QED BY <1>s, <1>2, <2>1, ComingNearer DEF Sigterm, Enter
<1>3. CASE EndTerm
  BY <1>3, ExitNearer DEF EndTerm
<1>4. CASE Boot
  BY <1>4 DEF Boot, Nearer, IInv, Places
<1>5. CASE Undo(Signal)
  BY <1>s, <1>5, UndoNearer
<1>. QED BY <1>1, <1>2, <1>3, <1>4, <1>5, HandleNearer DEF Next

(* No handler goes round in circles, and none is set back by another: from *)
(* the request to its answer, or the exit of the process, every step a     *)
(* thread takes brings it nearer to that, whatever the other connections,  *)
(* SIGTERM and failing commands do, Restore's two rollbacks included.      *)
THEOREM HandlersEnd == Spec => ComesToItsAnswer
<1>1. IInv /\ [Next]_vars => [\A t \in Thread : Nearer(t)]_vars
  BY NextNearer
<1>. QED BY <1>1, AlwaysIInv, PTL DEF Spec, ComesToItsAnswer

(* Where a handler needs the state lock to go on.                          *)
NeedsLock(t) ==
    \/ pc[t] = "wait" /\ op[t] # "shutdown"
    \/ pc[t] = "publish"

(* Nobody waits for the state lock for ever: the thread that holds it is   *)
(* in a handler that does not ask for it again and, by HandlersEnd, comes  *)
(* to its answer, where the lock is free.                                  *)
THEOREM HolderNeverWaits ==
  Spec => [](lock # None => /\ lock \in Conn /\ pc[lock] \notin {"idle", "gone"}
                            /\ ~NeedsLock(lock))
<1>1. IInv => (lock # None => /\ lock \in Conn /\ pc[lock] \notin {"idle", "gone"}
                              /\ ~NeedsLock(lock))
  BY DEF IInv, TypeOK, Places, Locking, Active, NeedsLock, Raising, Thread
<1>. QED BY <1>1, AlwaysIInv, PTL

==============================================================================
