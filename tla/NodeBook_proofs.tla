--------------------------- MODULE NodeBook_proofs ---------------------------
(***************************************************************************)
(* What TLAPS proves of NodeBook for any number of nodes, subscriptions,   *)
(* commands, failed writes and crashes: what is saved is what is shown,    *)
(* no node outlives its subscription, and no id is listed twice.           *)
(***************************************************************************)
EXTENDS NodeBook, SequenceTheorems, FiniteSetTheorems, FunctionTheorems,
        TLAPS

(* The lists of files a command saves, and what is left of them.           *)
Plans ==
    { <<>>, <<"settings", "memory">>, <<"memory">>, <<"nodes", "settings">>, <<"settings">>,
      <<"nodes", "subscriptions">>, <<"subscriptions">> }

Task ==
    [what : {"none", "save", "add", "refresh", "settled"}, todo : Plans, written : BOOLEAN,
     copy : SUBSET Book, targets : SUBSET Source]

IsTask(t) ==
    /\ t \in Task
    /\ t.written => t.todo # <<>>
    /\ t.todo # <<>> => \E m \in t.copy : t.copy = {m}
    /\ t.what \in {"none", "refresh"} => t.todo = <<>>
    /\ t.what \in {"add", "settled"} => t.todo \in {<<>>, <<"subscriptions">>}
    /\ t.what = "save" => t.todo # <<>>
    /\ t.what \notin {"add", "refresh"} => t.targets = {}

BookShape ==
    /\ memory \in Book /\ disk \in Book
    /\ tmp = [f \in File |-> tmp[f]]
    /\ tmp["nodes"] \subseteq SUBSET [id : Link, from : Source \cup {Manual}]
    /\ tmp["subscriptions"] \subseteq SUBSET Source
    /\ tmp["settings"] \subseteq [selected : Link \cup {NoLink}, mode : 0 .. 1]
    /\ task = [c \in Command |-> task[c]] /\ \A c \in Command : IsTask(task[c])
    /\ breaks \in Nat /\ raced \subseteq File

Holds(c, f) == f \in Pending(task[c])

(* A file two commands never held has one holder, and the temporary file   *)
(* it has written is still its own.                                        *)
Alone ==
    \A f \in File \ raced : \A c \in Command : Holds(c, f) =>
      /\ \A d \in Command : Holds(d, f) => d = c
      /\ (task[c].written /\ Head(task[c].todo) = f) => tmp[f] = {Copy(c)[f]}

(* The command will copy f from memory once more.                          *)
Recopies(t, f) ==
    \/ t.what \in {"add", "refresh"}
    \/ t.what = "settled" /\ (t.todo = <<>> \/ f # "subscriptions")

PutsBack(t) == t.todo \in {<<"settings", "memory">>, <<"memory">>}

(* With nothing failed, a file whose holder is known and that nobody will  *)
(* copy again: the holder's copy is what is in memory, or what it has      *)
(* saved and will put there.                                               *)
FreshFile(f) ==
    IF \A c \in Command : ~Holds(c, f) THEN disk[f] = memory[f]
    ELSE \A c \in Command : Holds(c, f) =>
           IF PutsBack(task[c]) THEN task[c].todo = <<"memory">> => disk[f] = Copy(c)[f]
           ELSE Copy(c)[f] = memory[f]

FreshOK ==
    breaks = 0 =>
      \A f \in File \ raced : (\A c \in Command : ~Recopies(task[c], f)) => FreshFile(f)

------------------------------------------------------------------------------
(* Subscriptions *)

Owners(m) == {n.from : n \in m.nodes}

Within(S, m) == \A s \in S : s \in m.subscriptions \cup orphaned \cup {Manual}

MemoryOK ==
    (raced = {} \/ breaks = 0) =>
      /\ Within(Owners(memory), memory)
      /\ \A c \in Command : Within(task[c].targets, memory)

(* m lists the subscriptions of whatever is, or may soon be, saved.        *)
Lists(m) ==
    /\ Within(memory.subscriptions \ BeingAdded, m)
    /\ Within(Owners(memory), m)
    /\ \A c \in Command : task[c].what = "refresh" => Within(task[c].targets, m)
    /\ \A c \in Command : Holds(c, "nodes") => \A k \in task[c].copy : Within(Owners(k), m)

(* No removal is between its two files.                                    *)
Settles == \A c \in Command : ~(Holds(c, "nodes") /\ Holds(c, "subscriptions"))

DiskOK ==
    /\ Within(Owners(disk), disk) /\ Lists(disk)
    /\ \A c \in Command : Holds(c, "nodes") =>
         \A k \in task[c].copy : Within(Owners(k), memory)
    /\ Settles => Within(Owners(disk), memory)
    /\ \A c \in Command : Holds(c, "subscriptions") => \A k \in task[c].copy :
         /\ Lists(k) /\ Within(k.subscriptions, memory) /\ Within(task[c].targets, k)
         /\ ~Holds(c, "nodes") => Within(Owners(disk), k)

OwnedOK == MemoryOK /\ (raced = {} => DiskOK)

------------------------------------------------------------------------------
(* Ids *)

(* No two nodes have one id, wherever nodes are or will be copied to.      *)
Distinct(S) == \A a, b \in S : a.id = b.id => a = b

DistinctOK ==
    /\ Distinct(memory.nodes) /\ Distinct(disk.nodes)
    /\ \A S \in tmp["nodes"] : Distinct(S)
    /\ \A c \in Command : \A k \in task[c].copy : Distinct(k.nodes)

LEMMA Only == ASSUME NEW S, NEW m, S = {m} PROVE (CHOOSE x \in S : TRUE) = m
  OBVIOUS

(* The files each list still holds, and what is left of it when its first  *)
(* file is saved.                                                          *)
LEMMA PlanFacts ==
    ASSUME NEW t, IsTask(t)
    PROVE  /\ Pending(t) \subseteq File
           /\ t.todo = <<>> => Pending(t) = {}
           /\ t.todo = <<"settings">> => Pending(t) = {"settings"}
           /\ t.todo = <<"subscriptions">> => Pending(t) = {"subscriptions"}
           /\ t.todo = <<"nodes", "settings">> => Pending(t) = {"nodes", "settings"}
           /\ t.todo = <<"nodes", "subscriptions">> => Pending(t) = {"nodes", "subscriptions"}
           /\ PutsBack(t) => Pending(t) = {"settings"}
<1>1. t.todo \in Plans BY DEF IsTask, Task
<1>2. t.todo = <<>> => Pending(t) = {} BY DEF Pending
<1>3. t.todo = <<"settings">> => Pending(t) = {"settings"} BY DEF Pending
<1>4. t.todo = <<"subscriptions">> => Pending(t) = {"subscriptions"} BY DEF Pending
<1>5. t.todo = <<"nodes", "settings">> => Pending(t) = {"nodes", "settings"} BY DEF Pending
<1>6. t.todo = <<"nodes", "subscriptions">> => Pending(t) = {"nodes", "subscriptions"} BY DEF Pending
<1>7. t.todo = <<"settings", "memory">> => Pending(t) = {"settings"} BY DEF Pending
<1>8. t.todo = <<"memory">> => Pending(t) = {"settings"} BY DEF Pending
<1>. HIDE DEF Pending
<1>. QED BY <1>1, <1>2, <1>3, <1>4, <1>5, <1>6, <1>7, <1>8 DEF Plans, File, PutsBack

LEMMA PlanSteps ==
    ASSUME NEW t, IsTask(t), t.todo # <<>>, Head(t.todo) \in File
    PROVE  /\ t.todo = <<"settings">> => Head(t.todo) = "settings" /\ Tail(t.todo) = <<>>
           /\ t.todo = <<"subscriptions">> => Head(t.todo) = "subscriptions" /\ Tail(t.todo) = <<>>
           /\ t.todo = <<"nodes", "settings">> =>
                Head(t.todo) = "nodes" /\ Tail(t.todo) = <<"settings">>
           /\ t.todo = <<"nodes", "subscriptions">> =>
                Head(t.todo) = "nodes" /\ Tail(t.todo) = <<"subscriptions">>
           /\ t.todo = <<"settings", "memory">> =>
                Head(t.todo) = "settings" /\ Tail(t.todo) = <<"memory">>
           /\ t.todo # <<"memory">>
<1>1. t.todo # <<"memory">>
  <2>1. Head(<<"memory">>) = "memory" OBVIOUS
  <2>. QED BY <2>1 DEF File
<1>2. Head(<<"settings">>) = "settings" /\ Tail(<<"settings">>) = <<>> OBVIOUS
<1>3. Head(<<"subscriptions">>) = "subscriptions" /\ Tail(<<"subscriptions">>) = <<>> OBVIOUS
<1>4. Head(<<"nodes", "settings">>) = "nodes" /\ Tail(<<"nodes", "settings">>) = <<"settings">>
  OBVIOUS
<1>5. /\ Head(<<"nodes", "subscriptions">>) = "nodes"
      /\ Tail(<<"nodes", "subscriptions">>) = <<"subscriptions">>
  OBVIOUS
<1>6. /\ Head(<<"settings", "memory">>) = "settings"
      /\ Tail(<<"settings", "memory">>) = <<"memory">>
  OBVIOUS
<1>. DEFINE td == t.todo
<1>7. td = t.todo OBVIOUS
<1>. HIDE DEF td
<1>. QED BY Zenon, <1>1, <1>2, <1>3, <1>4, <1>5, <1>6, <1>7

LEMMA Updates ==
    ASSUME BookShape, NEW c \in Command, NEW t, Becomes(c, t)
    PROVE  /\ task'[c] = t /\ \A d \in Command \ {c} : task'[d] = task[d]
           /\ task' = [d \in Command |-> task'[d]]
           /\ raced \subseteq raced'
           /\ \A d \in Command \ {c} : Pending(t) \cap Pending(task[d]) \subseteq raced'
BY DEF BookShape, Becomes

(* What a command becomes.                                                 *)
LEMMA DoneIs ==
    /\ Done.what = "none" /\ Done.todo = <<>> /\ Done.written = FALSE /\ Done.copy = {}
    /\ Done.targets = {} /\ Done \in Task
BY DEF Done, Task, Plans

LEMMA FetchingIs ==
    ASSUME NEW S \in SUBSET Source
    PROVE  /\ Fetching(S).what = "refresh" /\ Fetching(S).todo = <<>>
           /\ Fetching(S).written = FALSE /\ Fetching(S).targets = S /\ IsTask(Fetching(S))
<1>1. /\ Fetching(S).what = "refresh" /\ Fetching(S).todo = <<>>
      /\ Fetching(S).written = FALSE /\ Fetching(S).targets = S /\ Fetching(S) \in Task
  <2>. HIDE DEF Plans, Done
  <2>. QED BY DoneIs DEF Fetching, Task
<1>. QED BY <1>1 DEF IsTask

LEMMA AddingIs ==
    ASSUME NEW S \in SUBSET Source, NEW t, t = [Done EXCEPT !.what = "add", !.targets = S]
    PROVE  /\ t.what = "add" /\ t.todo = <<>> /\ t.written = FALSE /\ t.targets = S /\ IsTask(t)
<1>1. t.what = "add" /\ t.todo = <<>> /\ t.written = FALSE /\ t.targets = S /\ t \in Task
  <2>. HIDE DEF Plans, Done
  <2>. QED BY DoneIs DEF Task
<1>. QED BY <1>1 DEF IsTask

LEMMA SettledIs ==
    ASSUME NEW t, t = [Done EXCEPT !.what = "settled"]
    PROVE  /\ t.what = "settled" /\ t.todo = <<>> /\ t.written = FALSE /\ t.targets = {}
           /\ IsTask(t)
<1>1. t.what = "settled" /\ t.todo = <<>> /\ t.written = FALSE /\ t.targets = {} /\ t \in Task
  <2>. HIDE DEF Plans, Done
  <2>. QED BY DoneIs DEF Task
<1>. QED BY <1>1 DEF IsTask

LEMMA SavingIs ==
    ASSUME NEW p \in Plans, p # <<>>, NEW m \in Book, NEW t, t = Saving(p, m)
    PROVE  /\ t.what = "save" /\ t.todo = p /\ t.written = FALSE /\ t.copy = {m}
           /\ t.targets = {} /\ IsTask(t)
<1>1. /\ t.what = "save" /\ t.todo = p /\ t.written = FALSE /\ t.copy = {m}
      /\ t.targets = {}
  BY DEF Saving
<1>2. t \in Task
  <2>. HIDE DEF Plans, Book
  <2>. QED BY DEF Saving, Task
<1>. QED BY <1>1, <1>2 DEF IsTask

LEMMA SavedIs ==
    ASSUME NEW t, IsTask(t), t.todo # <<>>, Head(t.todo) \in File, memory \in Book
    PROVE  /\ IsTask(AfterSave(t)) /\ ~AfterSave(t).written
           /\ \/ /\ Tail(t.todo) # <<>> /\ t.what = "save"
                 /\ AfterSave(t).todo = Tail(t.todo) /\ AfterSave(t).copy = t.copy
                 /\ AfterSave(t).what = "save"
              \/ /\ t.todo = <<"subscriptions">> /\ t.what = "add"
                 /\ AfterSave(t) = Fetching(t.targets)
              \/ /\ t.todo = <<"subscriptions">> /\ t.what = "settled"
                 /\ AfterSave(t) = Saving(<<"nodes", "settings">>, memory)
              \/ Tail(t.todo) = <<>> /\ t.what = "save" /\ AfterSave(t) = Done
<1>. DEFINE rest == [t EXCEPT !.todo = Tail(@), !.written = FALSE]
<1>1. t \in Task /\ t.targets \in SUBSET Source BY DEF IsTask, Task
<1>3. t.what \in {"save", "add", "settled"} BY <1>1 DEF IsTask, Task
<1>4. /\ t.what \in {"add", "settled"} => t.todo = <<"subscriptions">>
      /\ t.todo = <<"subscriptions">> => Tail(t.todo) = <<>>
  BY PlanSteps DEF IsTask
<1>5. Tail(t.todo) \in Plans BY PlanSteps, <1>1 DEF Task, Plans
<1>2. /\ rest.todo = Tail(t.todo) /\ rest.what = t.what /\ rest.targets = t.targets
      /\ rest.copy = t.copy /\ rest.written = FALSE /\ rest \in Task
  <2>. HIDE DEF Plans, Book
  <2>. QED BY <1>1, <1>5 DEF Task
<1>. HIDE DEF rest
<1>6. AfterSave(t) = CASE rest.todo # <<>>    -> rest
                       [] rest.what = "add"     -> Fetching(rest.targets)
                       [] rest.what = "settled" -> Saving(<<"nodes", "settings">>, memory)
                       [] OTHER               -> Done
  <2>1. AfterSave(t) = CASE rest.todo # <<>>    -> rest
                       [] t.what = "add"     -> Fetching(t.targets)
                       [] t.what = "settled" -> Saving(<<"nodes", "settings">>, memory)
                       [] OTHER               -> Done
    BY DEF AfterSave, rest
  <2>. QED BY <2>1, <1>2
<1>a. CASE Tail(t.todo) # <<>>
  <2>1. t.what = "save" BY <1>a, <1>3, <1>4
  <2>2. AfterSave(t) = rest BY <1>a, <1>6, <1>2, <2>1
  <2>3. IsTask(rest) BY <1>a, <1>2, <2>1 DEF IsTask
  <2>. QED BY <2>1, <2>2, <2>3, <1>2, <1>a
<1>b. CASE Tail(t.todo) = <<>> /\ t.what = "add"
  <2>1. AfterSave(t) = Fetching(t.targets) BY <1>b, <1>6, <1>2
  <2>. QED BY <1>b, <1>4, <2>1, <1>1, FetchingIs
<1>c. CASE Tail(t.todo) = <<>> /\ t.what = "settled"
  <2>1. AfterSave(t) = Saving(<<"nodes", "settings">>, memory) BY <1>c, <1>6, <1>2
  <2>2. <<"nodes", "settings">> \in Plans /\ <<"nodes", "settings">> # <<>> BY DEF Plans
  <2>3. IsTask(AfterSave(t)) /\ ~AfterSave(t).written BY <2>1, <2>2, SavingIs
  <2>. QED BY <1>c, <1>4, <2>1, <2>3
<1>d. CASE Tail(t.todo) = <<>> /\ t.what = "save"
  <2>1. AfterSave(t) = Done BY <1>d, <1>6, <1>2
  <2>. QED BY <1>d, <2>1, DoneIs DEF IsTask
<1>. QED BY <1>3, <1>a, <1>b, <1>c, <1>d

------------------------------------------------------------------------------
(* The variables keep their shape.                                         *)
LEMMA PendingInFile == ASSUME NEW t, IsTask(t) PROVE Pending(t) \subseteq File
  BY PlanFacts

LEMMA ShapeStep ==
    ASSUME BookShape, NEW c \in Command, NEW t, IsTask(t), Becomes(c, t),
           memory' \in Book, UNCHANGED <<disk, tmp>>, breaks' \in Nat
    PROVE  BookShape'
<1>1. /\ task' = [d \in Command |-> task'[d]]
      /\ \A d \in Command : IsTask(task'[d])
  BY Updates DEF BookShape
<1>2. raced' \subseteq File
  <2>1. raced' = raced \cup UNION {Pending(t) \cap Pending(task[d]) : d \in Command \ {c}}
    BY DEF Becomes
  <2>. QED BY <2>1, PendingInFile DEF BookShape
<1>. QED BY <1>1, <1>2 DEF BookShape

LEMMA DonePlan == <<>> \in Plans BY DEF Plans

LEMMA IsDone == IsTask(Done) BY DoneIs DEF IsTask

LEMMA BookFields ==
    ASSUME NEW m \in Book
    PROVE  /\ m.nodes \in SUBSET [id : Link, from : Source \cup {Manual}]
           /\ m.subscriptions \in SUBSET Source
           /\ m.settings \in [selected : Link \cup {NoLink}, mode : 0 .. 1]
  BY DEF Book

LEMMA CopyIs ==
    ASSUME BookShape, NEW c \in Command, task[c].todo # <<>>
    PROVE  task[c].copy = {Copy(c)} /\ Copy(c) \in Book
<1>1. PICK m \in task[c].copy : task[c].copy = {m} BY DEF BookShape, IsTask
<1>2. Copy(c) = m BY <1>1, Only DEF Copy
<1>3. task[c].copy \subseteq Book BY DEF BookShape, IsTask, Task
<1>. QED BY <1>1, <1>2, <1>3

(* A refresh has the nodes it was given, but for those of other            *)
(* subscriptions.                                                          *)
LEMMA Refetched ==
    ASSUME BookShape, NEW c \in Command, NEW s \in Source, Fetched(c, s)
    PROVE  /\ memory' \in Book /\ memory'.subscriptions = memory.subscriptions
           /\ memory'.settings = memory.settings
           /\ \A n \in memory'.nodes : n \in memory.nodes \/ n.from = s
           /\ Distinct(memory.nodes) => Distinct(memory'.nodes)
<1>1. memory \in Book BY DEF BookShape
<1>2. CASE UNCHANGED memory BY <1>1, <1>2
<1>3. ASSUME NEW got \in SUBSET Link,
             LET kept == memory.nodes \ From(s, memory)
                 new  == got \ {n.id : n \in kept}
             IN  memory' = [memory EXCEPT !.nodes = kept \cup {[id |-> n, from |-> s] : n \in new}]
      PROVE  /\ memory' \in Book /\ memory'.subscriptions = memory.subscriptions
             /\ memory'.settings = memory.settings
             /\ \A n \in memory'.nodes : n \in memory.nodes \/ n.from = s
             /\ Distinct(memory.nodes) => Distinct(memory'.nodes)
  <2>. DEFINE kept == memory.nodes \ From(s, memory)
              new == got \ {n.id : n \in kept}
              all == kept \cup {[id |-> n, from |-> s] : n \in new}
  <2>1. all \in SUBSET [id : Link, from : Source \cup {Manual}] BY <1>1 DEF Book
  <2>2. \A n \in all : n \in memory.nodes \/ n.from = s OBVIOUS
  <2>6. Distinct(memory.nodes) => Distinct(all) BY DEF Distinct
  <2>3. memory' = [memory EXCEPT !.nodes = all] BY <1>3
  <2>. HIDE DEF all
  <2>4. memory' \in Book BY <1>1, <2>1, <2>3 DEF Book
  <2>5. /\ memory'.nodes = all /\ memory'.subscriptions = memory.subscriptions
        /\ memory'.settings = memory.settings
    BY <1>1, <2>3 DEF Book
  <2>. QED BY <2>2, <2>4, <2>5, <2>6
<1>. QED BY <1>2, <1>3 DEF Fetched

LEMMA ShapeFetched ==
    ASSUME BookShape, NEW c \in Command, NEW s \in Source, Fetched(c, s)
    PROVE  BookShape'
<1>1. memory' \in Book BY Refetched
<1>. DEFINE t == [task[c] EXCEPT !.targets = @ \ {s}]
<1>2. task[c] \in Task /\ task[c].what = "refresh" BY DEF Fetched, BookShape, IsTask
<1>3. t \in Task /\ t.what = "refresh" /\ t.todo = task[c].todo /\ t.written = task[c].written
  <2>. HIDE DEF Plans, Book
  <2>. QED BY <1>2 DEF Task
<1>4. Becomes(c, t) /\ breaks' = breaks /\ UNCHANGED <<disk, tmp>> BY DEF Fetched
<1>. HIDE DEF t
<1>5. IsTask(t) BY <1>2, <1>3 DEF IsTask, BookShape
<1>6. breaks' \in Nat BY <1>4 DEF BookShape
<1>. QED BY <1>1, <1>4, <1>5, <1>6, ShapeStep

------------------------------------------------------------------------------
(* What the commands change in memory, and what they then save.            *)
SettingsChange(c, m) ==
    /\ m \in Book /\ m.nodes = memory.nodes
    /\ Becomes(c, Saving(<<"settings", "memory">>, m)) /\ task[c] = Done
    /\ UNCHANGED <<memory, disk, tmp, orphaned, breaks>>

NodesChange(c) ==
    /\ memory' \in Book /\ memory'.subscriptions = memory.subscriptions
    /\ \A n \in memory'.nodes : n \in memory.nodes \/ n.from = Manual
    /\ Distinct(memory.nodes) => Distinct(memory'.nodes)
    /\ Becomes(c, Saving(<<"nodes", "settings">>, memory')) /\ task[c] = Done
    /\ UNCHANGED <<disk, tmp, orphaned, breaks>>

Removal(c, s) ==
    /\ memory' \in Book /\ memory'.subscriptions = memory.subscriptions \ {s}
    /\ \A n \in memory'.nodes : n \in memory.nodes /\ n.from # s
    /\ memory'.settings = memory.settings
    /\ Becomes(c, Saving(<<"nodes", "subscriptions">>, memory')) /\ task[c] = Done
    /\ orphaned \subseteq orphaned'
    /\ \A d \in Command : s \in task[d].targets => s \in orphaned'
    /\ UNCHANGED <<disk, tmp, breaks>>

LEMMA Setting ==
    ASSUME BookShape, NEW c \in Command,
           set_mode(c) \/ \E n \in Link : select_node(c, n)
    PROVE  \E m : SettingsChange(c, m)
<1>1. memory \in Book BY DEF BookShape
<1>2. ASSUME NEW v \in [selected : Link \cup {NoLink}, mode : 0 .. 1], ChangeSettings(c, v)
      PROVE  \E m : SettingsChange(c, m)
  <2>1. /\ [memory EXCEPT !.settings = v] \in Book
        /\ [memory EXCEPT !.settings = v].nodes = memory.nodes
    BY <1>1 DEF Book
  <2>. QED BY <1>2, <2>1 DEF ChangeSettings, SettingsChange, Begins
<1>3. CASE set_mode(c)
  <2>1. [memory.settings EXCEPT !.mode = 1 - @] \in [selected : Link \cup {NoLink}, mode : 0 .. 1]
    BY <1>1, BookFields
  <2>. QED BY <1>2, <1>3, <2>1 DEF set_mode
<1>4. ASSUME NEW n \in Link, select_node(c, n) PROVE \E m : SettingsChange(c, m)
  <2>1. [memory.settings EXCEPT !.selected = n]
          \in [selected : Link \cup {NoLink}, mode : 0 .. 1]
    BY <1>1, BookFields
  <2>. QED BY <1>2, <1>4, <2>1 DEF select_node
<1>. QED BY <1>3, <1>4

LEMMA Adding ==
    ASSUME BookShape, NEW c \in Command, NEW n \in Link, add_manual_node(c, n)
    PROVE  NodesChange(c)
<1>. DEFINE added == IF n \in Listed(memory) THEN memory.nodes
                     ELSE memory.nodes \cup {[id |-> n, from |-> Manual]}
            m == [memory EXCEPT !.nodes = added,
                                !.settings.selected = IF @ = NoLink THEN n ELSE @]
<1>1. memory \in Book BY DEF BookShape
<1>2. added \in SUBSET [id : Link, from : Source \cup {Manual}] BY <1>1, BookFields
<1>3. \A x \in added : x \in memory.nodes \/ x.from = Manual OBVIOUS
<1>d. Distinct(memory.nodes) => Distinct(added) BY DEF Distinct, Listed
<1>4. Change(c, <<"nodes", "settings">>, m) /\ UNCHANGED orphaned BY DEF add_manual_node
<1>. HIDE DEF added
<1>5. m \in Book /\ m.nodes = added /\ m.subscriptions = memory.subscriptions
  BY <1>1, <1>2 DEF Book
<1>. HIDE DEF m
<1>. QED BY <1>3, <1>d, <1>4, <1>5 DEF Change, NodesChange, Begins

LEMMA Deleting ==
    ASSUME BookShape, NEW c \in Command, NEW n \in Link, delete_node(c, n)
    PROVE  NodesChange(c)
<1>. DEFINE left == [memory EXCEPT !.nodes = {x \in @ : x.id # n}]
<1>1. memory \in Book BY DEF BookShape
<1>2. /\ left \in Book /\ left.subscriptions = memory.subscriptions
      /\ left.nodes = {x \in memory.nodes : x.id # n}
  BY <1>1 DEF Book
<1>3. PICK other \in Some(left) :
        Change(c, <<"nodes", "settings">>,
               [left EXCEPT !.settings.selected = IF @ = n THEN other ELSE @])
  BY DEF delete_node
<1>. DEFINE m == [left EXCEPT !.settings.selected = IF @ = n THEN other ELSE @]
<1>. HIDE DEF left
<1>4. other \in Link \cup {NoLink}
  BY <1>2, BookFields DEF Some, Listed
<1>5. m \in Book /\ m.nodes = left.nodes /\ m.subscriptions = left.subscriptions
  BY <1>2, <1>4 DEF Book
<1>. HIDE DEF m
<1>6. Change(c, <<"nodes", "settings">>, m) /\ UNCHANGED orphaned
  BY <1>3 DEF m, delete_node
<1>7. Distinct(memory.nodes) => Distinct(m.nodes) BY <1>2, <1>5 DEF Distinct
<1>. QED BY <1>2, <1>5, <1>6, <1>7 DEF Change, NodesChange, Begins

LEMMA Removing ==
    ASSUME BookShape, NEW c \in Command, NEW s \in Source, remove_subscription(c, s)
    PROVE  Removal(c, s)
<1>. DEFINE m == [memory EXCEPT !.subscriptions = @ \ {s}, !.nodes = @ \ From(s, memory)]
<1>1. memory \in Book BY DEF BookShape
<1>2. /\ m \in Book /\ m.subscriptions = memory.subscriptions \ {s}
      /\ m.nodes = memory.nodes \ From(s, memory) /\ m.settings = memory.settings
  BY <1>1 DEF Book
<1>3. Change(c, <<"nodes", "subscriptions">>, m) BY DEF remove_subscription
<1>. HIDE DEF m
<1>4. \A n \in m.nodes : n \in memory.nodes /\ n.from # s BY <1>2 DEF From
<1>5. /\ orphaned \subseteq orphaned'
      /\ \A d \in Command : s \in task[d].targets => s \in orphaned'
  BY DEF remove_subscription
<1>. QED BY <1>2, <1>3, <1>4, <1>5 DEF Change, Removal, Begins

(* Only the settings in memory change.                                     *)
SameBook ==
    memory' \in Book /\ memory'.nodes = memory.nodes
    /\ memory'.subscriptions = memory.subscriptions

LEMMA Settling ==
    ASSUME BookShape, NEW c \in Command, Settled(c)
    PROVE  SameBook
<1>1. memory \in Book BY DEF BookShape
<1>2. PICK n \in IF memory.settings.selected \in Listed(memory)
                 THEN {memory.settings.selected} ELSE Some(memory) :
        memory' = [memory EXCEPT !.settings.selected = n]
  BY DEF Settled
<1>3. n \in Link \cup {NoLink} BY <1>1, <1>2, BookFields DEF Some, Listed
<1>. QED BY <1>1, <1>2, <1>3 DEF Book, SameBook

LEMMA PuttingBack ==
    ASSUME BookShape, NEW c \in Command, PutBack(c)
    PROVE  SameBook /\ memory'.settings = Copy(c).settings
<1>1. memory \in Book BY DEF BookShape
<1>2. task[c].todo # <<>> /\ memory' = [memory EXCEPT !.settings = Copy(c).settings]
  BY DEF PutBack
<1>3. Copy(c) \in Book BY <1>2, CopyIs
<1>4. Copy(c).settings \in [selected : Link \cup {NoLink}, mode : 0 .. 1] BY <1>3, BookFields
<1>. HIDE DEF Copy
<1>. QED BY <1>1, <1>2, <1>4 DEF Book, SameBook

LEMMA ShapeChange ==
    ASSUME BookShape, NEW c \in Command,
           \/ \E n \in Link : select_node(c, n) \/ add_manual_node(c, n) \/ delete_node(c, n)
           \/ set_mode(c)
           \/ \E s \in Source : remove_subscription(c, s)
    PROVE  BookShape'
<1>1. /\ <<"settings", "memory">> \in Plans /\ <<"settings", "memory">> # <<>>
      /\ <<"nodes", "settings">> \in Plans /\ <<"nodes", "settings">> # <<>>
      /\ <<"nodes", "subscriptions">> \in Plans /\ <<"nodes", "subscriptions">> # <<>>
  BY DEF Plans
<1>2. breaks \in Nat /\ memory \in Book BY DEF BookShape
<1>3. ASSUME NEW m, SettingsChange(c, m) PROVE BookShape'
  <2>1. IsTask(Saving(<<"settings", "memory">>, m)) BY <1>1, <1>3, SavingIs DEF SettingsChange
  <2>2. /\ Becomes(c, Saving(<<"settings", "memory">>, m)) /\ memory' \in Book
        /\ UNCHANGED <<disk, tmp>> /\ breaks' \in Nat
    BY <1>2, <1>3 DEF SettingsChange
  <2>. QED BY <2>1, <2>2, ShapeStep
<1>4. ASSUME NodesChange(c) PROVE BookShape'
  <2>1. IsTask(Saving(<<"nodes", "settings">>, memory')) BY <1>1, <1>4, SavingIs DEF NodesChange
  <2>2. /\ Becomes(c, Saving(<<"nodes", "settings">>, memory')) /\ memory' \in Book
        /\ UNCHANGED <<disk, tmp>> /\ breaks' \in Nat
    BY <1>2, <1>4 DEF NodesChange
  <2>. QED BY <2>1, <2>2, ShapeStep
<1>5. ASSUME NEW s \in Source, Removal(c, s) PROVE BookShape'
  <2>1. IsTask(Saving(<<"nodes", "subscriptions">>, memory')) BY <1>1, <1>5, SavingIs DEF Removal
  <2>2. /\ Becomes(c, Saving(<<"nodes", "subscriptions">>, memory')) /\ memory' \in Book
        /\ UNCHANGED <<disk, tmp>> /\ breaks' \in Nat
    BY <1>2, <1>5 DEF Removal
  <2>. QED BY <2>1, <2>2, ShapeStep
<1>. QED BY <1>3, <1>4, <1>5, Setting, Adding, Deleting, Removing

LEMMA ShapeSubscription ==
    ASSUME BookShape, NEW c \in Command,
           \/ \E s \in Source : add_subscription(c, s)
           \/ \E targets \in SUBSET Source : refresh_subscriptions(c, targets)
           \/ Settled(c) \/ persist_subscriptions(c) \/ PutBack(c)
    PROVE  BookShape'
<1>0. breaks \in Nat /\ memory \in Book /\ IsTask(task[c]) BY DEF BookShape
<1>1. ASSUME NEW s \in Source, add_subscription(c, s) PROVE BookShape'
  <2>1. memory' \in Book BY <1>0, <1>1 DEF add_subscription, Book
  <2>. DEFINE t == [Done EXCEPT !.what = "add", !.targets = {s}]
  <2>2. IsTask(t) BY AddingIs
  <2>3. Becomes(c, t) /\ UNCHANGED <<disk, tmp>> /\ breaks' \in Nat
    BY <1>0, <1>1 DEF add_subscription
  <2>. HIDE DEF t
  <2>. QED BY <2>1, <2>2, <2>3, ShapeStep
<1>2. ASSUME NEW targets \in SUBSET Source, refresh_subscriptions(c, targets) PROVE BookShape'
  <2>1. IsTask(Fetching(targets)) BY FetchingIs
  <2>2. /\ Becomes(c, Fetching(targets)) /\ UNCHANGED <<disk, tmp>> /\ breaks' \in Nat
        /\ memory' \in Book
    BY <1>0, <1>2 DEF refresh_subscriptions
  <2>. QED BY <2>1, <2>2, ShapeStep
<1>3. CASE Settled(c)
  <2>. DEFINE t == [Done EXCEPT !.what = "settled"]
  <2>1. IsTask(t) BY SettledIs
  <2>2. Becomes(c, t) /\ UNCHANGED <<disk, tmp>> /\ breaks' \in Nat BY <1>0, <1>3 DEF Settled
  <2>3. memory' \in Book BY <1>3, Settling DEF SameBook
  <2>. HIDE DEF t
  <2>. QED BY <2>1, <2>2, <2>3, ShapeStep
<1>4. CASE persist_subscriptions(c)
  <2>. DEFINE t == [task[c] EXCEPT !.todo = <<"subscriptions">>, !.copy = {memory}]
  <2>1. <<"subscriptions">> \in Plans BY DEF Plans
  <2>2. task[c] \in Task /\ task[c].what \in {"add", "settled"}
    BY <1>0, <1>4 DEF IsTask, persist_subscriptions
  <2>3. /\ t \in Task /\ t.todo = <<"subscriptions">> /\ t.copy = {memory}
        /\ t.what = task[c].what /\ t.targets = task[c].targets /\ t.written = task[c].written
    <3>. HIDE DEF Plans, Book
    <3>. QED BY <1>0, <2>1, <2>2 DEF Task
  <2>4. /\ Becomes(c, t) /\ UNCHANGED <<disk, tmp>> /\ breaks' \in Nat /\ memory' \in Book
    BY <1>0, <1>4 DEF persist_subscriptions
  <2>. HIDE DEF t
  <2>5. IsTask(t) BY <1>0, <2>2, <2>3 DEF IsTask
  <2>. QED BY <2>4, <2>5, ShapeStep
<1>5. CASE PutBack(c)
  <2>1. memory' \in Book BY <1>5, PuttingBack DEF SameBook
  <2>2. Becomes(c, Done) /\ UNCHANGED <<disk, tmp>> /\ breaks' \in Nat BY <1>0, <1>5 DEF PutBack
  <2>. QED BY <2>1, <2>2, IsDone, ShapeStep
<1>. QED BY <1>1, <1>2, <1>3, <1>4, <1>5

(* Saving: the command writes the temporary file, then renames it, or      *)
(* finds that somebody else has.                                           *)
Writes(c, f) ==
    /\ task[c].todo # <<>> /\ Head(task[c].todo) = f /\ ~task[c].written
    /\ tmp' = [tmp EXCEPT ![f] = {Copy(c)[f]}]
    /\ task'[c].written = TRUE /\ task'[c].what = task[c].what /\ task'[c].todo = task[c].todo
    /\ task'[c].copy = task[c].copy /\ task'[c].targets = task[c].targets
    /\ \A d \in Command \ {c} : task'[d] = task[d]
    /\ UNCHANGED <<memory, disk, raced, orphaned, breaks>>

Renames(c, f) ==
    /\ task[c].todo # <<>> /\ Head(task[c].todo) = f /\ task[c].written
    /\ disk' \in Book /\ disk'[f] \in tmp[f] /\ \A g \in File \ {f} : disk'[g] = disk[g]
    /\ \A g \in File \ {f} : tmp'[g] = tmp[g]
    /\ Becomes(c, AfterSave(task[c])) /\ UNCHANGED <<memory, orphaned, breaks>>

Finds(c) ==
    /\ raced' = File /\ task'[c] = Done /\ \A d \in Command \ {c} : task'[d] = task[d]
    /\ UNCHANGED <<memory, disk, tmp, orphaned, breaks>>

LEMMA Writing ==
    ASSUME BookShape, NEW c \in Command, NEW f \in File, Write(c, f)
    PROVE  BookShape' /\ Writes(c, f)
<1>. DEFINE t == [task[c] EXCEPT !.written = TRUE]
<1>1. task[c] \in Task /\ IsTask(task[c]) /\ task[c].todo # <<>> BY DEF BookShape, IsTask, Write
<1>2. /\ t \in Task /\ t.what = task[c].what /\ t.todo = task[c].todo /\ t.written = TRUE
      /\ t.copy = task[c].copy /\ t.targets = task[c].targets
  <2>. HIDE DEF Plans, Book
  <2>. QED BY <1>1 DEF Task
<1>3. task'[c] = t /\ task' = [d \in Command |-> task'[d]]
      /\ \A d \in Command \ {c} : task'[d] = task[d]
  BY DEF Write, BookShape
<1>. HIDE DEF t
<1>4. IsTask(t) BY <1>1, <1>2 DEF IsTask
<1>5. \A d \in Command : IsTask(task'[d]) BY <1>3, <1>4 DEF BookShape
<1>6. Writes(c, f) BY <1>2, <1>3 DEF Write, Writes
<1>7. Copy(c) \in Book BY <1>1, CopyIs
<1>8. /\ tmp' = [g \in File |-> tmp'[g]]
      /\ tmp'["nodes"] \subseteq SUBSET [id : Link, from : Source \cup {Manual}]
      /\ tmp'["subscriptions"] \subseteq SUBSET Source
      /\ tmp'["settings"] \subseteq [selected : Link \cup {NoLink}, mode : 0 .. 1]
  <2>. DEFINE x == Copy(c)
  <2>1. x \in Book BY <1>7
  <2>2. tmp' = [tmp EXCEPT ![f] = {x[f]}] BY <1>6 DEF Writes
  <2>. HIDE DEF x
  <2>3. /\ x["nodes"] \in SUBSET [id : Link, from : Source \cup {Manual}]
        /\ x["subscriptions"] \in SUBSET Source
        /\ x["settings"] \in [selected : Link \cup {NoLink}, mode : 0 .. 1]
    BY <2>1, BookFields
  <2>. QED BY <2>2, <2>3 DEF BookShape, File
<1>. QED BY <1>3, <1>5, <1>6, <1>8 DEF BookShape, Writes

LEMMA Renaming ==
    ASSUME BookShape, NEW c \in Command, NEW f \in File, atomic_write(c, f)
    PROVE  BookShape' /\ (Renames(c, f) \/ Finds(c))
<1>1. IsTask(task[c]) /\ task[c].todo # <<>> /\ breaks \in Nat /\ memory \in Book /\ disk \in Book
  BY DEF BookShape, IsTask, atomic_write
<1>2. CASE tmp[f] = {}
  <2>1. Finds(c) BY <1>2 DEF atomic_write, BreaksOff, Finds, BookShape
  <2>2. task' = [d \in Command |-> task'[d]] BY <1>2 DEF atomic_write, BreaksOff, BookShape
  <2>3. \A d \in Command : IsTask(task'[d]) BY <2>1, IsDone DEF Finds, BookShape
  <2>. QED BY <1>1, <2>1, <2>2, <2>3 DEF Finds, BookShape
<1>3. CASE tmp[f] # {}
  <2>1. PICK x \in tmp[f] : x = (CHOOSE y \in tmp[f] : TRUE) BY <1>3
  <2>2. disk' = [disk EXCEPT ![f] = x] /\ tmp' = [tmp EXCEPT ![f] = {}]
    BY <1>3, <2>1 DEF atomic_write
  <2>3. disk' \in Book BY <1>1, <2>1, <2>2 DEF BookShape, File, Book
  <2>4. disk'[f] = x /\ \A g \in File \ {f} : disk'[g] = disk[g]
    BY <1>1, <2>2 DEF File, Book
  <2>5. /\ tmp' = [g \in File |-> tmp'[g]]
        /\ tmp'["nodes"] \subseteq SUBSET [id : Link, from : Source \cup {Manual}]
        /\ tmp'["subscriptions"] \subseteq SUBSET Source
        /\ tmp'["settings"] \subseteq [selected : Link \cup {NoLink}, mode : 0 .. 1]
        /\ \A g \in File \ {f} : tmp'[g] = tmp[g]
    BY <2>2 DEF BookShape, File
  <2>6. Becomes(c, AfterSave(task[c])) /\ UNCHANGED <<memory, orphaned, breaks>>
    BY <1>3 DEF atomic_write
  <2>7. Renames(c, f) BY <1>1, <2>1, <2>3, <2>4, <2>5, <2>6 DEF Renames, atomic_write
  <2>8. IsTask(AfterSave(task[c])) BY <1>1, SavedIs DEF atomic_write
  <2>9. /\ task' = [d \in Command |-> task'[d]]
        /\ \A d \in Command : IsTask(task'[d])
    BY <2>6, <2>8, Updates DEF BookShape
  <2>10. raced' \subseteq File
    <3>. DEFINE t == AfterSave(task[c])
    <3>1. raced' = raced \cup UNION {Pending(t) \cap Pending(task[d]) : d \in Command \ {c}}
      BY <2>6 DEF Becomes
    <3>2. Pending(t) \subseteq File BY <2>8, PendingInFile
    <3>. HIDE DEF t
    <3>. QED BY <3>1, <3>2 DEF BookShape
  <2>. QED BY <1>1, <2>3, <2>5, <2>6, <2>7, <2>9, <2>10 DEF BookShape
<1>. QED BY <1>2, <1>3

LEMMA Shaped ==
    ASSUME BookShape, [BookNext]_bookVars PROVE BookShape'
<1>1. CASE UNCHANGED bookVars BY <1>1 DEF bookVars, BookShape
<1>2. ASSUME NEW c \in Command, WriteFails(c) PROVE BookShape'
  <2>1. breaks' \in Nat /\ memory' \in Book /\ UNCHANGED <<disk, tmp>> /\ Becomes(c, Done)
    BY <1>2 DEF WriteFails, BookShape
  <2>. QED BY <2>1, IsDone, ShapeStep
<1>3. CASE LoadBook
  <2>1. \A c \in Command : task'[c] = Done BY <1>3 DEF LoadBook
  <2>2. task' = [c \in Command |-> task'[c]] BY <1>3 DEF LoadBook
  <2>3. \A c \in Command : IsTask(task'[c]) BY <2>1, IsDone
  <2>4. /\ memory' \in Book /\ disk' \in Book /\ breaks' \in Nat /\ raced' \subseteq File
        /\ tmp' = tmp
    BY <1>3 DEF LoadBook, BookShape
  <2>. QED BY <2>2, <2>3, <2>4 DEF BookShape
<1>. QED BY <1>1, <1>2, <1>3, ShapeChange, ShapeSubscription, ShapeFetched, Writing, Renaming
     DEF BookNext

LEMMA ShapeInit == ASSUME BookInit PROVE BookShape
<1>1. Empty \in Book BY DEF Empty, Book
<1>2. \A c \in Command : IsTask(task[c]) BY IsDone DEF BookInit
<1>3. task = [c \in Command |-> task[c]] BY DEF BookInit
<1>4. tmp = [f \in File |-> {}] BY DEF BookInit
<1>. HIDE DEF Empty
<1>. QED BY <1>1, <1>2, <1>3, <1>4 DEF BookInit, BookShape, File

------------------------------------------------------------------------------
(* A file that was never held twice has one holder.                        *)
LEMMA AloneStep ==
    ASSUME BookShape, Alone, NEW c \in Command, NEW t, Becomes(c, t), ~t.written,
           NEW F, \A g \in File \ F : tmp'[g] = tmp[g],
           \A f \in F : Holds(c, f)
    PROVE  Alone'
<1>1. SUFFICES ASSUME NEW f \in File, f \notin raced', NEW d \in Command, Holds(d, f)'
               PROVE  /\ \A e \in Command : Holds(e, f)' => e = d
                      /\ (task'[d].written /\ Head(task'[d].todo) = f)
                           => tmp'[f] = {(CHOOSE m \in task'[d].copy : TRUE)[f]}
  BY DEF Alone, Copy
<1>2. /\ task'[c] = t /\ \A e \in Command \ {c} : task'[e] = task[e]
      /\ raced \subseteq raced'
      /\ \A e \in Command \ {c} : Pending(t) \cap Pending(task[e]) \subseteq raced'
  BY Updates
<1>3. /\ Holds(c, f)' <=> f \in Pending(t)
      /\ \A e \in Command \ {c} : Holds(e, f)' <=> Holds(e, f)
  BY <1>2 DEF Holds
<1>4. f \notin raced BY <1>1, <1>2
<1>5. CASE d = c
  BY <1>1, <1>2, <1>3, <1>5 DEF Holds
<1>6. CASE d # c
  <2>1. Holds(d, f) /\ task'[d] = task[d] BY <1>1, <1>2, <1>3, <1>6
  <2>2. ~Holds(c, f) /\ f \notin F BY <1>4, <1>6, <2>1 DEF Alone
  <2>3. f \notin Pending(t) BY <1>1, <1>2, <1>6, <2>1 DEF Holds
  <2>4. tmp'[f] = tmp[f] BY <2>2
  <2>. QED BY <1>3, <1>4, <2>1, <2>2, <2>3, <2>4 DEF Alone, Copy
<1>. QED BY <1>5, <1>6

LEMMA FirstIsHeld ==
    ASSUME BookShape, NEW c \in Command, task[c].todo # <<>>, Head(task[c].todo) \in File
    PROVE  Holds(c, Head(task[c].todo))
<1>1. IsTask(task[c]) BY DEF BookShape
<1>2. task[c].todo \in Plans BY <1>1 DEF IsTask, Task
<1>. DEFINE t == task[c]
<1>3. IsTask(t) /\ t.todo \in Plans /\ t.todo # <<>> /\ Head(t.todo) \in File BY <1>1, <1>2
<1>. HIDE DEF t
<1>4. Head(t.todo) \in Pending(t) BY <1>3, PlanFacts, PlanSteps DEF Plans, PutsBack
<1>. QED BY <1>4 DEF t, Holds

(* What every command that changes no file does to the tasks.              *)
LEMMA TaskOnly ==
    ASSUME BookShape, NEW c \in Command,
           \/ \E n \in Link : select_node(c, n) \/ add_manual_node(c, n) \/ delete_node(c, n)
           \/ set_mode(c)
           \/ \E s \in Source : add_subscription(c, s) \/ remove_subscription(c, s) \/ Fetched(c, s)
           \/ \E targets \in SUBSET Source : refresh_subscriptions(c, targets)
           \/ Settled(c) \/ persist_subscriptions(c) \/ PutBack(c) \/ WriteFails(c)
    PROVE  \E t : Becomes(c, t) /\ ~t.written /\ UNCHANGED <<disk, tmp>>
<1>0. IsTask(task[c]) BY DEF BookShape
<1>1. ASSUME NEW m, SettingsChange(c, m) PROVE \E t : Becomes(c, t) /\ ~t.written /\ UNCHANGED <<disk, tmp>>
  BY <1>1 DEF SettingsChange, Saving
<1>2. ASSUME NodesChange(c) PROVE \E t : Becomes(c, t) /\ ~t.written /\ UNCHANGED <<disk, tmp>>
  BY <1>2 DEF NodesChange, Saving
<1>3. ASSUME NEW s, Removal(c, s) PROVE \E t : Becomes(c, t) /\ ~t.written /\ UNCHANGED <<disk, tmp>>
  BY <1>3 DEF Removal, Saving
<1>4. ASSUME NEW s \in Source, add_subscription(c, s)
      PROVE  \E t : Becomes(c, t) /\ ~t.written /\ UNCHANGED <<disk, tmp>>
  <2>. DEFINE t == [Done EXCEPT !.what = "add", !.targets = {s}]
  <2>1. ~t.written BY AddingIs
  <2>2. Becomes(c, t) /\ UNCHANGED <<disk, tmp>> BY <1>4 DEF add_subscription
  <2>. HIDE DEF t
  <2>. QED BY <2>1, <2>2
<1>5. ASSUME NEW s \in Source, Fetched(c, s)
      PROVE  \E t : Becomes(c, t) /\ ~t.written /\ UNCHANGED <<disk, tmp>>
  <2>. DEFINE t == [task[c] EXCEPT !.targets = @ \ {s}]
  <2>1. task[c] \in Task /\ ~task[c].written BY <1>0, <1>5 DEF Fetched, IsTask, Task
  <2>2. ~t.written
    <3>. HIDE DEF Plans, Book
    <3>. QED BY <2>1 DEF Task
  <2>3. Becomes(c, t) /\ UNCHANGED <<disk, tmp>> BY <1>5 DEF Fetched
  <2>. HIDE DEF t
  <2>. QED BY <2>2, <2>3
<1>6. ASSUME NEW targets \in SUBSET Source, refresh_subscriptions(c, targets)
      PROVE  \E t : Becomes(c, t) /\ ~t.written /\ UNCHANGED <<disk, tmp>>
  BY <1>6, FetchingIs DEF refresh_subscriptions
<1>7. ASSUME Settled(c) PROVE \E t : Becomes(c, t) /\ ~t.written /\ UNCHANGED <<disk, tmp>>
  <2>. DEFINE t == [Done EXCEPT !.what = "settled"]
  <2>1. ~t.written BY SettledIs
  <2>2. Becomes(c, t) /\ UNCHANGED <<disk, tmp>> BY <1>7 DEF Settled
  <2>. HIDE DEF t
  <2>. QED BY <2>1, <2>2
<1>8. ASSUME persist_subscriptions(c)
      PROVE \E t : Becomes(c, t) /\ ~t.written /\ UNCHANGED <<disk, tmp>>
  <2>. DEFINE t == [task[c] EXCEPT !.todo = <<"subscriptions">>, !.copy = {memory}]
  <2>1. task[c] \in Task /\ ~task[c].written BY <1>0, <1>8 DEF persist_subscriptions, IsTask, Task
  <2>2. ~t.written
    <3>. HIDE DEF Plans, Book
    <3>. QED BY <2>1 DEF Task
  <2>3. Becomes(c, t) /\ UNCHANGED <<disk, tmp>> BY <1>8 DEF persist_subscriptions
  <2>. HIDE DEF t
  <2>. QED BY <2>2, <2>3
<1>9. ASSUME PutBack(c) \/ WriteFails(c)
      PROVE \E t : Becomes(c, t) /\ ~t.written /\ UNCHANGED <<disk, tmp>>
  <2>1. Becomes(c, Done) /\ UNCHANGED <<disk, tmp>> BY <1>9 DEF PutBack, WriteFails
  <2>2. ~Done.written BY DoneIs
  <2>. HIDE DEF Done
  <2>. QED BY <2>1, <2>2
<1>. QED BY <1>1, <1>2, <1>3, <1>4, <1>5, <1>6, <1>7, <1>8, <1>9,
           Setting, Adding, Deleting, Removing

LEMMA AloneKept ==
    ASSUME BookShape, Alone, [BookNext]_bookVars PROVE Alone'
<1>1. CASE UNCHANGED bookVars BY <1>1 DEF bookVars, Alone, Holds, Copy
<1>2. ASSUME NEW c \in Command, NEW t, Becomes(c, t), ~t.written, UNCHANGED <<disk, tmp>>
      PROVE  Alone'
  <2>. DEFINE F == {}
  <2>1. (\A g \in File \ F : tmp'[g] = tmp[g]) /\ \A g \in F : Holds(c, g) BY <1>2
  <2>. HIDE DEF F
  <2>. QED BY <1>2, <2>1, AloneStep
<1>3. ASSUME NEW c \in Command, NEW f \in File, Write(c, f) PROVE Alone'
  <2>1. Writes(c, f) BY <1>3, Writing
  <2>2. Holds(c, f) BY <2>1, FirstIsHeld DEF Writes
  <2>3. \A d \in Command : \A g : Holds(d, g)' <=> Holds(d, g) BY <2>1 DEF Writes, Holds, Pending
  <2>4. /\ tmp'[f] = {Copy(c)[f]} /\ \A g \in File \ {f} : tmp'[g] = tmp[g]
    BY <2>1 DEF Writes, BookShape
  <2>5. SUFFICES ASSUME NEW g \in File, g \notin raced', NEW d \in Command, Holds(d, g)'
                 PROVE  /\ \A e \in Command : Holds(e, g)' => e = d
                        /\ (task'[d].written /\ Head(task'[d].todo) = g)
                             => tmp'[g] = {(CHOOSE m \in task'[d].copy : TRUE)[g]}
    BY DEF Alone, Copy
  <2>6. Holds(d, g) /\ g \notin raced BY <2>1, <2>3, <2>5 DEF Writes
  <2>7. \A e \in Command : Holds(e, g)' => e = d BY <2>3, <2>6 DEF Alone
  <2>8. CASE g = f
    <3>1. d = c BY <2>2, <2>6, <2>8 DEF Alone
    <3>2. task'[d].copy = task[c].copy BY <2>1, <3>1 DEF Writes
    <3>. QED BY <2>4, <2>7, <2>8, <3>2 DEF Copy
  <2>9. CASE g # f
    <3>1. CASE d = c BY <2>1, <2>7, <2>9, <3>1 DEF Writes
    <3>2. CASE d # c BY <2>1, <2>4, <2>6, <2>7, <2>9, <3>2 DEF Writes, Alone, Copy
    <3>. QED BY <3>1, <3>2
  <2>. QED BY <2>8, <2>9
<1>4. ASSUME NEW c \in Command, NEW f \in File, atomic_write(c, f) PROVE Alone'
  <2>1. CASE Finds(c) BY <2>1 DEF Finds, Alone
  <2>2. CASE Renames(c, f)
    <3>1. Becomes(c, AfterSave(task[c])) BY <2>2 DEF Renames
    <3>2. ~AfterSave(task[c]).written BY <2>2, SavedIs DEF Renames, BookShape
    <3>3. Holds(c, f) BY <2>2, FirstIsHeld DEF Renames
    <3>. DEFINE F == {f}
                t == AfterSave(task[c])
    <3>4. (\A g \in File \ F : tmp'[g] = tmp[g]) /\ \A g \in F : Holds(c, g)
      BY <2>2, <3>3 DEF Renames
    <3>5. Becomes(c, t) /\ ~t.written BY <3>1, <3>2
    <3>. HIDE DEF F, t
    <3>. QED BY <3>4, <3>5, AloneStep
  <2>. QED BY <1>4, <2>1, <2>2, Renaming
<1>5. CASE LoadBook
  <2>1. \A c \in Command : task'[c] = Done BY <1>5 DEF LoadBook
  <2>2. \A c \in Command : \A f : ~Holds(c, f)' BY <2>1, IsDone, DoneIs, PlanFacts DEF Holds
  <2>. QED BY <2>2 DEF Alone
<1>. QED BY <1>1, <1>2, <1>3, <1>4, <1>5, TaskOnly DEF BookNext

------------------------------------------------------------------------------
(* When nothing fails, what is held is what is shown.                      *)
LEMMA FreshMine ==
    ASSUME Alone', NEW f \in File, f \notin raced', NEW c \in Command,
           f \in Pending(task'[c]), NEW x, task'[c].copy = {x},
           PutsBack(task'[c]) => (task'[c].todo = <<"memory">> => disk'[f] = x[f]),
           ~PutsBack(task'[c]) => x[f] = memory'[f]
    PROVE  FreshFile(f)'
<1>1. Holds(c, f)' BY DEF Holds
<1>2. \A d \in Command : Holds(d, f)' => d = c BY <1>1 DEF Alone
<1>3. Copy(c)' = x BY Only DEF Copy
<1>. QED BY <1>1, <1>2, <1>3 DEF FreshFile, PutsBack

LEMMA FreshOthers ==
    ASSUME BookShape, NEW f \in File, FreshFile(f), NEW c \in Command, NEW t, Becomes(c, t),
           f \notin Pending(t), f \notin Pending(task[c]),
           memory'[f] = memory[f], disk'[f] = disk[f]
    PROVE  FreshFile(f)'
<1>1. task'[c] = t /\ \A d \in Command \ {c} : task'[d] = task[d] BY Updates
<1>2. ~Holds(c, f) /\ ~Holds(c, f)' BY <1>1 DEF Holds
<1>3. \A d \in Command \ {c} : (Holds(d, f)' <=> Holds(d, f)) /\ Copy(d)' = Copy(d)
  BY <1>1 DEF Holds, Copy
<1>4. (\A d \in Command : ~Holds(d, f)') <=> (\A d \in Command : ~Holds(d, f))
  BY <1>2, <1>3
<1>5. CASE \A d \in Command : ~Holds(d, f) BY <1>4, <1>5 DEF FreshFile
<1>6. CASE ~\A d \in Command : ~Holds(d, f)
  <2>1. SUFFICES ASSUME NEW d \in Command, Holds(d, f)'
                 PROVE  IF PutsBack(task'[d]) THEN task'[d].todo = <<"memory">> => disk'[f] = Copy(d)'[f]
                        ELSE Copy(d)'[f] = memory'[f]
    BY <1>4, <1>6 DEF FreshFile, PutsBack
  <2>2. d # c /\ Holds(d, f) /\ task'[d] = task[d] /\ Copy(d)' = Copy(d)
    BY <1>1, <1>2, <1>3, <2>1
  <2>3. IF PutsBack(task[d]) THEN task[d].todo = <<"memory">> => disk[f] = Copy(d)[f]
        ELSE Copy(d)[f] = memory[f]
    BY <1>6, <2>2 DEF FreshFile
  <2>. HIDE DEF Copy
  <2>. QED BY <2>2, <2>3
<1>. QED BY <1>5, <1>6

LEMMA FreshGone ==
    ASSUME BookShape, Alone, NEW f \in File, f \notin raced', NEW c \in Command, Holds(c, f),
           NEW t, Becomes(c, t), f \notin Pending(t), disk'[f] = memory'[f]
    PROVE  FreshFile(f)'
<1>1. /\ task'[c] = t
      /\ \A d \in Command \ {c} : task'[d] = task[d]
      /\ raced \subseteq raced'
  BY Updates
<1>2. \A d \in Command : Holds(d, f) => d = c BY <1>1 DEF Alone
<1>3. \A d \in Command : ~Holds(d, f)' BY <1>1, <1>2 DEF Holds
<1>. QED BY <1>3 DEF FreshFile

(* Who holds f, and that it is fresh, where a step leaves c no more to     *)
(* copy.                                                                   *)
LEMMA FreshBefore ==
    ASSUME BookShape, FreshOK, breaks = 0, NEW f \in File, f \notin raced',
           NEW c \in Command, NEW t, Becomes(c, t), ~Recopies(task[c], f),
           \A d \in Command : ~Recopies(task'[d], f)
    PROVE  FreshFile(f) /\ f \notin raced
<1>1. /\ \A d \in Command \ {c} : task'[d] = task[d]
      /\ raced \subseteq raced'
  BY Updates
<1>2. \A d \in Command : ~Recopies(task[d], f) BY <1>1
<1>. QED BY <1>1, <1>2 DEF FreshOK

LEMMA FreshChange ==
    ASSUME BookShape, Alone', FreshOK, NEW c \in Command, NEW t, Becomes(c, t),
           task[c] = Done, breaks' = breaks, disk' = disk, NEW x, t.copy = {x},
           PutsBack(t) => t.todo # <<"memory">>,
           ~PutsBack(t) => x = memory',
           \A f \in File \ Pending(t) : memory'[f] = memory[f]
    PROVE  FreshOK'
<1>1. SUFFICES ASSUME breaks' = 0, NEW f \in File, f \notin raced',
                      \A d \in Command : ~Recopies(task'[d], f)
               PROVE  FreshFile(f)'
  BY DEF FreshOK, Recopies
<1>2. task'[c] = t BY Updates
<1>3. CASE f \in Pending(t) BY <1>1, <1>2, <1>3, FreshMine
<1>4. CASE f \notin Pending(t)
  <2>1. Pending(task[c]) = {} BY DoneIs, IsDone, PlanFacts
  <2>2. ~Recopies(task[c], f) BY DoneIs DEF Recopies
  <2>3. FreshFile(f) BY <1>1, <2>2, FreshBefore
  <2>. QED BY <1>4, <2>1, <2>3, FreshOthers
<1>. QED BY <1>3, <1>4

LEMMA FreshCommands ==
    ASSUME BookShape, Alone', FreshOK, NEW c \in Command,
           \/ \E n \in Link : select_node(c, n) \/ add_manual_node(c, n) \/ delete_node(c, n)
           \/ set_mode(c)
           \/ \E s \in Source : remove_subscription(c, s)
    PROVE  FreshOK'
<1>1. /\ <<"settings", "memory">> \in Plans /\ <<"settings", "memory">> # <<>>
      /\ <<"nodes", "settings">> \in Plans /\ <<"nodes", "settings">> # <<>>
      /\ <<"nodes", "subscriptions">> \in Plans /\ <<"nodes", "subscriptions">> # <<>>
  BY DEF Plans
<1>2. ASSUME NEW m, SettingsChange(c, m) PROVE FreshOK'
  <2>1. PICK t : t = Saving(<<"settings", "memory">>, m) OBVIOUS
  <2>2. t.todo = <<"settings", "memory">> /\ t.copy = {m}
    BY <2>1 DEF Saving
  <2>3. PutsBack(t) /\ t.todo # <<"memory">> BY <2>2 DEF PutsBack
  <2>4. /\ Becomes(c, t) /\ task[c] = Done /\ breaks' = breaks /\ disk' = disk
        /\ memory' = memory
    BY <1>2, <2>1 DEF SettingsChange
  <2>. QED BY <2>2, <2>3, <2>4, FreshChange
<1>3. ASSUME NodesChange(c) PROVE FreshOK'
  <2>1. PICK t : t = Saving(<<"nodes", "settings">>, memory') OBVIOUS
  <2>2. t.todo = <<"nodes", "settings">> /\ t.copy = {memory'} /\ IsTask(t)
    <3>1. IsTask(Saving(<<"nodes", "settings">>, memory')) BY <1>1, <1>3, SavingIs DEF NodesChange
    <3>2. t.todo = <<"nodes", "settings">> /\ t.copy = {memory'} BY <2>1 DEF Saving
    <3>. HIDE DEF Saving
    <3>. QED BY <2>1, <3>1, <3>2
  <2>3. ~PutsBack(t) BY <2>2 DEF PutsBack
  <2>4. Pending(t) = {"nodes", "settings"} BY <2>2, PlanFacts
  <2>5. /\ Becomes(c, t) /\ task[c] = Done /\ breaks' = breaks /\ disk' = disk
        /\ memory'.subscriptions = memory.subscriptions
    BY <1>3, <2>1 DEF NodesChange
  <2>6. \A f \in File \ Pending(t) : memory'[f] = memory[f] BY <2>4, <2>5 DEF File
  <2>. QED BY <2>2, <2>3, <2>5, <2>6, FreshChange
<1>4. ASSUME NEW s \in Source, Removal(c, s) PROVE FreshOK'
  <2>1. PICK t : t = Saving(<<"nodes", "subscriptions">>, memory') OBVIOUS
  <2>2. t.todo = <<"nodes", "subscriptions">> /\ t.copy = {memory'} /\ IsTask(t)
    <3>1. IsTask(Saving(<<"nodes", "subscriptions">>, memory')) BY <1>1, <1>4, SavingIs DEF Removal
    <3>2. t.todo = <<"nodes", "subscriptions">> /\ t.copy = {memory'} BY <2>1 DEF Saving
    <3>. HIDE DEF Saving
    <3>. QED BY <2>1, <3>1, <3>2
  <2>3. ~PutsBack(t) BY <2>2 DEF PutsBack
  <2>4. Pending(t) = {"nodes", "subscriptions"} BY <2>2, PlanFacts
  <2>5. /\ Becomes(c, t) /\ task[c] = Done /\ breaks' = breaks /\ disk' = disk
        /\ memory'.settings = memory.settings
    BY <1>4, <2>1 DEF Removal
  <2>6. \A f \in File \ Pending(t) : memory'[f] = memory[f] BY <2>4, <2>5 DEF File
  <2>. QED BY <2>2, <2>3, <2>5, <2>6, FreshChange
<1>. QED BY <1>2, <1>3, <1>4, Setting, Adding, Deleting, Removing

(* While a command has all it saves still to copy, nothing is claimed.     *)
LEMMA FreshToCome ==
    ASSUME BookShape, NEW c \in Command, \A f \in File : Recopies(task'[c], f)
    PROVE  FreshOK'
  BY DEF FreshOK, Recopies

LEMMA FreshRefresh ==
    ASSUME BookShape, NEW c \in Command,
           \/ \E s \in Source : add_subscription(c, s) \/ Fetched(c, s)
           \/ \E targets \in SUBSET Source : refresh_subscriptions(c, targets)
           \/ Settled(c)
    PROVE  FreshOK'
<1>0. IsTask(task[c]) BY DEF BookShape
<1>1. ASSUME NEW s \in Source, add_subscription(c, s) PROVE FreshOK'
  <2>1. PICK t : t = [Done EXCEPT !.what = "add", !.targets = {s}] OBVIOUS
  <2>2. t.what = "add" BY <2>1, AddingIs
  <2>3. task'[c] = t BY <1>1, <2>1, Updates DEF add_subscription
  <2>. QED BY <2>2, <2>3, FreshToCome DEF Recopies
<1>2. ASSUME NEW s \in Source, Fetched(c, s) PROVE FreshOK'
  <2>1. PICK t : t = [task[c] EXCEPT !.targets = @ \ {s}] OBVIOUS
  <2>2. task[c] \in Task /\ task[c].what = "refresh" BY <1>0, <1>2 DEF Fetched, IsTask
  <2>3. t.what = "refresh"
    <3>. HIDE DEF Plans, Book
    <3>. QED BY <2>1, <2>2 DEF Task
  <2>4. task'[c] = t BY <1>2, <2>1, Updates DEF Fetched
  <2>. QED BY <2>3, <2>4, FreshToCome DEF Recopies
<1>3. ASSUME NEW targets \in SUBSET Source, refresh_subscriptions(c, targets) PROVE FreshOK'
  <2>1. PICK t : t = Fetching(targets) OBVIOUS
  <2>2. t.what = "refresh" BY <2>1, FetchingIs
  <2>3. task'[c] = t BY <1>3, <2>1, Updates DEF refresh_subscriptions
  <2>. QED BY <2>2, <2>3, FreshToCome DEF Recopies
<1>4. CASE Settled(c)
  <2>1. PICK t : t = [Done EXCEPT !.what = "settled"] OBVIOUS
  <2>2. t.what = "settled" /\ t.todo = <<>> BY <2>1, SettledIs
  <2>3. task'[c] = t BY <1>4, <2>1, Updates DEF Settled
  <2>. QED BY <2>2, <2>3, FreshToCome DEF Recopies
<1>. QED BY <1>1, <1>2, <1>3, <1>4

LEMMA FreshPersist ==
    ASSUME BookShape, Alone', FreshOK, NEW c \in Command, persist_subscriptions(c)
    PROVE  FreshOK'
<1>1. PICK t : t = [task[c] EXCEPT !.todo = <<"subscriptions">>, !.copy = {memory}] OBVIOUS
<1>2. task[c] \in Task BY DEF BookShape, IsTask
<1>3. <<"subscriptions">> \in Plans BY DEF Plans
<1>4. t.what = task[c].what /\ t.todo = <<"subscriptions">> /\ t.copy = {memory}
  <2>. HIDE DEF Plans, Book
  <2>. QED BY <1>1, <1>2, <1>3 DEF Task
<1>5. Becomes(c, t) /\ t.what \in {"add", "settled"} /\ memory' = memory
  BY <1>1, <1>4 DEF persist_subscriptions
<1>6. task'[c] = t BY <1>5, Updates
<1>7. SUFFICES ASSUME NEW f \in File, f \notin raced', ~Recopies(t, f) PROVE FreshFile(f)'
  BY <1>6 DEF FreshOK, Recopies
<1>8. f = "subscriptions" /\ ~PutsBack(t) BY <1>4, <1>5, <1>7 DEF Recopies, PutsBack
<1>9. f \in Pending(t) BY <1>4, <1>8 DEF Pending
<1>. QED BY <1>4, <1>5, <1>6, <1>7, <1>8, <1>9, FreshMine

LEMMA FreshPutBack ==
    ASSUME BookShape, Alone, FreshOK, NEW c \in Command, PutBack(c)
    PROVE  FreshOK'
<1>1. SUFFICES ASSUME breaks' = 0, NEW f \in File, f \notin raced',
                      \A d \in Command : ~Recopies(task'[d], f)
               PROVE  FreshFile(f)'
  BY DEF FreshOK, Recopies
<1>2. PICK t : t = Done OBVIOUS
<1>3. Becomes(c, t) /\ breaks = 0 /\ disk' = disk BY <1>1, <1>2 DEF PutBack
<1>4. task[c].todo = <<"memory">> /\ IsTask(task[c]) BY DEF PutBack, BookShape
<1>5. task[c].what = "save" /\ PutsBack(task[c]) BY <1>4 DEF IsTask, Task, PutsBack
<1>6. FreshFile(f) BY <1>1, <1>3, <1>5, FreshBefore DEF Recopies
<1>7. Pending(t) = {} BY <1>2, IsDone, DoneIs, PlanFacts
<1>8. Pending(task[c]) = {"settings"} BY <1>4, <1>5, PlanFacts
<1>9. SameBook /\ memory'.settings = Copy(c).settings BY PuttingBack
<1>10. CASE f = "settings"
  <2>1. Holds(c, f) BY <1>8, <1>10 DEF Holds
  <2>2. disk[f] = Copy(c)[f] BY <1>4, <1>5, <1>6, <2>1 DEF FreshFile
  <2>3. disk'[f] = memory'[f]
    <3>. HIDE DEF Copy
    <3>. QED BY <1>3, <1>9, <1>10, <2>2
  <2>. QED BY <1>1, <1>3, <1>7, <2>1, <2>3, FreshGone
<1>11. CASE f # "settings"
  <2>1. memory'[f] = memory[f] BY <1>9, <1>11 DEF SameBook, File
  <2>. QED BY <1>3, <1>6, <1>7, <1>8, <1>11, <2>1, FreshOthers
<1>. QED BY <1>10, <1>11

LEMMA FreshWrite ==
    ASSUME BookShape, Alone, FreshOK, NEW c \in Command, NEW f \in File, Writes(c, f)
    PROVE  FreshOK'
<1>1. /\ \A d \in Command : /\ task'[d].what = task[d].what /\ task'[d].todo = task[d].todo
                            /\ task'[d].copy = task[d].copy
      /\ UNCHANGED <<memory, disk, raced, breaks>>
  BY DEF Writes
<1>2. \A d \in Command : \A g :
        /\ Holds(d, g)' <=> Holds(d, g)
        /\ Recopies(task'[d], g) <=> Recopies(task[d], g)
  BY <1>1 DEF Holds, Pending, Recopies
<1>3. \A d \in Command : /\ Copy(d)' = Copy(d)
                         /\ PutsBack(task'[d]) <=> PutsBack(task[d])
  BY <1>1 DEF Copy, PutsBack
<1>4. SUFFICES ASSUME breaks' = 0, NEW g \in File, g \notin raced',
                      \A d \in Command : ~Recopies(task'[d], g)
               PROVE  FreshFile(g)'
  BY DEF FreshOK, Recopies
<1>5. FreshFile(g) BY <1>1, <1>2, <1>4 DEF FreshOK
<1>6. CASE \A d \in Command : ~Holds(d, g) BY <1>1, <1>2, <1>5, <1>6 DEF FreshFile
<1>7. CASE ~\A d \in Command : ~Holds(d, g)
  <2>1. SUFFICES ASSUME NEW d \in Command, Holds(d, g)'
                 PROVE  IF PutsBack(task'[d]) THEN task'[d].todo = <<"memory">> => disk'[g] = Copy(d)'[g]
                        ELSE Copy(d)'[g] = memory'[g]
    BY <1>2, <1>7 DEF FreshFile, PutsBack
  <2>2. IF PutsBack(task[d]) THEN task[d].todo = <<"memory">> => disk[g] = Copy(d)[g]
        ELSE Copy(d)[g] = memory[g]
    BY <1>2, <1>5, <1>7, <2>1 DEF FreshFile
  <2>. HIDE DEF Copy
  <2>. QED BY <1>1, <1>3, <2>2
<1>. QED BY <1>6, <1>7

LEMMA FreshRename ==
    ASSUME BookShape, Alone, Alone', FreshOK, NEW c \in Command, NEW f0 \in File, Renames(c, f0)
    PROVE  FreshOK'
<1>1. SUFFICES ASSUME breaks' = 0, NEW f \in File, f \notin raced',
                      \A d \in Command : ~Recopies(task'[d], f)
               PROVE  FreshFile(f)'
  BY DEF FreshOK, Recopies
<1>. DEFINE t == AfterSave(task[c])
<1>2. /\ Becomes(c, t) /\ memory' = memory /\ breaks = 0
      /\ disk'[f0] \in tmp[f0] /\ \A g \in File \ {f0} : disk'[g] = disk[g]
      /\ task[c].written /\ Head(task[c].todo) = f0 /\ task[c].todo # <<>>
  BY <1>1 DEF Renames
<1>3. IsTask(task[c]) /\ memory \in Book BY DEF BookShape
<1>4. /\ IsTask(t)
      /\ \/ /\ Tail(task[c].todo) # <<>> /\ task[c].what = "save" /\ t.what = "save"
            /\ t.todo = Tail(task[c].todo) /\ t.copy = task[c].copy
         \/ task[c].what = "add" /\ t = Fetching(task[c].targets)
         \/ /\ task[c].todo = <<"subscriptions">> /\ task[c].what = "settled"
            /\ t = Saving(<<"nodes", "settings">>, memory)
         \/ Tail(task[c].todo) = <<>> /\ task[c].what = "save" /\ t = Done
  BY <1>2, <1>3, SavedIs
<1>. HIDE DEF t
<1>5. task'[c] = t BY <1>2, Updates
<1>6. Holds(c, f0) BY <1>2, FirstIsHeld
<1>7. task[c].copy = {Copy(c)} BY <1>2, CopyIs
<1>8. raced \subseteq raced' BY <1>2, Updates
<1>9. f = f0 => disk'[f] = Copy(c)[f]
  <2>1. f = f0 => tmp[f] = {Copy(c)[f]} BY <1>1, <1>2, <1>6, <1>8 DEF Alone
  <2>. QED BY <1>2, <2>1
<1>10. /\ task[c].todo = <<"settings">> => f0 = "settings" /\ Tail(task[c].todo) = <<>>
       /\ task[c].todo = <<"subscriptions">> => f0 = "subscriptions" /\ Tail(task[c].todo) = <<>>
       /\ task[c].todo = <<"nodes", "settings">> =>
            f0 = "nodes" /\ Tail(task[c].todo) = <<"settings">>
       /\ task[c].todo = <<"nodes", "subscriptions">> =>
            f0 = "nodes" /\ Tail(task[c].todo) = <<"subscriptions">>
       /\ task[c].todo = <<"settings", "memory">> =>
            f0 = "settings" /\ Tail(task[c].todo) = <<"memory">>
       /\ task[c].todo # <<"memory">> /\ task[c].todo \in Plans
  BY <1>2, <1>3, PlanSteps DEF IsTask, Task
<1>11. ASSUME ~Recopies(task[c], f) PROVE FreshFile(f) BY <1>1, <1>2, <1>11, FreshBefore
<1>12. ASSUME FreshFile(f), Holds(c, f), ~PutsBack(task[c]) PROVE Copy(c)[f] = memory[f]
  BY <1>12 DEF FreshFile
<1>13. ASSUME FreshFile(f), f \notin Pending(t), f = f0, ~PutsBack(task[c]) PROVE FreshFile(f)'
  <2>1. Copy(c)[f] = memory[f] BY <1>6, <1>12, <1>13
  <2>2. disk'[f] = memory'[f]
    <3>. HIDE DEF Copy
    <3>. QED BY <1>2, <1>9, <1>13, <2>1
  <2>. QED BY <1>1, <1>2, <1>6, <1>13, <2>2, FreshGone
<1>14. ASSUME FreshFile(f), f \notin Pending(t), f # f0, f \notin Pending(task[c]) PROVE FreshFile(f)'
  BY <1>2, <1>14, FreshOthers
<1>a. CASE /\ Tail(task[c].todo) # <<>> /\ task[c].what = "save" /\ t.what = "save"
           /\ t.todo = Tail(task[c].todo) /\ t.copy = task[c].copy
  <2>1. FreshFile(f) BY <1>a, <1>11 DEF Recopies
  <2>2. CASE PutsBack(task[c])
    <3>1. t.todo = <<"memory">> /\ f0 = "settings" BY <1>a, <1>10, <2>2 DEF PutsBack
    <3>2. Pending(t) = {"settings"} /\ Pending(task[c]) = {"settings"} /\ PutsBack(t)
      BY <1>3, <1>4, <2>2, <3>1, PlanFacts DEF PutsBack
    <3>3. CASE f = f0
      <4>. DEFINE x == Copy(c)
      <4>1. t.copy = {x} /\ disk'[f] = x[f] BY <1>a, <1>7, <1>9, <3>3
      <4>. HIDE DEF x
      <4>. QED BY <1>1, <1>5, <3>1, <3>2, <3>3, <4>1, FreshMine
    <3>. QED BY <1>14, <2>1, <3>1, <3>2, <3>3
  <2>3. CASE ~PutsBack(task[c])
    <3>1. /\ task[c].todo \in {<<"nodes", "settings">>, <<"nodes", "subscriptions">>}
          /\ f0 = "nodes" /\ f0 \notin Pending(t) /\ ~PutsBack(t)
          /\ Pending(task[c]) = Pending(t) \cup {f0}
      <4>1. task[c].todo \in {<<"nodes", "settings">>, <<"nodes", "subscriptions">>}
        BY <1>a, <1>10, <2>3 DEF Plans, PutsBack
      <4>2. CASE task[c].todo = <<"nodes", "settings">>
        <5>1. t.todo = <<"settings">> /\ f0 = "nodes" BY <1>a, <1>10, <4>2
        <5>. QED BY <1>3, <1>4, <4>1, <4>2, <5>1, PlanFacts DEF PutsBack
      <4>3. CASE task[c].todo = <<"nodes", "subscriptions">>
        <5>1. t.todo = <<"subscriptions">> /\ f0 = "nodes" BY <1>a, <1>10, <4>3
        <5>. QED BY <1>3, <1>4, <4>1, <4>3, <5>1, PlanFacts DEF PutsBack
      <4>. QED BY <4>1, <4>2, <4>3
    <3>2. CASE f \in Pending(t)
      <4>. DEFINE x == Copy(c)
      <4>1. Holds(c, f) BY <3>1, <3>2 DEF Holds
      <4>2. t.copy = {x} /\ x[f] = memory'[f] BY <1>2, <1>a, <1>7, <1>12, <2>1, <2>3, <4>1
      <4>. HIDE DEF x
      <4>. QED BY <1>1, <1>5, <3>1, <3>2, <4>2, FreshMine
    <3>. QED BY <1>13, <1>14, <2>1, <2>3, <3>1, <3>2
  <2>. QED BY <2>2, <2>3
<1>b. CASE task[c].what = "add" /\ t = Fetching(task[c].targets)
  <2>1. task[c].targets \in SUBSET Source BY <1>3 DEF IsTask, Task
  <2>2. t.what = "refresh" BY <1>b, <2>1, FetchingIs
  <2>. QED BY <1>1, <1>5, <2>2 DEF Recopies
<1>c. CASE /\ task[c].todo = <<"subscriptions">> /\ task[c].what = "settled"
           /\ t = Saving(<<"nodes", "settings">>, memory)
  <2>1. t.todo = <<"nodes", "settings">> /\ t.copy = {memory} BY <1>c DEF Saving
  <2>2. Pending(t) = {"nodes", "settings"} /\ ~PutsBack(t) /\ ~PutsBack(task[c])
    BY <1>4, <1>c, <2>1, PlanFacts DEF PutsBack
  <2>3. CASE f \in Pending(t) BY <1>1, <1>2, <1>5, <2>1, <2>2, <2>3, FreshMine
  <2>4. CASE f \notin Pending(t)
    <3>1. f = "subscriptions" /\ f0 = "subscriptions" BY <1>c, <1>10, <2>2, <2>4 DEF File
    <3>2. FreshFile(f) BY <1>c, <1>11, <3>1 DEF Recopies
    <3>. QED BY <1>13, <2>2, <2>4, <3>1, <3>2
  <2>. QED BY <2>3, <2>4
<1>d. CASE Tail(task[c].todo) = <<>> /\ task[c].what = "save" /\ t = Done
  <2>1. FreshFile(f) BY <1>d, <1>11 DEF Recopies
  <2>2. Pending(t) = {} BY <1>4, <1>d, DoneIs, PlanFacts
  <2>3. task[c].todo \in {<<"settings">>, <<"subscriptions">>}
    <3>1. <<"settings">> # <<>> /\ <<"subscriptions">> # <<>> /\ <<"memory">> # <<>> OBVIOUS
    <3>. DEFINE p == task[c].todo
    <3>2. p \in Plans /\ p # <<>> /\ p # <<"memory">> /\ p # <<"nodes", "settings">>
          /\ p # <<"nodes", "subscriptions">> /\ p # <<"settings", "memory">>
      BY <1>2, <1>10, <1>d, <3>1
    <3>. HIDE DEF p
    <3>3. p \in {<<"settings">>, <<"subscriptions">>} BY <3>2 DEF Plans
    <3>. QED BY <3>3 DEF p
  <2>4. ~PutsBack(task[c]) /\ Pending(task[c]) = {f0}
    BY <1>3, <1>10, <2>3, PlanFacts DEF PutsBack
  <2>. QED BY <1>13, <1>14, <2>1, <2>2, <2>4
<1>. QED BY <1>4, <1>a, <1>b, <1>c, <1>d

LEMMA FreshKept ==
    ASSUME BookShape, Alone, Alone', FreshOK, [BookNext]_bookVars PROVE FreshOK'
<1>1. CASE UNCHANGED bookVars
  BY <1>1 DEF bookVars, FreshOK, FreshFile, Recopies, Holds, Copy, PutsBack
<1>2. ASSUME LoadBook \/ \E c \in Command : WriteFails(c) PROVE FreshOK'
  BY <1>2 DEF LoadBook, WriteFails, FreshOK, BookShape
<1>3. ASSUME NEW c \in Command, NEW f \in File, atomic_write(c, f) PROVE FreshOK'
  <2>1. CASE Finds(c) BY <2>1 DEF Finds, FreshOK
  <2>2. CASE Renames(c, f) BY <2>2, FreshRename
  <2>. QED BY <1>3, <2>1, <2>2, Renaming
<1>. QED BY <1>1, <1>2, <1>3, Writing, FreshWrite, FreshCommands, FreshRefresh, FreshPersist,
           FreshPutBack DEF BookNext

LEMMA BookInits == ASSUME BookInit PROVE BookShape /\ Alone /\ FreshOK
<1>1. BookShape BY ShapeInit
<1>2. \A c \in Command : task[c] = Done BY DEF BookInit
<1>3. \A c \in Command : \A f : ~Holds(c, f) BY <1>2, IsDone, DoneIs, PlanFacts DEF Holds
<1>4. disk = memory BY DEF BookInit
<1>. QED BY <1>1, <1>3, <1>4 DEF Alone, FreshOK, FreshFile

LEMMA BookSteps ==
    ASSUME BookShape, Alone, FreshOK, [BookNext]_bookVars
    PROVE  BookShape' /\ Alone' /\ FreshOK'
BY Shaped, AloneKept, FreshKept

(* When no command is under way, the files say what the window shows, but  *)
(* for those two commands held copies of at once: no order of commands,    *)
(* refreshes and saves loses a change otherwise.                           *)
THEOREM SavedAsShown == BookSpec => []SavedIsShown
<1>1. BookInit => BookShape /\ Alone /\ FreshOK BY BookInits
<1>2. BookShape /\ Alone /\ FreshOK /\ [BookNext]_bookVars => BookShape' /\ Alone' /\ FreshOK'
  BY BookSteps
<1>3. BookShape /\ FreshOK => SavedIsShown
  <2>1. SUFFICES ASSUME BookShape, FreshOK, breaks = 0, \A c \in Command : task[c] = Done,
                        NEW f \in File \ raced
                 PROVE  disk[f] = memory[f]
    BY DEF SavedIsShown
  <2>2. \A c \in Command : ~Holds(c, f) BY <2>1, IsDone, DoneIs, PlanFacts DEF Holds
  <2>3. \A c \in Command : ~Recopies(task[c], f) BY <2>1, DoneIs DEF Recopies
  <2>4. FreshFile(f) BY <2>1, <2>3 DEF FreshOK
  <2>. QED BY <2>2, <2>4 DEF FreshFile
<1>. QED BY <1>1, <1>2, <1>3, PTL DEF BookSpec

------------------------------------------------------------------------------
(* No node outlives its subscription.                                      *)

(* What a command that saves nothing does to what is in memory and to its  *)
(* own task: nodes come from a subscription it refreshes or from nowhere,  *)
(* the subscriptions in gone are removed with their nodes, and a copy to   *)
(* save is one of the memory.                                              *)
Effect(c, t, gone) ==
    /\ Becomes(c, t) /\ breaks' = breaks /\ disk' = disk /\ orphaned \subseteq orphaned'
    /\ \A n \in memory'.nodes :
         \/ n \in memory.nodes \/ n.from = Manual
         \/ task[c].what = "refresh" /\ n.from \in task[c].targets
    /\ \A n \in memory'.nodes : n.from \notin gone
    /\ \A s \in memory'.subscriptions :
         s \in memory.subscriptions \/ (t.what = "add" /\ s \in t.targets)
    /\ memory.subscriptions \subseteq memory'.subscriptions \cup gone
    /\ \A d \in Command : gone \cap task[d].targets \subseteq orphaned'
    /\ gone # {} => "nodes" \in Pending(t) /\ "subscriptions" \in Pending(t)
    /\ t.targets \subseteq task[c].targets \cup memory'.subscriptions
    /\ t.what = "refresh" =>
         \A s \in t.targets : \/ task[c].what = "refresh" /\ s \in task[c].targets
                              \/ s \in memory.subscriptions \ BeingAdded \/ s \in orphaned'
    /\ task[c].what = "add" => t.what = "add" /\ t.targets = task[c].targets
    /\ "nodes" \notin Pending(task[c]) /\ "subscriptions" \notin Pending(task[c])
    /\ ("nodes" \in Pending(t) \/ "subscriptions" \in Pending(t)) => t.copy = {memory'}

(* Subscriptions being added stay so.                                      *)
LEMMA UnsavedGrows ==
    ASSUME BookShape, NEW c \in Command, NEW t, Becomes(c, t),
           task[c].what = "add" => t.what = "add" /\ t.targets = task[c].targets
    PROVE  /\ BeingAdded \subseteq BeingAdded'
           /\ t.what = "add" => t.targets \subseteq BeingAdded'
<1>1. task'[c] = t /\ \A d \in Command \ {c} : task'[d] = task[d] BY Updates
<1>2. ASSUME NEW s \in BeingAdded PROVE s \in BeingAdded'
  <2>1. PICK d \in Command : task[d].what = "add" /\ s \in task[d].targets BY <1>2 DEF BeingAdded
  <2>2. task'[d].what = "add" /\ s \in task'[d].targets BY <1>1, <2>1
  <2>. QED BY <2>2 DEF BeingAdded
<1>3. ASSUME t.what = "add", NEW s \in t.targets PROVE s \in BeingAdded'
  <2>1. task'[c].what = "add" /\ s \in task'[c].targets BY <1>1, <1>3
  <2>. QED BY <2>1 DEF BeingAdded
<1>. QED BY <1>2, <1>3

LEMMA OwnersAre == ASSUME NEW m, NEW n \in m.nodes PROVE n.from \in Owners(m)
  BY DEF Owners

LEMMA MemoryStep ==
    ASSUME BookShape, MemoryOK, NEW c \in Command, NEW t, NEW gone, Effect(c, t, gone)
    PROVE  MemoryOK'
<1>1. /\ task'[c] = t
      /\ \A d \in Command \ {c} : task'[d] = task[d]
      /\ raced \subseteq raced'
      /\ breaks' = breaks /\ orphaned \subseteq orphaned'
  BY Updates DEF Effect
<1>2. SUFFICES ASSUME raced' = {} \/ breaks' = 0
               PROVE  /\ \A n \in memory'.nodes : n.from \in memory'.subscriptions \cup orphaned' \cup {Manual}
                      /\ \A d \in Command : task'[d].targets
                           \subseteq memory'.subscriptions \cup orphaned' \cup {Manual}
  BY DEF MemoryOK, Within, Owners
<1>3. /\ \A n \in memory.nodes : n.from \in memory.subscriptions \cup orphaned \cup {Manual}
      /\ \A d \in Command : \A s \in task[d].targets :
           s \in memory.subscriptions \cup orphaned \cup {Manual}
  <2>0. raced = {} \/ breaks = 0 BY <1>1, <1>2
  <2>1. /\ Within(Owners(memory), memory)
        /\ \A d \in Command : Within(task[d].targets, memory)
    BY <2>0 DEF MemoryOK
  <2>. QED BY <2>1, OwnersAre DEF Within
<1>4. memory.subscriptions \subseteq memory'.subscriptions \cup gone BY DEF Effect
<1>5. \A n \in memory'.nodes : n.from \in memory'.subscriptions \cup orphaned' \cup {Manual}
  <2>1. \A n \in memory'.nodes : /\ n \in memory.nodes \/ n.from = Manual \/ n.from \in task[c].targets
                                 /\ n.from \notin gone
    BY DEF Effect
  <2>. QED BY <1>1, <1>3, <1>4, <2>1
<1>6. \A d \in Command : task[d].targets \subseteq memory'.subscriptions \cup orphaned' \cup {Manual}
  <2>1. \A d \in Command : gone \cap task[d].targets \subseteq orphaned' BY DEF Effect
  <2>. QED BY <1>1, <1>3, <1>4, <2>1
<1>7. t.targets \subseteq memory'.subscriptions \cup orphaned' \cup {Manual}
  BY <1>6 DEF Effect
<1>. QED BY <1>1, <1>5, <1>6, <1>7

LEMMA ListsStep ==
    ASSUME BookShape, NEW m, Lists(m), NEW c \in Command, NEW t, NEW gone, Effect(c, t, gone)
    PROVE  Lists(m)'
<1>. DEFINE all == m.subscriptions \cup orphaned' \cup {Manual}
<1>1. /\ task'[c] = t
      /\ \A d \in Command \ {c} : task'[d] = task[d]
      /\ orphaned \subseteq orphaned'
  BY Updates DEF Effect
<1>2. /\ \A s \in memory.subscriptions \ BeingAdded : s \in all
      /\ \A n \in memory.nodes : n.from \in all
      /\ \A d \in Command : task[d].what = "refresh" => \A s \in task[d].targets : s \in all
      /\ \A d \in Command : Holds(d, "nodes") =>
           \A k \in task[d].copy : \A n \in k.nodes : n.from \in all
  <2>1. /\ Within(memory.subscriptions \ BeingAdded, m) /\ Within(Owners(memory), m)
        /\ \A d \in Command : task[d].what = "refresh" => Within(task[d].targets, m)
        /\ \A d \in Command : Holds(d, "nodes") => \A k \in task[d].copy : Within(Owners(k), m)
    BY DEF Lists
  <2>2. ASSUME NEW S, Within(S, m), NEW s \in S PROVE s \in all
    <3>1. s \in m.subscriptions \cup orphaned \cup {Manual} BY <2>2 DEF Within
    <3>. QED BY <1>1, <3>1
  <2>. HIDE DEF all
  <2>. QED BY <2>1, <2>2, OwnersAre
<1>3. \A s \in (memory.subscriptions \ BeingAdded)' : s \in all
  <2>1. BeingAdded \subseteq BeingAdded' /\ (t.what = "add" => t.targets \subseteq BeingAdded')
    BY UnsavedGrows DEF Effect
  <2>2. \A s \in memory'.subscriptions :
          s \in memory.subscriptions \/ (t.what = "add" /\ s \in t.targets)
    BY DEF Effect
  <2>. HIDE DEF all
  <2>. QED BY <1>2, <2>1, <2>2
<1>4. \A n \in memory'.nodes : n.from \in all
  <2>1. \A n \in memory'.nodes : \/ n \in memory.nodes \/ n.from = Manual
                                 \/ task[c].what = "refresh" /\ n.from \in task[c].targets
    BY DEF Effect
  <2>2. Manual \in all OBVIOUS
  <2>. HIDE DEF all
  <2>. QED BY <1>2, <2>1, <2>2
<1>5. \A d \in Command : task'[d].what = "refresh" => \A s \in task'[d].targets : s \in all
  <2>1. ASSUME t.what = "refresh", NEW s \in t.targets PROVE s \in all
    <3>1. \/ task[c].what = "refresh" /\ s \in task[c].targets
          \/ s \in memory.subscriptions \ BeingAdded \/ s \in orphaned'
      BY <2>1 DEF Effect
    <3>2. orphaned' \subseteq all OBVIOUS
    <3>. HIDE DEF all
    <3>. QED BY <1>2, <3>1, <3>2
  <2>. HIDE DEF all
  <2>. QED BY <1>1, <1>2, <2>1
<1>6. \A d \in Command : Holds(d, "nodes")' =>
        \A k \in task'[d].copy : \A n \in k.nodes : n.from \in all
  <2>1. ASSUME "nodes" \in Pending(t), NEW k \in t.copy, NEW n \in k.nodes PROVE n.from \in all
    <3>1. t.copy = {memory'} BY <2>1 DEF Effect
    <3>. HIDE DEF all
    <3>. QED BY <1>4, <2>1, <3>1
  <2>. HIDE DEF all
  <2>. QED BY <1>1, <1>2, <2>1 DEF Holds
<1>7. Within((memory.subscriptions \ BeingAdded), m)' /\ Within(Owners(memory), m)'
  BY <1>3, <1>4 DEF Within, Owners
<1>8. \A d \in Command : task'[d].what = "refresh" => Within(task[d].targets, m)'
  BY <1>5 DEF Within
<1>9. \A d \in Command : Holds(d, "nodes")' => \A k \in task'[d].copy : Within(Owners(k), m)'
  BY <1>6 DEF Within, Owners
<1>. QED BY <1>7, <1>8, <1>9 DEF Lists

LEMMA DiskStep ==
    ASSUME BookShape, DiskOK, MemoryOK', NEW c \in Command, NEW t, NEW gone,
           Effect(c, t, gone), raced' = {}
    PROVE  DiskOK'
<1>1. /\ task'[c] = t
      /\ \A d \in Command \ {c} : task'[d] = task[d]
      /\ orphaned \subseteq orphaned'
      /\ \A d \in Command \ {c} : Pending(t) \cap Pending(task[d]) = {}
      /\ disk' = disk
  BY Updates DEF Effect
<1>2. \A m : Lists(m) => Lists(m)' BY ListsStep
<1>3. ASSUME NEW S, NEW m, Within(S, m) PROVE Within(S, m)'
  BY <1>1, <1>3 DEF Within
<1>4. /\ \A d \in Command \ {c} : \A f : Holds(d, f)' <=> Holds(d, f)
      /\ \A f : Holds(c, f)' <=> f \in Pending(t)
      /\ ~Holds(c, "nodes") /\ ~Holds(c, "subscriptions")
  BY <1>1 DEF Holds, Effect
<1>5. gone # {} => Holds(c, "nodes")' /\ Holds(c, "subscriptions")' BY <1>4 DEF Effect
<1>6. \A d \in Command \ {c} : (Holds(d, "nodes") \/ Holds(d, "subscriptions")) =>
        (Holds(d, "nodes") => "nodes" \notin Pending(t))
        /\ (Holds(d, "subscriptions") => "subscriptions" \notin Pending(t)) /\ gone = {}
  <2>1. \A d \in Command \ {c}, f \in File : Holds(d, f) => f \notin Pending(t) BY <1>1 DEF Holds
  <2>. QED BY <1>4, <1>5, <2>1 DEF File
<1>7. gone = {} => \A S : Within(S, memory) => Within(S, memory)'
  <2>1. gone = {} => memory.subscriptions \subseteq memory'.subscriptions BY DEF Effect
  <2>. QED BY <1>1, <2>1 DEF Within
<1>8. /\ Within(Owners(memory), memory)'
      /\ \A d \in Command : Within(task[d].targets, memory)'
  <2>1. MemoryOK' OBVIOUS
  <2>. QED BY <2>1 DEF MemoryOK
<1>9. t.copy = {memory'} \/ ("nodes" \notin Pending(t) /\ "subscriptions" \notin Pending(t))
  BY DEF Effect
<1>10. Within(Owners(disk), disk)' BY <1>1, <1>3 DEF DiskOK
<1>11. Lists(disk)'
  <2>1. PICK m : m = disk OBVIOUS
  <2>2. Lists(m)' BY <1>2, <2>1 DEF DiskOK
  <2>3. m = disk' BY <1>1, <2>1
  <2>. QED BY <2>2, <2>3 DEF Lists
<1>12. \A d \in Command : Holds(d, "nodes")' =>
         \A k \in task'[d].copy : Within(Owners(k), memory)'
  <2>1. ASSUME NEW d \in Command \ {c}, Holds(d, "nodes")', NEW k \in task'[d].copy
        PROVE  Within(Owners(k), memory)'
    <3>1. Within(Owners(k), memory) BY <1>1, <1>4, <2>1 DEF DiskOK
    <3>. QED BY <1>4, <1>6, <1>7, <2>1, <3>1
  <2>2. ASSUME Holds(c, "nodes")', NEW k \in task'[c].copy PROVE Within(Owners(k), memory)'
    <3>1. k = memory' BY <1>1, <1>4, <1>9, <2>2
    <3>. QED BY <1>8, <3>1
  <2>. QED BY <2>1, <2>2
<1>13. ASSUME Settles', gone = {}, Settles => Within(Owners(disk), memory)
       PROVE  Within(Owners(disk), memory)'
  <2>1. Settles BY <1>4, <1>13 DEF Settles
  <2>. QED BY <1>1, <1>7, <1>13, <2>1
<1>14. Settles' => Within(Owners(disk), memory)'
  BY <1>5, <1>13 DEF DiskOK, Settles
<1>15. ASSUME NEW d \in Command \ {c}, Holds(d, "subscriptions")', NEW k \in task'[d].copy
       PROVE  /\ Lists(k)' /\ Within(k.subscriptions, memory)' /\ Within(task[d].targets, k)'
              /\ ~Holds(d, "nodes")' => Within(Owners(disk), k)'
  <2>1. /\ Lists(k) /\ Within(k.subscriptions, memory) /\ Within(task[d].targets, k)
        /\ ~Holds(d, "nodes") => Within(Owners(disk), k)
    BY <1>1, <1>4, <1>15 DEF DiskOK
  <2>2. gone = {} BY <1>4, <1>6, <1>15
  <2>3. Within(task[d].targets, k)' BY <1>1, <2>1 DEF Within
  <2>4. ~Holds(d, "nodes")' => Within(Owners(disk), k)' BY <1>1, <1>3, <1>4, <2>1
  <2>. QED BY <1>2, <1>7, <2>1, <2>2, <2>3, <2>4
<1>16. ASSUME Holds(c, "subscriptions")', NEW k \in task'[c].copy
       PROVE  /\ Lists(k)' /\ Within(k.subscriptions, memory)' /\ Within(task[c].targets, k)'
              /\ ~Holds(c, "nodes")' => Within(Owners(disk), k)'
  <2>1. k = memory' BY <1>1, <1>4, <1>9, <1>16
  <2>2. Within(memory.subscriptions, memory)' BY DEF Within
  <2>3. Lists(memory)'
    <3>1. Within((memory.subscriptions \ BeingAdded), memory)' BY DEF Within
    <3>. QED BY <1>8, <1>12, <3>1 DEF Lists
  <2>4. ~Holds(c, "nodes")' => Within(Owners(disk), memory)'
    <3>1. ASSUME ~Holds(c, "nodes")' PROVE Settles
      <4>1. \A d \in Command \ {c} : ~Holds(d, "subscriptions") BY <1>4, <1>6, <1>16
      <4>. QED BY <1>4, <4>1 DEF Settles
    <3>2. ASSUME ~Holds(c, "nodes")' PROVE gone = {} BY <1>5, <3>2
    <3>3. ASSUME ~Holds(c, "nodes")' PROVE Within(Owners(disk), memory)
      BY <3>1, <3>3 DEF DiskOK
    <3>. QED BY <1>1, <1>7, <3>2, <3>3
  <2>. QED BY <1>8, <2>1, <2>2, <2>3, <2>4 DEF Lists, Within, Holds
<1>17. \A d \in Command : Holds(d, "subscriptions")' => \A k \in task'[d].copy :
         /\ Lists(k)' /\ Within(k.subscriptions, memory)' /\ Within(task[d].targets, k)'
         /\ ~Holds(d, "nodes")' => Within(Owners(disk), k)'
  BY <1>15, <1>16
<1>. QED BY <1>10, <1>11, <1>12, <1>14, <1>17 DEF DiskOK

LEMMA OwnedStep ==
    ASSUME BookShape, OwnedOK, NEW c \in Command, NEW t, NEW gone, Effect(c, t, gone)
    PROVE  OwnedOK'
<1>1. MemoryOK' BY MemoryStep DEF OwnedOK
<1>2. raced' = {} => raced = {}
  <2>1. raced \subseteq raced' BY Updates DEF Effect
  <2>. QED BY <2>1
<1>. QED BY <1>1, <1>2, DiskStep DEF OwnedOK

LEMMA OwnedCommands ==
    ASSUME BookShape, OwnedOK, NEW c \in Command,
           \/ \E n \in Link : select_node(c, n) \/ add_manual_node(c, n) \/ delete_node(c, n)
           \/ set_mode(c)
           \/ \E s \in Source : remove_subscription(c, s)
    PROVE  OwnedOK'
<1>1. /\ <<"settings", "memory">> \in Plans /\ <<"settings", "memory">> # <<>>
      /\ <<"nodes", "settings">> \in Plans /\ <<"nodes", "settings">> # <<>>
      /\ <<"nodes", "subscriptions">> \in Plans /\ <<"nodes", "subscriptions">> # <<>>
  BY DEF Plans
<1>2. task[c] = Done => /\ task[c].what = "none" /\ task[c].targets = {}
                        /\ "nodes" \notin Pending(task[c]) /\ "subscriptions" \notin Pending(task[c])
  BY DoneIs, IsDone, PlanFacts
<1>3. ASSUME NEW m, SettingsChange(c, m) PROVE OwnedOK'
  <2>1. PICK t : t = Saving(<<"settings", "memory">>, m) OBVIOUS
  <2>2. IsTask(Saving(<<"settings", "memory">>, m)) BY <1>1, <1>3, SavingIs DEF SettingsChange
  <2>3. t.what = "save" /\ t.todo = <<"settings", "memory">> /\ t.targets = {}
    BY <2>1 DEF Saving
  <2>4. Pending(t) = {"settings"}
    <3>1. IsTask(t) BY <2>1, <2>2
    <3>. QED BY <2>3, <3>1, PlanFacts DEF PutsBack
  <2>5. Effect(c, t, {}) BY <1>2, <1>3, <2>1, <2>3, <2>4 DEF SettingsChange, Effect
  <2>. QED BY <2>5, OwnedStep
<1>4. ASSUME NodesChange(c) PROVE OwnedOK'
  <2>1. PICK t : t = Saving(<<"nodes", "settings">>, memory') OBVIOUS
  <2>2. IsTask(Saving(<<"nodes", "settings">>, memory')) BY <1>1, <1>4, SavingIs DEF NodesChange
  <2>3. /\ t.what = "save" /\ t.todo = <<"nodes", "settings">> /\ t.targets = {}
        /\ t.copy = {memory'}
    BY <2>1 DEF Saving
  <2>5. Effect(c, t, {}) BY <1>2, <1>4, <2>1, <2>3 DEF NodesChange, Effect
  <2>. QED BY <2>5, OwnedStep
<1>5. ASSUME NEW s \in Source, Removal(c, s) PROVE OwnedOK'
  <2>1. PICK t : t = Saving(<<"nodes", "subscriptions">>, memory') OBVIOUS
  <2>2. IsTask(Saving(<<"nodes", "subscriptions">>, memory')) BY <1>1, <1>5, SavingIs DEF Removal
  <2>3. /\ t.what = "save" /\ t.todo = <<"nodes", "subscriptions">> /\ t.targets = {}
        /\ t.copy = {memory'}
    BY <2>1 DEF Saving
  <2>4. Pending(t) = {"nodes", "subscriptions"}
    <3>1. IsTask(t) BY <2>1, <2>2
    <3>. QED BY <2>3, <3>1, PlanFacts
  <2>5. Effect(c, t, {s}) BY <1>2, <1>5, <2>1, <2>3, <2>4 DEF Removal, Effect
  <2>. QED BY <2>5, OwnedStep
<1>. QED BY <1>3, <1>4, <1>5, Setting, Adding, Deleting, Removing

LEMMA OwnedRefresh ==
    ASSUME BookShape, OwnedOK, NEW c \in Command,
           \/ \E s \in Source : add_subscription(c, s) \/ Fetched(c, s)
           \/ \E targets \in SUBSET Source : refresh_subscriptions(c, targets)
           \/ Settled(c) \/ persist_subscriptions(c) \/ PutBack(c)
    PROVE  OwnedOK'
<1>0. IsTask(task[c]) /\ task[c] \in Task BY DEF BookShape, IsTask
<1>1. task[c] = Done => /\ task[c].what = "none" /\ task[c].targets = {} /\ task[c].todo = <<>>
  BY DoneIs
<1>2. task[c].todo = <<>> => "nodes" \notin Pending(task[c]) /\ "subscriptions" \notin Pending(task[c])
  BY <1>0, PlanFacts
<1>3. ASSUME NEW s \in Source, add_subscription(c, s) PROVE OwnedOK'
  <2>1. PICK t : t = [Done EXCEPT !.what = "add", !.targets = {s}] OBVIOUS
  <2>2. t.what = "add" /\ t.todo = <<>> /\ t.targets = {s} /\ IsTask(t) BY <2>1, AddingIs
  <2>3. Pending(t) = {} BY <2>2, PlanFacts
  <2>4. /\ Becomes(c, t) /\ breaks' = breaks /\ disk' = disk /\ orphaned' = orphaned
        /\ task[c] = Done
    BY <1>3, <2>1 DEF add_subscription, Begins
  <2>5. memory'.nodes = memory.nodes /\ memory'.subscriptions = memory.subscriptions \cup {s}
    BY <1>3 DEF add_subscription, BookShape, Book
  <2>6. Effect(c, t, {}) BY <1>1, <1>2, <2>2, <2>3, <2>4, <2>5 DEF Effect
  <2>. QED BY <2>6, OwnedStep
<1>4. ASSUME NEW s \in Source, Fetched(c, s) PROVE OwnedOK'
  <2>1. PICK t : t = [task[c] EXCEPT !.targets = @ \ {s}] OBVIOUS
  <2>2. task[c].what = "refresh" /\ s \in task[c].targets /\ task[c].todo = <<>>
    BY <1>0, <1>4 DEF Fetched, IsTask
  <2>3. t.what = "refresh" /\ t.todo = <<>> /\ t.targets = task[c].targets \ {s} /\ t \in Task
    <3>. HIDE DEF Plans, Book
    <3>. QED BY <1>0, <2>1, <2>2 DEF Task
  <2>4. Pending(t) = {} BY <2>3 DEF Pending
  <2>5. Becomes(c, t) /\ breaks' = breaks /\ disk' = disk /\ orphaned' = orphaned
    BY <1>4, <2>1 DEF Fetched
  <2>6. /\ memory'.subscriptions = memory.subscriptions
        /\ \A n \in memory'.nodes : n \in memory.nodes \/ n.from = s
    BY <1>4, Refetched
  <2>7. Effect(c, t, {}) BY <1>2, <2>2, <2>3, <2>4, <2>5, <2>6 DEF Effect
  <2>. QED BY <2>7, OwnedStep
<1>5. ASSUME NEW targets \in SUBSET Source, refresh_subscriptions(c, targets) PROVE OwnedOK'
  <2>1. PICK t : t = Fetching(targets) OBVIOUS
  <2>2. t.what = "refresh" /\ t.todo = <<>> /\ t.targets = targets /\ IsTask(t)
    BY <2>1, FetchingIs
  <2>3. Pending(t) = {} BY <2>2, PlanFacts
  <2>4. /\ Becomes(c, t) /\ breaks' = breaks /\ disk' = disk /\ memory' = memory
        /\ orphaned' = orphaned \cup (targets \cap BeingAdded) /\ task[c] = Done
        /\ targets \subseteq memory.subscriptions
    BY <1>5, <2>1 DEF refresh_subscriptions, Begins
  <2>5. Effect(c, t, {}) BY <1>1, <1>2, <2>2, <2>3, <2>4 DEF Effect
  <2>. QED BY <2>5, OwnedStep
<1>6. CASE Settled(c)
  <2>1. PICK t : t = [Done EXCEPT !.what = "settled"] OBVIOUS
  <2>2. t.what = "settled" /\ t.todo = <<>> /\ t.targets = {} /\ IsTask(t) BY <2>1, SettledIs
  <2>3. Pending(t) = {} BY <2>2, PlanFacts
  <2>4. /\ Becomes(c, t) /\ breaks' = breaks /\ disk' = disk /\ orphaned' = orphaned
        /\ task[c].what = "refresh" /\ task[c].todo = <<>>
    BY <1>6, <2>1 DEF Settled
  <2>5. SameBook BY <1>6, Settling
  <2>6. Effect(c, t, {}) BY <1>2, <2>2, <2>3, <2>4, <2>5 DEF Effect, SameBook
  <2>. QED BY <2>6, OwnedStep
<1>7. CASE persist_subscriptions(c)
  <2>1. PICK t : t = [task[c] EXCEPT !.todo = <<"subscriptions">>, !.copy = {memory}] OBVIOUS
  <2>2. <<"subscriptions">> \in Plans BY DEF Plans
  <2>3. /\ t.what = task[c].what /\ t.todo = <<"subscriptions">> /\ t.copy = {memory}
        /\ t.targets = task[c].targets
    <3>. HIDE DEF Plans, Book
    <3>. QED BY <1>0, <2>1, <2>2 DEF Task
  <2>4. /\ Becomes(c, t) /\ breaks' = breaks /\ disk' = disk /\ orphaned' = orphaned
        /\ memory' = memory /\ task[c].what \in {"add", "settled"} /\ task[c].todo = <<>>
    BY <1>7, <2>1 DEF persist_subscriptions
  <2>5. Effect(c, t, {}) BY <1>2, <2>3, <2>4 DEF Effect
  <2>. QED BY <2>5, OwnedStep
<1>8. CASE PutBack(c)
  <2>1. PICK t : t = Done OBVIOUS
  <2>2. t.what = "none" /\ t.todo = <<>> /\ t.targets = {} /\ IsTask(t)
    BY <2>1, DoneIs, IsDone
  <2>3. Pending(t) = {} BY <2>2, PlanFacts
  <2>4. /\ Becomes(c, t) /\ breaks' = breaks /\ disk' = disk /\ orphaned' = orphaned
        /\ task[c].todo = <<"memory">>
    BY <1>8, <2>1 DEF PutBack
  <2>5. Pending(task[c]) = {"settings"} /\ task[c].what = "save"
    <3>1. <<"memory">> # <<>> /\ <<"memory">> # <<"subscriptions">>
      <4>1. <<"memory">>[1] = "memory" /\ <<"subscriptions">>[1] = "subscriptions" OBVIOUS
      <4>. QED BY <4>1
    <3>. QED BY <1>0, <2>4, <3>1, PlanFacts DEF PutsBack, IsTask, Task
  <2>6. SameBook BY <1>8, PuttingBack
  <2>7. Effect(c, t, {}) BY <2>2, <2>3, <2>4, <2>5, <2>6 DEF Effect, SameBook
  <2>. QED BY <2>7, OwnedStep
<1>. QED BY <1>3, <1>4, <1>5, <1>6, <1>7, <1>8

(* A step on the files: memory stays, and c goes on with what is left.     *)
LEMMA ListsAfter ==
    ASSUME BookShape, NEW m, Lists(m), NEW c \in Command, NEW t, task'[c] = t,
           \A d \in Command \ {c} : task'[d] = task[d], memory' = memory,
           orphaned \subseteq orphaned',
           NEW all, all = m.subscriptions \cup orphaned' \cup {Manual},
           "nodes" \in Pending(t) => \A k \in t.copy : Owners(k) \subseteq all,
           t.what = "refresh" => t.targets \subseteq all,
           task[c].what = "add" => task[c].targets \subseteq all
    PROVE  Lists(m)'
<1>1. ASSUME NEW S, Within(S, m) PROVE S \subseteq all
  <2>1. \A s \in S : s \in m.subscriptions \cup orphaned \cup {Manual} BY <1>1 DEF Within
  <2>. QED BY <2>1
<1>2. ASSUME NEW S, S \subseteq all PROVE Within(S, m)'
  BY <1>2 DEF Within
<1>3. /\ memory.subscriptions \ BeingAdded \subseteq all /\ Owners(memory) \subseteq all
      /\ \A d \in Command : task[d].what = "refresh" => task[d].targets \subseteq all
      /\ \A d \in Command : Holds(d, "nodes") => \A k \in task[d].copy : Owners(k) \subseteq all
  BY <1>1 DEF Lists
<1>4. (memory.subscriptions \ BeingAdded)' \subseteq all
  <2>1. SUFFICES ASSUME NEW s \in memory.subscriptions, s \notin BeingAdded' PROVE s \in all
    OBVIOUS
  <2>2. CASE s \notin BeingAdded BY <1>3, <2>2
  <2>3. CASE s \in BeingAdded
    <3>1. PICK d \in Command : task[d].what = "add" /\ s \in task[d].targets
      BY <2>3 DEF BeingAdded
    <3>2. d = c
      <4>1. d # c => task'[d].what = "add" /\ s \in task'[d].targets BY <3>1
      <4>. QED BY <2>1, <4>1 DEF BeingAdded
    <3>. QED BY <3>1, <3>2
  <2>. QED BY <2>2, <2>3
<1>5. Within((memory.subscriptions \ BeingAdded), m)'
  <2>. DEFINE S == (memory.subscriptions \ BeingAdded)'
  <2>1. \A s \in S : s \in (m.subscriptions \cup orphaned \cup {Manual})' BY <1>4
  <2>. QED BY <2>1 DEF Within
<1>6. Within(Owners(memory), m)' BY <1>3 DEF Within, Owners
<1>7. \A d \in Command : task'[d].what = "refresh" => Within(task[d].targets, m)'
  <2>1. \A d \in Command : task'[d].what = "refresh" => task'[d].targets \subseteq all BY <1>3
  <2>. QED BY <2>1 DEF Within
<1>8. \A d \in Command : Holds(d, "nodes")' => \A k \in task'[d].copy : Within(Owners(k), m)'
  <2>1. \A d \in Command : Holds(d, "nodes")' => \A k \in task'[d].copy : Owners(k) \subseteq all
    BY <1>3 DEF Holds
  <2>. QED BY <2>1, <1>2
<1>. QED BY <1>5, <1>6, <1>7, <1>8 DEF Lists

LEMMA MemoryAfter ==
    ASSUME BookShape, MemoryOK, NEW c \in Command, NEW t, task'[c] = t,
           \A d \in Command \ {c} : task'[d] = task[d], memory' = memory,
           orphaned \subseteq orphaned', t.targets \subseteq task[c].targets,
           raced \subseteq raced', breaks' = 0 => breaks = 0
    PROVE  MemoryOK'
<1>1. SUFFICES ASSUME raced' = {} \/ breaks' = 0
               PROVE  /\ \A s \in Owners(memory') : s \in memory'.subscriptions \cup orphaned' \cup {Manual}
                      /\ \A d \in Command : \A s \in task'[d].targets :
                           s \in memory'.subscriptions \cup orphaned' \cup {Manual}
  BY DEF MemoryOK, Within, Owners
<1>2. raced = {} \/ breaks = 0 BY <1>1
<1>3. Within(Owners(memory), memory) /\ \A d \in Command : Within(task[d].targets, memory)
  BY <1>2 DEF MemoryOK
<1>4. /\ \A s \in Owners(memory) : s \in memory.subscriptions \cup orphaned \cup {Manual}
      /\ \A d \in Command : \A s \in task[d].targets :
           s \in memory.subscriptions \cup orphaned \cup {Manual}
  BY <1>3 DEF Within
<1>5. \A d \in Command : task'[d].targets \subseteq task[d].targets OBVIOUS
<1>. QED BY <1>4, <1>5

LEMMA OwnedWrite ==
    ASSUME BookShape, OwnedOK, NEW c \in Command, NEW f \in File, Writes(c, f)
    PROVE  OwnedOK'
<1>1. /\ \A d \in Command : /\ task'[d].what = task[d].what /\ task'[d].todo = task[d].todo
                            /\ task'[d].copy = task[d].copy
                            /\ task'[d].targets = task[d].targets
      /\ UNCHANGED <<memory, disk, raced, breaks, orphaned>>
  BY DEF Writes
<1>2. BeingAdded' = BeingAdded
  <2>1. {e \in Command : task'[e].what = "add"} = {e \in Command : task[e].what = "add"} BY <1>1
  <2>2. \A d \in Command : task'[d].targets = task[d].targets BY <1>1
  <2>. QED BY <2>1, <2>2 DEF BeingAdded
<1>3. \A d \in Command : \A g : Holds(d, g)' <=> Holds(d, g)
  BY <1>1 DEF Holds, Pending
<1>4. \A S, m : Within(S, m)' <=> Within(S, m) BY <1>1 DEF Within
<1>5. \A m : Lists(m)' <=> Lists(m)
  <2>1. ASSUME NEW m PROVE Lists(m)' <=> Lists(m)
    <3>1. /\ Within((memory.subscriptions \ BeingAdded), m)' <=> Within(memory.subscriptions \ BeingAdded, m)
          /\ Within(Owners(memory), m)' <=> Within(Owners(memory), m)
          /\ \A d \in Command : Within(task[d].targets, m)' <=> Within(task[d].targets, m)
      BY <1>1, <1>2 DEF Within, Owners
    <3>2. \A k : Within(Owners(k), m)' <=> Within(Owners(k), m) BY <1>1 DEF Within, Owners
    <3>. QED BY <1>1, <1>3, <3>1, <3>2 DEF Lists
  <2>. QED BY <2>1
<1>6. MemoryOK'
  <2>1. Within(Owners(memory), memory)' <=> Within(Owners(memory), memory)
    BY <1>1 DEF Within, Owners
  <2>2. \A d \in Command : Within(task[d].targets, memory)' <=> Within(task[d].targets, memory)
    BY <1>1 DEF Within
  <2>. QED BY <1>1, <2>1, <2>2 DEF MemoryOK, OwnedOK
<1>7. ASSUME DiskOK PROVE DiskOK'
  <2>1. /\ Within(Owners(disk), disk)' <=> Within(Owners(disk), disk)
        /\ Within(Owners(disk), memory)' <=> Within(Owners(disk), memory)
        /\ \A k : Within(Owners(disk), k)' <=> Within(Owners(disk), k)
        /\ \A k : Within(Owners(k), memory)' <=> Within(Owners(k), memory)
        /\ \A k : Within(k.subscriptions, memory)' <=> Within(k.subscriptions, memory)
        /\ \A d \in Command : \A k : Within(task[d].targets, k)' <=> Within(task[d].targets, k)
    BY <1>1 DEF Within, Owners
  <2>2. Lists(disk)'
    <3>1. PICK m : m = disk OBVIOUS
    <3>2. Lists(m)' BY <1>5, <1>7, <3>1 DEF DiskOK
    <3>. QED BY <1>1, <3>1, <3>2 DEF Lists
  <2>3. Settles' <=> Settles BY <1>3 DEF Settles
  <2>. QED BY <1>1, <1>3, <1>5, <1>7, <2>1, <2>2, <2>3 DEF DiskOK
<1>. QED BY <1>1, <1>6, <1>7 DEF OwnedOK

LEMMA OwnedRename ==
    ASSUME BookShape, Alone, OwnedOK, NEW c \in Command, NEW f \in File, Renames(c, f)
    PROVE  OwnedOK'
<1>. DEFINE t == AfterSave(task[c])
<1>1. /\ Becomes(c, t) /\ memory' = memory /\ orphaned' = orphaned /\ breaks' = breaks
      /\ disk'[f] \in tmp[f] /\ \A g \in File \ {f} : disk'[g] = disk[g]
  BY DEF Renames
<1>2. /\ task[c].written /\ Head(task[c].todo) = f /\ task[c].todo # <<>>
      /\ IsTask(task[c]) /\ memory \in Book /\ task[c].targets \in SUBSET Source
  BY DEF Renames, BookShape, IsTask, Task
<1>3. /\ IsTask(t)
      /\ \/ /\ Tail(task[c].todo) # <<>> /\ task[c].what = "save" /\ t.what = "save"
            /\ t.todo = Tail(task[c].todo) /\ t.copy = task[c].copy
         \/ /\ task[c].todo = <<"subscriptions">> /\ task[c].what = "add"
            /\ t = Fetching(task[c].targets)
         \/ /\ task[c].todo = <<"subscriptions">> /\ task[c].what = "settled"
            /\ t = Saving(<<"nodes", "settings">>, memory)
         \/ Tail(task[c].todo) = <<>> /\ task[c].what = "save" /\ t = Done
  BY <1>2, SavedIs
<1>4. /\ t.what = "save" => t.targets = {}
      /\ t.targets \subseteq task[c].targets
  <2>1. t.what \notin {"add", "refresh"} => t.targets = {} BY <1>3 DEF IsTask
  <2>2. ASSUME t.what \in {"add", "refresh"} PROVE t = Fetching(task[c].targets)
    <3>1. Done.what = "none" /\ Saving(<<"nodes", "settings">>, memory).what = "save"
      BY DoneIs DEF Saving
    <3>. HIDE DEF t
    <3>. QED BY <1>3, <2>2, <3>1
  <2>3. Fetching(task[c].targets).targets = task[c].targets BY <1>2, FetchingIs
  <2>. HIDE DEF t
  <2>. QED BY <2>1, <2>2, <2>3
<1>. HIDE DEF t
<1>5. /\ task'[c] = t
      /\ raced \subseteq raced'
      /\ \A d \in Command \ {c} : task'[d] = task[d]
  BY <1>1, Updates
<1>6. MemoryOK' BY <1>1, <1>4, <1>5, MemoryAfter DEF OwnedOK
<1>7. SUFFICES ASSUME raced' = {} PROVE DiskOK' BY <1>6 DEF OwnedOK
<1>8. raced = {} /\ DiskOK BY <1>5, <1>7 DEF OwnedOK
<1>9. Holds(c, f) BY <1>2, FirstIsHeld
<1>10. PICK k : task[c].copy = {k} /\ k = Copy(c) BY <1>2, CopyIs
<1>11. disk'[f] = k[f]
  <2>1. tmp[f] = {Copy(c)[f]} BY <1>2, <1>8, <1>9 DEF Alone
  <2>. QED BY <1>1, <1>10, <2>1
<1>12. \A d \in Command \ {c} : \A g : Holds(d, g)' <=> Holds(d, g) BY <1>5 DEF Holds
<1>13. \A g : Holds(c, g)' <=> g \in Pending(t) BY <1>5 DEF Holds
<1>14. /\ task[c].todo = <<"settings">> => f = "settings" /\ Tail(task[c].todo) = <<>>
       /\ task[c].todo = <<"subscriptions">> => f = "subscriptions" /\ Tail(task[c].todo) = <<>>
       /\ task[c].todo = <<"nodes", "settings">> =>
            f = "nodes" /\ Tail(task[c].todo) = <<"settings">>
       /\ task[c].todo = <<"nodes", "subscriptions">> =>
            f = "nodes" /\ Tail(task[c].todo) = <<"subscriptions">>
       /\ task[c].todo = <<"settings", "memory">> =>
            f = "settings" /\ Tail(task[c].todo) = <<"memory">>
       /\ task[c].todo # <<"memory">> /\ task[c].todo \in Plans
  BY <1>2, PlanSteps DEF IsTask, Task
<1>15. \A S, m : Within(S, m)' <=> Within(S, m) BY <1>1 DEF Within
<1>16. ASSUME t.what = "save", task[c].what # "add", t.copy = task[c].copy,
              "nodes" \in Pending(t) => Holds(c, "nodes"), NEW m, Lists(m)
       PROVE  Lists(m)'
  <2>1. PICK all : all = m.subscriptions \cup orphaned' \cup {Manual} OBVIOUS
  <2>2. "nodes" \in Pending(t) => \A q \in t.copy : Owners(q) \subseteq all
    <3>1. Holds(c, "nodes") => \A q \in task[c].copy : Within(Owners(q), m)
      BY <1>16 DEF Lists
    <3>. QED BY <1>1, <1>16, <2>1, <3>1 DEF Within
  <2>. QED BY <1>1, <1>5, <1>16, <2>1, <2>2, ListsAfter
<1>s. CASE f = "settings"
  <2>1. task[c].todo \in {<<"settings">>, <<"settings", "memory">>}
    BY <1>2, <1>s, <1>14 DEF Plans
  <2>2. task[c].what # "add" /\ t.what # "refresh" /\ ~Holds(c, "nodes") /\ ~Holds(c, "subscriptions")
    <3>1. task[c].todo # <<"subscriptions">> BY <1>s, <1>14
    <3>2. t.what \in {"save", "none"} BY <1>3, <3>1, DoneIs
    <3>3. Pending(task[c]) = {"settings"} BY <1>2, <2>1, PlanFacts DEF PutsBack
    <3>. QED BY <1>2, <3>1, <3>2, <3>3 DEF Holds, IsTask
  <2>3. "nodes" \notin Pending(t) /\ "subscriptions" \notin Pending(t)
    <3>1. t.todo \in {<<"memory">>, <<>>} BY <1>3, <1>14, <1>s, <2>1, DoneIs
    <3>. QED BY <1>3, <3>1, PlanFacts DEF PutsBack
  <2>4. ASSUME NEW m, Lists(m) PROVE Lists(m)'
    <3>1. PICK all : all = m.subscriptions \cup orphaned' \cup {Manual} OBVIOUS
    <3>. QED BY <1>1, <1>5, <2>2, <2>3, <2>4, <3>1, ListsAfter
  <2>5. disk'.nodes = disk.nodes /\ disk'.subscriptions = disk.subscriptions
    BY <1>1, <1>s DEF File
  <2>6. Owners(disk)' = Owners(disk) BY <2>5 DEF Owners
  <2>7. Lists(disk)'
    <3>1. PICK m : m = disk OBVIOUS
    <3>2. Lists(m)' BY <1>8, <2>4, <3>1 DEF DiskOK
    <3>. QED BY <2>5, <3>1, <3>2 DEF Lists, Within
  <2>8. Within(Owners(disk), disk)' BY <1>1, <1>8, <2>5, <2>6 DEF DiskOK, Within
  <2>9. \A d \in Command : Holds(d, "nodes")' =>
          \A q \in task'[d].copy : Within(Owners(q), memory)'
    <3>1. \A q : Within(Owners(q), memory)' <=> Within(Owners(q), memory)
      BY <1>1 DEF Within, Owners
    <3>. QED BY <1>5, <1>8, <1>12, <1>13, <2>3, <3>1 DEF DiskOK
  <2>10. Settles' => Within(Owners(disk), memory)'
    <3>1. Settles' => Settles BY <1>12, <2>2 DEF Settles
    <3>. QED BY <1>1, <1>8, <2>6, <3>1 DEF DiskOK, Within
  <2>11. ASSUME NEW d \in Command, Holds(d, "subscriptions")', NEW q \in task'[d].copy
         PROVE  /\ Lists(q)' /\ Within(q.subscriptions, memory)' /\ Within(task[d].targets, q)'
                /\ ~Holds(d, "nodes")' => Within(Owners(disk), q)'
    <3>1. d # c BY <1>13, <2>3, <2>11
    <3>2. /\ Lists(q) /\ Within(q.subscriptions, memory) /\ Within(task[d].targets, q)
          /\ ~Holds(d, "nodes") => Within(Owners(disk), q)
      BY <1>5, <1>8, <1>12, <2>11, <3>1 DEF DiskOK
    <3>3. Within(q.subscriptions, memory)' /\ Within(task[d].targets, q)'
      BY <1>1, <1>5, <3>1, <3>2 DEF Within
    <3>4. ~Holds(d, "nodes")' => Within(Owners(disk), q)'
      BY <1>1, <1>12, <2>6, <3>1, <3>2 DEF Within
    <3>. QED BY <2>4, <3>2, <3>3, <3>4
  <2>. QED BY <2>7, <2>8, <2>9, <2>10, <2>11 DEF DiskOK
<1>n. CASE f = "nodes"
  <2>1. /\ task[c].todo \in {<<"nodes", "settings">>, <<"nodes", "subscriptions">>}
        /\ Holds(c, "nodes")
    BY <1>2, <1>n, <1>9, <1>14 DEF Plans
  <2>2. Tail(task[c].todo) # <<>> /\ task[c].todo # <<"subscriptions">>
    <3>1. <<"settings">> # <<>> /\ <<"subscriptions">> # <<>> OBVIOUS
    <3>. QED BY <1>n, <1>14, <2>1, <3>1
  <2>3. /\ t.what = "save" /\ t.copy = task[c].copy /\ task[c].what = "save"
        /\ t.todo \in {<<"settings">>, <<"subscriptions">>}
    BY <1>3, <1>14, <2>1, <2>2
  <2>4. "nodes" \notin Pending(t) /\ ("subscriptions" \in Pending(t) => Holds(c, "subscriptions"))
    <3>1. CASE task[c].todo = <<"nodes", "settings">>
      <4>1. t.todo = <<"settings">> BY <1>3, <1>14, <2>2, <3>1
      <4>. QED BY <1>3, <4>1, PlanFacts
    <3>2. CASE task[c].todo = <<"nodes", "subscriptions">>
      <4>1. t.todo = <<"subscriptions">> BY <1>3, <1>14, <2>2, <3>2
      <4>. QED BY <1>2, <1>3, <3>2, <4>1, PlanFacts DEF Holds
    <3>. QED BY <2>1, <3>1, <3>2
  <2>5. \A m : Lists(m) => Lists(m)' BY <1>16, <2>3, <2>4
  <2>6. disk'.nodes = k.nodes /\ disk'.subscriptions = disk.subscriptions
    BY <1>1, <1>11, <1>n DEF File
  <2>7. Owners(disk)' = Owners(k) BY <2>6 DEF Owners
  <2>8. Lists(disk)'
    <3>1. PICK m : m = disk OBVIOUS
    <3>2. Lists(m)' BY <1>8, <2>5, <3>1 DEF DiskOK
    <3>. QED BY <2>6, <3>1, <3>2 DEF Lists, Within
  <2>9. \A m : Lists(m) => Within(Owners(k), m) BY <1>10, <2>1 DEF Lists
  <2>10. Within(Owners(disk), disk)' BY <1>1, <1>8, <2>6, <2>7, <2>9 DEF DiskOK, Within
  <2>11. \A d \in Command : Holds(d, "nodes")' =>
          \A q \in task'[d].copy : Within(Owners(q), memory)'
    <3>1. \A q : Within(Owners(q), memory)' <=> Within(Owners(q), memory)
      BY <1>1 DEF Within, Owners
    <3>. QED BY <1>5, <1>8, <1>12, <1>13, <2>4, <3>1 DEF DiskOK
  <2>12. Within(Owners(disk), memory)'
    <3>1. Within(Owners(k), memory) BY <1>8, <1>10, <2>1 DEF DiskOK
    <3>. QED BY <1>1, <2>7, <3>1 DEF Within
  <2>13. ASSUME NEW d \in Command, Holds(d, "subscriptions")', NEW q \in task'[d].copy
         PROVE  /\ Lists(q)' /\ Within(q.subscriptions, memory)' /\ Within(task[d].targets, q)'
                /\ ~Holds(d, "nodes")' => Within(Owners(disk), q)'
    <3>1. Holds(d, "subscriptions") /\ q \in task[d].copy
      BY <1>5, <1>12, <1>13, <2>3, <2>4, <2>13
    <3>2. Lists(q) /\ Within(q.subscriptions, memory) /\ Within(task[d].targets, q)
      BY <1>8, <3>1 DEF DiskOK
    <3>3. task'[d].targets \subseteq task[d].targets BY <1>4, <1>5
    <3>4. Within(q.subscriptions, memory)' /\ Within(task[d].targets, q)'
      BY <1>1, <3>2, <3>3 DEF Within
    <3>5. Within(Owners(disk), q)' BY <1>1, <2>7, <2>9, <3>2 DEF Within
    <3>. QED BY <2>5, <3>2, <3>4, <3>5
  <2>. QED BY <2>8, <2>10, <2>11, <2>12, <2>13 DEF DiskOK
<1>u. CASE f = "subscriptions"
  <2>1. task[c].todo = <<"subscriptions">> BY <1>2, <1>u, <1>14 DEF Plans
  <2>2. /\ ~Holds(c, "nodes") /\ Holds(c, "subscriptions")
        /\ \A d \in Command : Holds(d, "subscriptions") => d = c
    <3>1. Pending(task[c]) = {"subscriptions"} BY <1>2, <2>1, PlanFacts
    <3>. QED BY <1>8, <1>9, <1>u, <3>1 DEF Holds, Alone
  <2>3. /\ Lists(k) /\ Within(task[c].targets, k) /\ Within(Owners(disk), k)
    BY <1>8, <1>10, <2>2 DEF DiskOK
  <2>4. \/ t = Fetching(task[c].targets) \/ t = Saving(<<"nodes", "settings">>, memory) \/ t = Done
    BY <1>3, <1>14, <2>1
  <2>5. /\ "subscriptions" \notin Pending(t)
        /\ "nodes" \in Pending(t) => t.copy = {memory}
        /\ t.what = "refresh" => t.targets = task[c].targets
    <3>1. CASE t = Fetching(task[c].targets)
      <4>1. t.todo = <<>> BY <1>2, <3>1, FetchingIs
      <4>. QED BY <1>2, <1>3, <3>1, <4>1, FetchingIs, PlanFacts
    <3>2. CASE t = Saving(<<"nodes", "settings">>, memory)
      <4>1. t.todo = <<"nodes", "settings">> /\ t.copy = {memory} /\ t.what = "save"
        BY <3>2 DEF Saving
      <4>. QED BY <1>3, <4>1, PlanFacts
    <3>3. CASE t = Done BY <1>3, <3>3, DoneIs, PlanFacts
    <3>. QED BY <2>4, <3>1, <3>2, <3>3
  <2>6. Lists(k)'
    <3>1. PICK all : all = k.subscriptions \cup orphaned' \cup {Manual} OBVIOUS
    <3>2. Within(Owners(memory), k) BY <2>3 DEF Lists
    <3>3. Owners(memory) \subseteq all /\ task[c].targets \subseteq all
      BY <1>1, <2>3, <3>1, <3>2 DEF Within
    <3>4. "nodes" \in Pending(t) => \A q \in t.copy : Owners(q) \subseteq all
      BY <2>5, <3>3
    <3>. QED BY <1>1, <1>5, <2>3, <2>5, <3>1, <3>3, <3>4, ListsAfter
  <2>7. disk'.nodes = disk.nodes /\ disk'.subscriptions = k.subscriptions
    BY <1>1, <1>11, <1>u DEF File
  <2>8. Owners(disk)' = Owners(disk) BY <2>7 DEF Owners
  <2>9. Lists(disk)' BY <2>6, <2>7 DEF Lists, Within
  <2>10. Within(Owners(disk), disk)' BY <1>1, <2>3, <2>7, <2>8 DEF Within
  <2>11. Within(Owners(memory), memory)
    BY <1>8 DEF OwnedOK, MemoryOK
  <2>12. \A d \in Command : Holds(d, "nodes")' =>
          \A q \in task'[d].copy : Within(Owners(q), memory)'
    <3>1. \A q : Within(Owners(q), memory)' <=> Within(Owners(q), memory)
      BY <1>1 DEF Within, Owners
    <3>. QED BY <1>5, <1>8, <1>12, <1>13, <2>5, <2>11, <3>1 DEF DiskOK
  <2>13. Settles' => Within(Owners(disk), memory)'
    <3>1. Settles BY <2>2 DEF Settles
    <3>. QED BY <1>1, <1>8, <2>8, <3>1 DEF DiskOK, Within
  <2>14. \A d \in Command : ~Holds(d, "subscriptions")' BY <1>12, <1>13, <2>2, <2>5
  <2>. QED BY <2>9, <2>10, <2>12, <2>13, <2>14 DEF DiskOK
<1>. QED BY <1>s, <1>n, <1>u DEF File

(* What a write that fails leaves is in orphaned where it matters.         *)
LEMMA OwnedFails ==
    ASSUME BookShape, Alone, OwnedOK, NEW c \in Command, WriteFails(c)
    PROVE  OwnedOK'
<1>1. PICK t : t = Done OBVIOUS
<1>2. t.what = "none" /\ t.targets = {} /\ Pending(t) = {} BY <1>1, DoneIs, IsDone, PlanFacts
<1>3. /\ Becomes(c, t) /\ memory' = memory /\ disk' = disk /\ breaks' = breaks + 1
      /\ task[c].todo # <<>> /\ breaks \in Nat
  BY <1>1 DEF WriteFails, BookShape
<1>4. /\ task'[c] = t
      /\ raced \subseteq raced'
      /\ \A d \in Command \ {c} : task'[d] = task[d]
  BY <1>3, Updates
<1>5. PICK k : task[c].copy = {k} /\ k = Copy(c) BY <1>3, CopyIs
<1>6. /\ orphaned \subseteq orphaned'
      /\ Holds(c, "subscriptions") => SymDiff(k.subscriptions, disk.subscriptions) \subseteq orphaned'
  BY <1>5 DEF WriteFails, Holds
<1>7. MemoryOK'
  <2>1. breaks' # 0 BY <1>3
  <2>. QED BY <1>2, <1>3, <1>4, <1>6, <2>1, MemoryAfter DEF OwnedOK
<1>8. SUFFICES ASSUME raced' = {} PROVE DiskOK' BY <1>7 DEF OwnedOK
<1>9. raced = {} /\ DiskOK BY <1>4, <1>8 DEF OwnedOK
<1>10. /\ \A d \in Command \ {c} : \A g : Holds(d, g)' <=> Holds(d, g)
       /\ \A g : ~Holds(c, g)'
  BY <1>2, <1>4 DEF Holds
<1>11. ASSUME NEW S, NEW m, Within(S, m) PROVE Within(S, m)' BY <1>6, <1>11 DEF Within
<1>12. Holds(c, "subscriptions") =>
         \A s : s \in k.subscriptions => s \in disk.subscriptions \/ s \in orphaned'
  BY <1>6 DEF SymDiff
<1>13. Holds(c, "subscriptions") =>
         \A s : s \in disk.subscriptions => s \in k.subscriptions \/ s \in orphaned'
  BY <1>6 DEF SymDiff
<1>14. task[c].what = "add" => Holds(c, "subscriptions")
  <2>1. IsTask(task[c]) BY DEF BookShape
  <2>2. task[c].what = "add" => task[c].todo = <<"subscriptions">> BY <1>3, <2>1 DEF IsTask
  <2>. QED BY <2>1, <2>2, PlanFacts DEF Holds
<1>15. Lists(disk)'
  <2>1. PICK m, all : m = disk /\ all = m.subscriptions \cup orphaned' \cup {Manual} OBVIOUS
  <2>2. task[c].what = "add" => task[c].targets \subseteq all
    <3>1. task[c].what = "add" => Within(task[c].targets, k) BY <1>5, <1>9, <1>14 DEF DiskOK
    <3>2. task[c].what = "add" =>
            \A s \in task[c].targets : s \in k.subscriptions \cup orphaned \cup {Manual}
      BY <3>1 DEF Within
    <3>. QED BY <1>6, <1>12, <1>14, <2>1, <3>2
  <2>3. Lists(m) BY <1>9, <2>1 DEF DiskOK
  <2>4. Lists(m)' BY <1>2, <1>3, <1>4, <1>6, <2>1, <2>2, <2>3, ListsAfter
  <2>. QED BY <1>3, <2>1, <2>4 DEF Lists
<1>16. Within(Owners(disk), disk)' BY <1>3, <1>9, <1>11 DEF DiskOK
<1>17. \A d \in Command : Holds(d, "nodes")' =>
         \A q \in task'[d].copy : Within(Owners(q), memory)'
  <2>1. \A d \in Command \ {c} : Holds(d, "nodes") =>
          \A q \in task[d].copy : Within(Owners(q), memory)
    BY <1>9 DEF DiskOK
  <2>2. \A q : Within(Owners(q), memory) => Within(Owners(q), memory)'
    BY <1>3, <1>6 DEF Within, Owners
  <2>. QED BY <1>4, <1>10, <2>1, <2>2
<1>18. Settles' => Within(Owners(disk), memory)'
  <2>1. CASE Settles
    <3>1. Within(Owners(disk), memory) BY <1>9, <2>1 DEF DiskOK
    <3>. QED BY <1>3, <1>11, <3>1
  <2>2. CASE ~Settles
    <3>1. SUFFICES ASSUME Settles' PROVE Within(Owners(disk), memory)' OBVIOUS
    <3>2. Holds(c, "subscriptions") BY <1>10, <2>2, <3>1 DEF Settles
    <3>3. Within(k.subscriptions, memory) /\ Within(Owners(disk), disk)
      BY <1>5, <1>9, <3>2 DEF DiskOK
    <3>4. /\ \A s \in k.subscriptions : s \in memory.subscriptions \cup orphaned \cup {Manual}
          /\ \A s \in Owners(disk) : s \in disk.subscriptions \cup orphaned \cup {Manual}
      BY <3>3 DEF Within
    <3>5. \A s \in Owners(disk) : s \in memory.subscriptions \cup orphaned' \cup {Manual}
      BY <1>6, <1>13, <3>2, <3>4
    <3>. QED BY <1>3, <3>5 DEF Within
  <2>. QED BY <2>1, <2>2
<1>19. ASSUME NEW d \in Command, Holds(d, "subscriptions")', NEW q \in task'[d].copy
       PROVE  /\ Lists(q)' /\ Within(q.subscriptions, memory)' /\ Within(task[d].targets, q)'
              /\ ~Holds(d, "nodes")' => Within(Owners(disk), q)'
  <2>1. d # c /\ Holds(d, "subscriptions") /\ q \in task[d].copy BY <1>4, <1>10, <1>19
  <2>2. /\ Lists(q) /\ Within(q.subscriptions, memory) /\ Within(task[d].targets, q)
        /\ ~Holds(d, "nodes") => Within(Owners(disk), q)
    BY <1>9, <2>1 DEF DiskOK
  <2>3. task[c].what # "add"
    <3>1. ~Holds(c, "subscriptions") BY <1>9, <2>1 DEF Alone, File
    <3>. QED BY <1>14, <3>1
  <2>4. Lists(q)'
    <3>1. PICK all : all = q.subscriptions \cup orphaned' \cup {Manual} OBVIOUS
    <3>. QED BY <1>2, <1>3, <1>4, <1>6, <2>2, <2>3, <3>1, ListsAfter
  <2>5. Within(q.subscriptions, memory)' /\ Within(task[d].targets, q)'
    BY <1>3, <1>4, <1>6, <2>1, <2>2 DEF Within
  <2>6. ~Holds(d, "nodes")' => Within(Owners(disk), q)'
    BY <1>3, <1>10, <1>11, <2>1, <2>2
  <2>. QED BY <2>4, <2>5, <2>6
<1>. QED BY <1>15, <1>16, <1>17, <1>18, <1>19 DEF DiskOK

LEMMA OwnedLoad ==
    ASSUME BookShape, OwnedOK, LoadBook
    PROVE  OwnedOK'
<1>1. /\ memory' = disk /\ disk' = disk /\ raced' = raced /\ orphaned' = orphaned
      /\ breaks' = breaks + 1 /\ breaks \in Nat /\ \A c \in Command : task'[c] = Done
  BY DEF LoadBook, BookShape
<1>2. SUFFICES ASSUME raced' = {} PROVE MemoryOK' /\ DiskOK'
  BY <1>1 DEF OwnedOK, MemoryOK
<1>3. DiskOK BY <1>1, <1>2 DEF OwnedOK
<1>4. /\ \A c \in Command : task'[c].targets = {} /\ task'[c].what = "none"
      /\ \A c \in Command : \A g : ~Holds(c, g)'
  BY <1>1, DoneIs, IsDone, PlanFacts DEF Holds
<1>5. \A s \in Owners(disk) : s \in disk.subscriptions \cup orphaned \cup {Manual}
  BY <1>3 DEF DiskOK, Within
<1>6. Owners(memory)' = Owners(disk) /\ Owners(disk)' = Owners(disk) BY <1>1 DEF Owners
<1>7. /\ Within(Owners(memory), memory)' /\ Within(Owners(disk), memory)'
      /\ Within(Owners(memory), disk)' /\ Within(Owners(disk), disk)'
  BY <1>1, <1>5, <1>6 DEF Within
<1>8. \A c \in Command : Within(task[c].targets, memory)' /\ Within(task[c].targets, disk)'
  BY <1>4 DEF Within
<1>9. Within((memory.subscriptions \ BeingAdded), disk)'
  BY <1>1 DEF Within
<1>. QED BY <1>4, <1>7, <1>8, <1>9 DEF MemoryOK, DiskOK, Lists

LEMMA OwnedKept ==
    ASSUME BookShape, Alone, OwnedOK, [BookNext]_bookVars PROVE OwnedOK'
<1>1. CASE UNCHANGED bookVars
  <2>1. UNCHANGED <<memory, disk, task, raced, orphaned, breaks>> BY <1>1 DEF bookVars
  <2>. QED BY <2>1 DEF OwnedOK, MemoryOK, DiskOK, Lists, Within, Owners, Settles, Holds, BeingAdded
<1>2. ASSUME NEW c \in Command, NEW f \in File, atomic_write(c, f) PROVE OwnedOK'
  <2>1. CASE Finds(c)
    <3>1. /\ task'[c] = Done
          /\ \A d \in Command \ {c} : task'[d] = task[d]
          /\ raced' = File /\ raced \subseteq File
          /\ UNCHANGED <<memory, orphaned, breaks>>
      BY <2>1 DEF Finds, BookShape
    <3>2. Done.targets \subseteq task[c].targets BY DoneIs
    <3>. HIDE DEF Done
    <3>3. MemoryOK' BY <3>1, <3>2, MemoryAfter DEF OwnedOK
    <3>4. raced' # {} BY <3>1 DEF File
    <3>. QED BY <3>3, <3>4 DEF OwnedOK
  <2>2. CASE Renames(c, f) BY <2>2, OwnedRename
  <2>. QED BY <1>2, <2>1, <2>2, Renaming
<1>. QED BY <1>1, <1>2, Writing, OwnedWrite, OwnedCommands, OwnedRefresh, OwnedFails, OwnedLoad
     DEF BookNext

LEMMA OwnedInit == ASSUME BookInit PROVE OwnedOK
<1>1. /\ memory.nodes = {} /\ memory.subscriptions = {} /\ disk = memory
      /\ \A c \in Command : task[c] = Done
  BY DEF BookInit, Empty
<1>2. \A c \in Command : task[c].targets = {} /\ \A f : ~Holds(c, f)
  BY <1>1, DoneIs, IsDone, PlanFacts DEF Holds
<1>3. Owners(memory) = {} /\ Owners(disk) = {} BY <1>1 DEF Owners
<1>. QED BY <1>1, <1>2, <1>3 DEF OwnedOK, MemoryOK, DiskOK, Lists, Within

(* A node never outlives its subscription, in memory or on disk, whatever  *)
(* write fails and wherever the App is killed, unless the subscription was *)
(* refreshed while it was added or removed, or two commands saved one file *)
(* at once.                                                                *)
THEOREM NoneOrphaned == BookSpec => []NoOrphans
<1>1. BookInit => BookShape /\ Alone /\ OwnedOK BY BookInits, OwnedInit
<1>2. BookShape /\ Alone /\ OwnedOK /\ [BookNext]_bookVars => BookShape' /\ Alone' /\ OwnedOK'
  BY Shaped, AloneKept, OwnedKept
<1>3. BookShape /\ OwnedOK => NoOrphans
  <2>1. SUFFICES ASSUME BookShape, OwnedOK, NEW m \in {memory, disk}, NEW n \in m.nodes,
                        ~(raced # {} /\ (m = disk \/ breaks > 0))
                 PROVE  n.from \in m.subscriptions \cup orphaned \cup {Manual}
    BY DEF NoOrphans
  <2>2. n.from \in Owners(m) BY OwnersAre
  <2>3. breaks \in Nat BY <2>1 DEF BookShape
  <2>4. CASE m = disk
    <3>1. Within(Owners(disk), disk) BY <2>1, <2>4 DEF OwnedOK, DiskOK
    <3>. QED BY <2>2, <2>4, <3>1 DEF Within
  <2>5. CASE m = memory
    <3>1. raced = {} \/ breaks = 0 BY <2>1, <2>3
    <3>2. Within(Owners(memory), memory) BY <2>1, <3>1 DEF OwnedOK, MemoryOK
    <3>. QED BY <2>2, <2>5, <3>2 DEF Within
  <2>. QED BY <2>4, <2>5
<1>. QED BY <1>1, <1>2, <1>3, PTL DEF BookSpec

------------------------------------------------------------------------------
(* No two nodes have one id.                                               *)

(* A command that saves nothing yet has no copy.                           *)
LEMMA NoCopies ==
    /\ Done.copy = {} /\ [Done EXCEPT !.what = "settled"].copy = {}
    /\ \A S : Fetching(S).copy = {} /\ [Done EXCEPT !.what = "add", !.targets = S].copy = {}
  BY DEF Done, Fetching

LEMMA DistinctBecomes ==
    ASSUME BookShape, DistinctOK, NEW c \in Command, NEW t, Becomes(c, t),
           \A k \in t.copy : Distinct(k.nodes), Distinct(memory'.nodes), UNCHANGED <<disk, tmp>>
    PROVE  DistinctOK'
  BY Updates DEF DistinctOK

(* What a command copies is what is in memory.                             *)
LEMMA DistinctCommands ==
    ASSUME BookShape, DistinctOK, NEW c \in Command,
           \/ \E n \in Link : select_node(c, n) \/ add_manual_node(c, n) \/ delete_node(c, n)
           \/ set_mode(c)
           \/ \E s \in Source : add_subscription(c, s) \/ remove_subscription(c, s)
    PROVE  DistinctOK'
<1>1. Distinct(memory.nodes) /\ memory \in Book BY DEF DistinctOK, BookShape
<1>2. \A p, m : Saving(p, m).copy = {m} BY DEF Saving
<1>3. ASSUME NEW m, SettingsChange(c, m) PROVE DistinctOK'
  <2>1. /\ Becomes(c, Saving(<<"settings", "memory">>, m)) /\ UNCHANGED <<memory, disk, tmp>>
        /\ Distinct(m.nodes)
    BY <1>1, <1>3 DEF SettingsChange
  <2>. QED BY <1>1, <1>2, <2>1, DistinctBecomes
<1>4. ASSUME NodesChange(c) PROVE DistinctOK'
  <2>1. /\ Becomes(c, Saving(<<"nodes", "settings">>, memory')) /\ UNCHANGED <<disk, tmp>>
        /\ Distinct(memory'.nodes)
    BY <1>1, <1>4 DEF NodesChange
  <2>. QED BY <1>2, <2>1, DistinctBecomes
<1>5. ASSUME NEW s \in Source, Removal(c, s) PROVE DistinctOK'
  <2>1. /\ Becomes(c, Saving(<<"nodes", "subscriptions">>, memory')) /\ UNCHANGED <<disk, tmp>>
        /\ \A n \in memory'.nodes : n \in memory.nodes
    BY <1>5 DEF Removal
  <2>2. Distinct(memory'.nodes) BY <1>1, <2>1 DEF Distinct
  <2>. QED BY <1>2, <2>1, <2>2, DistinctBecomes
<1>6. ASSUME NEW s \in Source, add_subscription(c, s) PROVE DistinctOK'
  <2>1. memory'.nodes = memory.nodes BY <1>1, <1>6 DEF add_subscription, Book
  <2>. DEFINE t == [Done EXCEPT !.what = "add", !.targets = {s}]
  <2>2. Becomes(c, t) /\ UNCHANGED <<disk, tmp>> BY <1>6 DEF add_subscription
  <2>3. t.copy = {} BY NoCopies
  <2>. HIDE DEF t
  <2>. QED BY <1>1, <2>1, <2>2, <2>3, DistinctBecomes
<1>. QED BY <1>3, <1>4, <1>5, <1>6, Setting, Adding, Deleting, Removing

(* A refresh passes over what others have brought already.                 *)
LEMMA DistinctRefresh ==
    ASSUME BookShape, DistinctOK, NEW c \in Command,
           \/ \E s \in Source : Fetched(c, s)
           \/ \E targets \in SUBSET Source : refresh_subscriptions(c, targets)
           \/ Settled(c) \/ persist_subscriptions(c) \/ PutBack(c)
    PROVE  DistinctOK'
<1>1. /\ Distinct(memory.nodes) /\ task[c] \in Task
      /\ \A k \in task[c].copy : Distinct(k.nodes)
  BY DEF DistinctOK, BookShape, IsTask
<1>2. ASSUME NEW s \in Source, Fetched(c, s) PROVE DistinctOK'
  <2>. DEFINE t == [task[c] EXCEPT !.targets = @ \ {s}]
  <2>1. Becomes(c, t) /\ UNCHANGED <<disk, tmp>> BY <1>2 DEF Fetched
  <2>2. t.copy = task[c].copy BY <1>1 DEF Task
  <2>3. Distinct(memory'.nodes) BY <1>1, <1>2, Refetched
  <2>. HIDE DEF t
  <2>. QED BY <1>1, <2>1, <2>2, <2>3, DistinctBecomes
<1>3. ASSUME NEW targets \in SUBSET Source, refresh_subscriptions(c, targets) PROVE DistinctOK'
  <2>1. Becomes(c, Fetching(targets)) /\ UNCHANGED <<memory, disk, tmp>>
    BY <1>3 DEF refresh_subscriptions
  <2>2. Fetching(targets).copy = {} BY NoCopies
  <2>. QED BY <1>1, <2>1, <2>2, DistinctBecomes
<1>4. CASE Settled(c)
  <2>. DEFINE t == [Done EXCEPT !.what = "settled"]
  <2>1. Becomes(c, t) /\ UNCHANGED <<disk, tmp>> BY <1>4 DEF Settled
  <2>2. t.copy = {} BY NoCopies
  <2>3. memory'.nodes = memory.nodes BY <1>4, Settling DEF SameBook
  <2>. HIDE DEF t
  <2>. QED BY <1>1, <2>1, <2>2, <2>3, DistinctBecomes
<1>5. CASE persist_subscriptions(c)
  <2>. DEFINE t == [task[c] EXCEPT !.todo = <<"subscriptions">>, !.copy = {memory}]
  <2>1. Becomes(c, t) /\ UNCHANGED <<memory, disk, tmp>> BY <1>5 DEF persist_subscriptions
  <2>2. t.copy = {memory} BY <1>1 DEF Task
  <2>. HIDE DEF t
  <2>. QED BY <1>1, <2>1, <2>2, DistinctBecomes
<1>6. CASE PutBack(c)
  <2>1. Becomes(c, Done) /\ UNCHANGED <<disk, tmp>> BY <1>6 DEF PutBack
  <2>2. memory'.nodes = memory.nodes BY <1>6, PuttingBack DEF SameBook
  <2>. QED BY <1>1, <2>1, <2>2, NoCopies, DistinctBecomes
<1>. QED BY <1>2, <1>3, <1>4, <1>5, <1>6

(* The files get what the commands have copied.                            *)
LEMMA DistinctFiles ==
    ASSUME BookShape, DistinctOK, NEW c \in Command, NEW f \in File,
           Write(c, f) \/ atomic_write(c, f)
    PROVE  DistinctOK'
<1>. USE DEF File
<1>1. CASE Write(c, f)
  <2>1. Writes(c, f) BY <1>1, Writing
  <2>2. task[c].copy = {Copy(c)} BY <2>1, CopyIs DEF Writes
  <2>3. Distinct(Copy(c)["nodes"]) BY <2>2 DEF DistinctOK
  <2>4. tmp'["nodes"] = IF f = "nodes" THEN {Copy(c)["nodes"]} ELSE tmp["nodes"]
    BY <2>1 DEF Writes, BookShape
  <2>5. \A S \in tmp'["nodes"] : Distinct(S) BY <2>3, <2>4 DEF DistinctOK
  <2>6. UNCHANGED <<memory, disk>> /\ \A d \in Command : task'[d].copy = task[d].copy
    BY <2>1 DEF Writes
  <2>. QED BY <2>5, <2>6 DEF DistinctOK
<1>2. CASE atomic_write(c, f)
  <2>1. CASE Finds(c)
    BY <2>1, NoCopies DEF Finds, DistinctOK
  <2>2. CASE Renames(c, f)
    <3>1. memory' = memory /\ Becomes(c, AfterSave(task[c])) BY <2>2 DEF Renames
    <3>2. Distinct(disk'.nodes)
      <4>1. disk'["nodes"] = disk["nodes"] \/ disk'["nodes"] \in tmp["nodes"]
        BY <2>2 DEF Renames
      <4>. QED BY <4>1 DEF DistinctOK
    <3>3. \A S \in tmp'["nodes"] : Distinct(S)
      <4>1. tmp' = tmp \/ tmp' = [tmp EXCEPT ![f] = {}] BY <1>2 DEF atomic_write
      <4>2. tmp'["nodes"] = tmp["nodes"] \/ tmp'["nodes"] = {} BY <4>1 DEF BookShape
      <4>. QED BY <4>2 DEF DistinctOK
    <3>4. \A k \in AfterSave(task[c]).copy : k \in task[c].copy \/ k = memory
      <4>1. /\ IsTask(task[c]) /\ task[c].todo # <<>> /\ Head(task[c].todo) \in File
            /\ memory \in Book
        BY <2>2 DEF Renames, BookShape
      <4>2. \A p, m : Saving(p, m).copy = {m} BY DEF Saving
      <4>. QED BY <4>1, <4>2, SavedIs, NoCopies
    <3>. QED BY <3>1, <3>2, <3>3, <3>4, Updates DEF DistinctOK
  <2>. QED BY <1>2, <2>1, <2>2, Renaming
<1>. QED BY <1>1, <1>2

LEMMA DistinctKept ==
    ASSUME BookShape, DistinctOK, [BookNext]_bookVars PROVE DistinctOK'
<1>1. CASE UNCHANGED bookVars BY <1>1 DEF bookVars, DistinctOK
<1>2. ASSUME NEW c \in Command, WriteFails(c) PROVE DistinctOK'
  <2>1. Becomes(c, Done) /\ UNCHANGED <<memory, disk, tmp>> BY <1>2 DEF WriteFails
  <2>2. Distinct(memory.nodes) BY DEF DistinctOK
  <2>. QED BY <2>1, <2>2, NoCopies, DistinctBecomes
<1>3. CASE LoadBook BY <1>3, NoCopies DEF LoadBook, DistinctOK
<1>. QED BY <1>1, <1>2, <1>3, DistinctCommands, DistinctRefresh, DistinctFiles DEF BookNext

LEMMA DistinctInit == ASSUME BookInit PROVE DistinctOK
  BY NoCopies DEF BookInit, Empty, File, DistinctOK, Distinct

(* With ids of their own there are as many nodes as ids.                   *)
LEMMA AsManyAsIds ==
    ASSUME IsFiniteSet(Link), NEW m \in Book, Distinct(m.nodes)
    PROVE  Cardinality(m.nodes) = Cardinality(Listed(m))
<1>. DEFINE L == Listed(m)
            node == [i \in L |-> CHOOSE n \in m.nodes : n.id = i]
<1>1. L \subseteq Link BY BookFields DEF Listed
<1>2. IsFiniteSet(L) BY <1>1, FS_Subset
<1>3. \A i \in L : node[i] \in m.nodes /\ node[i].id = i BY DEF Listed
<1>4. \A n \in m.nodes : n.id \in L /\ node[n.id] = n BY <1>3 DEF Listed, Distinct
<1>5. node \in [L -> m.nodes] BY <1>3
<1>6. node \in Bijection(L, m.nodes)
  <2>. HIDE DEF L, node
  <2>. QED BY <1>3, <1>4, <1>5, Fun_IsBij
<1>7. ExistsBijection(L, m.nodes) BY <1>6 DEF ExistsBijection
<1>. HIDE DEF L, node
<1>8. Cardinality(m.nodes) = Cardinality(L) BY <1>2, <1>7, FS_Bijection
<1>. QED BY <1>8 DEF L

(* Memory and files keep their types for any number of nodes; and however  *)
(* the adding of nodes by hand, refreshes, saves and restarts interleave,  *)
(* no id is listed twice, in memory or on disk.                            *)
THEOREM BookTypeCorrect == ASSUME IsFiniteSet(Link) PROVE BookSpec => []BookTypeOK
<1>1. BookInit => BookShape /\ DistinctOK BY ShapeInit, DistinctInit
<1>2. BookShape /\ DistinctOK /\ [BookNext]_bookVars => BookShape' /\ DistinctOK'
  BY Shaped, DistinctKept
<1>3. BookShape /\ DistinctOK => BookTypeOK
  BY AsManyAsIds DEF BookShape, DistinctOK, BookTypeOK
<1>. QED BY <1>1, <1>2, <1>3, PTL DEF BookSpec

==============================================================================
