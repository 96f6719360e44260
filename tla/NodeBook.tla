------------------------------- MODULE NodeBook -------------------------------
(***************************************************************************)
(* Nodes, subscriptions and settings: in memory under one lock, on disk in *)
(* three files.  Commands run side by side.  Each takes the lock for a     *)
(* moment to change or to copy what is in memory, and saves its copies     *)
(* without the lock, one file after another; select_node and set_mode save *)
(* first and put their copy into memory afterwards; a refresh waits for    *)
(* the network in between.  Links, names and health of nodes are left out. *)
(***************************************************************************)
EXTENDS Naturals, Sequences, FiniteSetsExt

CONSTANTS
    Link,         \* nodes, by id
    Source,       \* subscriptions, by id
    Manual, NoLink,
    MaxAtOnce, MaxCommands, MaxBreaks   \* bounds: commands under way at once, and
                                        \* in all; writes that fail, crashes

ASSUME BookAssumption ==
    Manual \notin Source /\ NoLink \notin Link /\ {MaxAtOnce, MaxCommands, MaxBreaks} \subseteq Nat

VARIABLES
    memory,    \* Inner.nodes, .subscriptions and .settings
    disk,      \* nodes.json, subscriptions.json, settings.json
    tmp,       \* the file each of them is written to before it is renamed
    task,      \* the commands under way
    raced,     \* history: files two commands held copies of at once
    orphaned,  \* history: subscriptions refreshed while they were added or
               \* removed, or whose adding or removal could not be saved
    commands, breaks

bookVars == <<memory, disk, tmp, task, raced, orphaned, commands, breaks>>

Command == 1 .. MaxAtOnce

File == {"nodes", "subscriptions", "settings"}

(* todo: files to be saved from copy, then perhaps "memory", the copy of   *)
(* the settings put back.  targets: subscriptions still to be fetched.     *)
Done == [what |-> "none", todo |-> <<>>, written |-> FALSE, copy |-> {}, targets |-> {}]

Saving(todo, copy) ==
    [what |-> "save", todo |-> todo, written |-> FALSE, copy |-> {copy}, targets |-> {}]

Copy(c) == CHOOSE m \in task[c].copy : TRUE

Pending(t) == {IF t.todo[i] = "memory" THEN "settings" ELSE t.todo[i] : i \in DOMAIN t.todo}

Becomes(c, t) ==
    /\ task' = [task EXCEPT ![c] = t]
    /\ raced' = raced \cup UNION {Pending(t) \cap Pending(task[d]) : d \in Command \ {c}}

(* The other saver has renamed the temporary file: an error, and the files *)
(* the command had yet to save are not saved.                              *)
BreaksOff(c) == task' = [task EXCEPT ![c] = Done] /\ raced' = File

(* Which one of them is free makes no difference.                          *)
Begins(c) ==
    /\ task[c] = Done /\ \A d \in 1 .. c - 1 : task[d] # Done
    /\ commands < MaxCommands /\ commands' = commands + 1

From(s, m) == {n \in m.nodes : n.from = s}

Listed(m) == {n.id : n \in m.nodes}

(* nodes.first(), in an order that is left out.                            *)
Some(m) == IF m.nodes = {} THEN {NoLink} ELSE Listed(m)

Empty ==
    [nodes |-> {}, subscriptions |-> {}, settings |-> [selected |-> NoLink, mode |-> 0]]

BookInit ==
    /\ memory = Empty /\ disk = Empty /\ tmp = [f \in File |-> {}]
    /\ task = [c \in Command |-> Done] /\ raced = {} /\ orphaned = {}
    /\ commands = 0 /\ breaks = 0

------------------------------------------------------------------------------
(* Commands on the nodes and the settings *)

(* A copy of the settings with one change, saved and then put back whole.  *)
ChangeSettings(c, settings) ==
    /\ Begins(c)
    /\ Becomes(c, Saving(<<"settings", "memory">>, [memory EXCEPT !.settings = settings]))
    /\ UNCHANGED <<memory, disk, tmp, orphaned, breaks>>

select_node(c, n) ==
    n \in Listed(memory) /\ ChangeSettings(c, [memory.settings EXCEPT !.selected = n])

set_mode(c) == ChangeSettings(c, [memory.settings EXCEPT !.mode = 1 - @])

(* A change under the lock, and the copies to save.                        *)
Change(c, files, m) ==
    /\ Begins(c) /\ memory' = m /\ Becomes(c, Saving(files, m))
    /\ UNCHANGED <<disk, tmp, breaks>>

add_manual_node(c, n) ==
    LET added == IF n \in Listed(memory) THEN memory.nodes
                 ELSE memory.nodes \cup {[id |-> n, from |-> Manual]}
    IN  /\ Change(c, <<"nodes", "settings">>,
                  [memory EXCEPT !.nodes = added,
                                 !.settings.selected = IF @ = NoLink THEN n ELSE @])
        /\ UNCHANGED orphaned

delete_node(c, n) ==
    LET left == [memory EXCEPT !.nodes = {m \in @ : m.id # n}]
    IN  /\ n \in Listed(memory)
        /\ \E other \in Some(left) :
             Change(c, <<"nodes", "settings">>,
                    [left EXCEPT !.settings.selected = IF @ = n THEN other ELSE @])
        /\ UNCHANGED orphaned

------------------------------------------------------------------------------
(* Commands on the subscriptions *)

(* Subscriptions whose adding is not saved yet.                            *)
BeingAdded == UNION {task[d].targets : d \in {e \in Command : task[e].what = "add"}}

Fetching(targets) == [Done EXCEPT !.what = "refresh", !.targets = targets]

(* Then it is saved, and fetched at once.                                  *)
add_subscription(c, s) ==
    /\ Begins(c) /\ s \notin memory.subscriptions
    /\ memory' = [memory EXCEPT !.subscriptions = @ \cup {s}]
    /\ Becomes(c, [Done EXCEPT !.what = "add", !.targets = {s}])
    /\ UNCHANGED <<disk, tmp, orphaned, breaks>>

remove_subscriptionOnly(c, s) ==
    /\ s \in memory.subscriptions
    /\ Change(c, <<"nodes", "subscriptions">>,
              [memory EXCEPT !.subscriptions = @ \ {s}])
    /\ orphaned' = IF \E d \in Command : s \in task[d].targets THEN orphaned \cup {s} ELSE orphaned

remove_subscription(c, s) ==
    /\ s \in memory.subscriptions
    /\ Change(c, <<"nodes", "subscriptions">>,
              [memory EXCEPT !.subscriptions = @ \ {s}, !.nodes = @ \ From(s, memory)])
    /\ orphaned' = IF \E d \in Command : s \in task[d].targets THEN orphaned \cup {s} ELSE orphaned

refresh_subscriptions(c, targets) ==
    /\ targets # {} /\ targets \subseteq memory.subscriptions
    /\ Begins(c) /\ Becomes(c, Fetching(targets))
    /\ orphaned' = orphaned \cup (targets \cap BeingAdded)
    /\ UNCHANGED <<memory, disk, tmp, breaks>>

(* The nodes of the subscription are replaced, but for those somebody else *)
(* has brought already.  A fetch that fails changes nothing.               *)
Fetched(c, s) ==
    /\ task[c].what = "refresh" /\ s \in task[c].targets
    /\ \/ \E got \in SUBSET Link :
            LET kept == memory.nodes \ From(s, memory)
                new  == got \ {n.id : n \in kept}
            IN  memory' = [memory EXCEPT !.nodes = kept \cup {[id |-> n, from |-> s] : n \in new}]
       \/ UNCHANGED memory
    /\ Becomes(c, [task[c] EXCEPT !.targets = @ \ {s}])
    /\ UNCHANGED <<disk, tmp, orphaned, commands, breaks>>

(* All fetched: a selection that has disappeared goes to another node.     *)
Settled(c) ==
    /\ task[c].what = "refresh" /\ task[c].targets = {} /\ task[c].todo = <<>>
    /\ \E n \in IF memory.settings.selected \in Listed(memory)
                THEN {memory.settings.selected} ELSE Some(memory) :
         memory' = [memory EXCEPT !.settings.selected = n]
    /\ Becomes(c, [Done EXCEPT !.what = "settled"])
    /\ UNCHANGED <<disk, tmp, orphaned, commands, breaks>>

(* The copy is taken under the lock a second time.                         *)
persist_subscriptions(c) ==
    /\ task[c].what \in {"add", "settled"} /\ task[c].todo = <<>>
    /\ Becomes(c, [task[c] EXCEPT !.todo = <<"subscriptions">>, !.copy = {memory}])
    /\ UNCHANGED <<memory, disk, tmp, orphaned, commands, breaks>>

------------------------------------------------------------------------------
(* Saving a copy: write the temporary file, which every saver of the file  *)
(* shares, then rename it; the nodes and the settings of a refresh are     *)
(* copied when its subscriptions are safe.                                 *)
Write(c, f) ==
    /\ task[c].todo # <<>> /\ Head(task[c].todo) = f /\ f \in File /\ ~task[c].written
    /\ tmp' = [tmp EXCEPT ![f] = {Copy(c)[f]}]
    /\ task' = [task EXCEPT ![c].written = TRUE]
    /\ UNCHANGED <<memory, disk, raced, orphaned, commands, breaks>>

AfterSave(t) ==
    LET rest == [t EXCEPT !.todo = Tail(@), !.written = FALSE]
    IN  CASE rest.todo # <<>>    -> rest
          [] t.what = "add"      -> Fetching(t.targets)
          [] t.what = "settled"  -> Saving(<<"nodes", "settings">>, memory)
          [] OTHER               -> Done

atomic_writeLastOnly(c, f) ==
    /\ task[c].written /\ Head(task[c].todo) = f
    /\ IF tmp[f] = {} THEN BreaksOff(c) /\ UNCHANGED <<disk, tmp>>
       ELSE /\ disk' = [disk EXCEPT ![f] = IF Len(task[c].todo) > 1 THEN @
                                          ELSE CHOOSE x \in tmp[f] : TRUE]
            /\ tmp' = [tmp EXCEPT ![f] = {}] /\ Becomes(c, AfterSave(task[c]))
    /\ UNCHANGED <<memory, orphaned, commands, breaks>>

atomic_write(c, f) ==
    /\ task[c].written /\ Head(task[c].todo) = f
    /\ IF tmp[f] = {} THEN BreaksOff(c) /\ UNCHANGED <<disk, tmp>>
       ELSE /\ disk' = [disk EXCEPT ![f] = CHOOSE x \in tmp[f] : TRUE]
            /\ tmp' = [tmp EXCEPT ![f] = {}] /\ Becomes(c, AfterSave(task[c]))
    /\ UNCHANGED <<memory, orphaned, commands, breaks>>

PutBack(c) ==
    /\ task[c].todo = <<"memory">>
    /\ memory' = [memory EXCEPT !.settings = Copy(c).settings]
    /\ Becomes(c, Done) /\ UNCHANGED <<disk, tmp, orphaned, commands, breaks>>

(* What is left of the command is not done.                                *)
WriteFails(c) ==
    /\ task[c].todo # <<>> /\ breaks < MaxBreaks /\ breaks' = breaks + 1
    /\ Becomes(c, Done)
    /\ orphaned' = IF "subscriptions" \in Pending(task[c])
                   THEN orphaned \cup SymDiff(Copy(c).subscriptions, disk.subscriptions)
                   ELSE orphaned
    /\ UNCHANGED <<memory, disk, tmp, commands>>

(* Quit or killed, and started again.                                      *)
LoadBook ==
    /\ breaks < MaxBreaks /\ breaks' = breaks + 1
    /\ memory' = disk /\ task' = [c \in Command |-> Done]
    /\ UNCHANGED <<disk, tmp, raced, orphaned, commands>>

------------------------------------------------------------------------------
BookNext ==
    \/ \E c \in Command :
         \/ \E n \in Link : select_node(c, n) \/ add_manual_node(c, n) \/ delete_node(c, n)
         \/ set_mode(c)
         \/ \E s \in Source : add_subscription(c, s) \/ remove_subscription(c, s) \/ Fetched(c, s)
         \/ \E targets \in SUBSET Source : refresh_subscriptions(c, targets)
         \/ Settled(c) \/ persist_subscriptions(c) \/ PutBack(c) \/ WriteFails(c)
         \/ \E f \in File : Write(c, f) \/ atomic_write(c, f)
    \/ LoadBook

BookSpec == BookInit /\ [][BookNext]_bookVars
------------------------------------------------------------------------------
(* Correctness *)

Book ==
    [nodes : SUBSET [id : Link, from : Source \cup {Manual}], subscriptions : SUBSET Source,
     settings : [selected : Link \cup {NoLink}, mode : 0 .. 1]]

BookTypeOK ==
    /\ memory \in Book /\ disk \in Book
    /\ \A m \in {memory, disk} : Cardinality(m.nodes) = Cardinality(Listed(m))

(* A node never outlives its subscription, in memory or on disk, whatever  *)
(* write fails and wherever the App is killed: it could not be refreshed   *)
(* or removed with it.  Three things break it: a refresh that fetches while *)
(* the subscription is removed, or before its adding is saved, adding or   *)
(* removing one without being able to save that, and two commands that     *)
(* save one file.                                                          *)
NoOrphans ==
    \A m \in {memory, disk} : \A n \in m.nodes :
      \/ n.from \in m.subscriptions \cup orphaned \cup {Manual}
      \/ raced # {} /\ (m = disk \/ breaks > 0)

(* When no command is under way, the files say what the window shows, but  *)
(* for a file two commands held copies of at once, for what one of the two *)
(* then leaves unsaved, and for what a failed write or a crash has left    *)
(* undone.                                                                 *)
SavedIsShown ==
    (breaks = 0 /\ \A c \in Command : task[c] = Done)
    => \A f \in File \ raced : disk[f] = memory[f]

===============================================================================
