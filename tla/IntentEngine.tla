----------------------------- MODULE IntentEngine -----------------------------
(***************************************************************************)
(* The intent filter of the desktop app: hosts seen in the core's log are  *)
(* queued, a paid gateway is asked about them, and its verdicts are cached *)
(* in memory and on disk.  (What the verdicts do to the core's rules is    *)
(* module RuleTable.)                                                      *)
(*                                                                         *)
(* All of it is behind the lock of AppState; a tick holds the lock from    *)
(* the first candidate to the last, the gateway's answers included.  The   *)
(* order of candidates within a tick (their priority) is left open.        *)
(***************************************************************************)
EXTENDS Naturals, Sequences, FiniteSets, TLC

CONSTANTS
    Host, NoHost,
    Site,        \* the site of each host
    Apex,        \* hosts that are their own registrable domain
    Model,       \* what the fingerprint of the cache covers
    Decided, Undecided,  \* answers: block or allow; unsure or partial
    Ttl,         \* life of a verdict, by the answer it comes from
    InheritCap,  \* INHERIT_TTL_CAP_SECS
    Cooldown,    \* GATEWAY_ERROR_COOLDOWN_SECS
    Span, Limit, \* the budget's windows and what each allows
    CacheMax, BatchMax, PersistEvery,
    MaxTime, MaxCalls, MaxSaves  \* bounds: clock, questions, settings saved

Answers == Decided \cup Undecided
Window  == {"minute", "day"}

ASSUME SiteAssumption == DOMAIN Site = Host /\ Apex \subseteq Host /\ NoHost \notin Host

ASSUME AnswersAssumption == "error" \notin Answers

ASSUME SpanAssumption ==
    /\ Ttl \in [Answers -> Nat \ {0}] /\ InheritCap \in Nat \ {0} /\ Cooldown \in Nat
    /\ Span \in [Window -> Nat] /\ Limit \in [Window -> Nat]

ASSUME BoundAssumption ==
    /\ {CacheMax, BatchMax, PersistEvery} \subseteq Nat \ {0}
    /\ {MaxTime, MaxCalls, MaxSaves} \subseteq Nat

VARIABLES
    now,
    engine, model,         \* there is an engine; the model it asks
    cache, file,           \* verdicts by host; intent-cache.json
    known, pending,        \* the observer's table and queue
    retry,                 \* gateway_retry_after
    log, born,             \* every question asked; how many before this engine
    judging, batch, ticks, \* a tick under way, its candidates; ticks done
    saves,                 \* bound: settings saved and restarts
    lost                   \* history: hosts whose verdict was thrown away

chosen  == <<engine, model>>
queue    == <<known, pending>>
asked    == <<retry, log, born>>
tick     == <<judging, batch, ticks>>
engineVars == <<now, chosen, cache, file, queue, asked, tick, saves, lost>>

------------------------------------------------------------------------------
(* Helpers *)

NoEntry == [h \in {} |-> [verdict |-> "none", since |-> 0, until |-> 0, from |-> NoHost]]

Without(c, hosts) == [h \in DOMAIN c \ hosts |-> c[h]]

Fresh(e) == now < e.until

LiveDecided(h) ==
    h \in DOMAIN cache /\ Fresh(cache[h]) /\ cache[h].verdict \in Decided

Live(h) == h \in DOMAIN cache /\ Fresh(cache[h])

Queued(h) == h \in batch \/ \E i \in DOMAIN pending : pending[i] = h

Requeue(h, q) == IF \E i \in DOMAIN q : q[i] = h THEN q ELSE Append(q, h)

(* The verdicts a host may inherit: given for a host of its site itself,   *)
(* and not "unknown yet"; of these the newest.                             *)
Sources(h) ==
    {s \in DOMAIN cache : /\ h \notin Apex /\ Site[s] = Site[h] /\ cache[s].from = NoHost
                          /\ Fresh(cache[s]) /\ cache[s].verdict \in Decided}

Newest(hosts) == {s \in hosts : \A t \in hosts : cache[t].since <= cache[s].since}

Oldest(c) == {s \in DOMAIN c : \A t \in DOMAIN c : c[s].since <= c[t].since}

(* A full cache drops its oldest verdict, be it the one just put.          *)
Put(h, e) ==
    LET full == [x \in DOMAIN cache \cup {h} |-> IF x = h THEN e ELSE cache[x]]
        gone == IF e.from = NoHost THEN lost \ {h} ELSE lost
    IN  IF Cardinality(DOMAIN full) <= CacheMax
        THEN cache' = full /\ lost' = gone
        ELSE \E v \in Oldest(full) : cache' = Without(full, {v}) /\ lost' = gone \cup {v}

Inherited(s) ==
    [verdict |-> cache[s].verdict, since |-> now, from |-> s,
     until |-> IF cache[s].until < now + InheritCap THEN cache[s].until ELSE now + InheritCap]

(* VerdictCache::lookup: the host's own verdict, else one of its site, else *)
(* nothing; a verdict that has expired is removed by looking at it.        *)
Hit(h) == Live(h) /\ UNCHANGED <<cache, lost>>

Inherits(h) ==
    /\ ~Live(h)
    /\ \E s \in Newest(Sources(h)) : Put(h, Inherited(s))

Misses(h) == ~Live(h) /\ Sources(h) = {}

Forget(h) == cache' = Without(cache, {h}) /\ UNCHANGED lost

(* The budget counts the questions this engine has asked.                  *)
Spent(w, from) == Cardinality({i \in from + 1 .. Len(log) : now - log[i].at < Span[w]})

AffordableOneMore == \A w \in Window : Spent(w, born) <= Limit[w]

Affordable == \A w \in Window : Spent(w, born) < Limit[w]

(* The last answer about each host by a model, and how long it is good.    *)
Answer(i, m) == log[i].model = m /\ log[i].result # "error"

Standing(m) ==
    {i \in DOMAIN log : Answer(i, m) /\ \A j \in i + 1 .. Len(log) :
                                        Answer(j, m) => log[j].host # log[i].host}

Until(i) == log[i].at + Ttl[log[i].result]

Unlocked == ~judging

EngineInit ==
    /\ now = 0 /\ engine \in BOOLEAN /\ model \in Model
    /\ cache = NoEntry
    /\ file = [model |-> model, entries |-> NoEntry]
    /\ known = {} /\ pending = <<>> /\ retry = [h \in Host |-> 0] /\ log = <<>> /\ born = 0
    /\ judging = FALSE /\ batch = {} /\ ticks = 0
    /\ saves = 0 /\ lost = {}

------------------------------------------------------------------------------
(* Observing *)

(* A connection to h appears in the core's log.                            *)
Observe(h) ==
    /\ engine /\ Unlocked
    /\ known' = known \cup {h}
    /\ LET q == IF h \in known THEN pending ELSE Append(pending, h)
       IN  \/ (Hit(h) \/ Inherits(h)) /\ pending' = q
           \/ Misses(h) /\ Forget(h) /\ pending' = Requeue(h, q)
    /\ UNCHANGED <<now, chosen, file, asked, tick, saves>>

------------------------------------------------------------------------------
(* A tick *)

TickBegins ==
    /\ engine /\ Unlocked /\ Len(log) < MaxCalls /\ judging' = TRUE
    /\ LET n == IF Len(pending) < BatchMax THEN Len(pending) ELSE BatchMax
       IN  /\ batch' = {pending[i] : i \in 1 .. n}
           /\ pending' = SubSeq(pending, n + 1, Len(pending))
    /\ UNCHANGED <<now, chosen, cache, file, known, asked, ticks, saves, lost>>

Leaves(h) == h \in batch /\ batch' = batch \ {h} /\ UNCHANGED <<judging, ticks>>

Cached(h) ==
    /\ Leaves(h) /\ (Hit(h) \/ Inherits(h))
    /\ UNCHANGED <<now, chosen, file, queue, asked, saves>>

(* The gateway failed for this host a moment ago, or the budget is spent.  *)
Postponed(h) ==
    /\ Leaves(h) /\ Misses(h) /\ Forget(h) /\ (now < retry[h] \/ ~Affordable)
    /\ pending' = Requeue(h, pending)
    /\ UNCHANGED <<now, chosen, file, known, asked, saves>>

Ask(h, result) ==
    /\ Leaves(h) /\ Misses(h) /\ now >= retry[h] /\ Affordable
    /\ log' = Append(log, [host |-> h, at |-> now, model |-> model, result |-> result])
    /\ UNCHANGED <<now, chosen, file, known, born, saves>>

GatewayFailsDropped(h) ==
    /\ Ask(h, "error") /\ Forget(h)
    /\ retry' = [retry EXCEPT ![h] = now + Cooldown] /\ UNCHANGED pending

GatewayFails(h) ==
    /\ Ask(h, "error") /\ Forget(h)
    /\ retry' = [retry EXCEPT ![h] = now + Cooldown]
    /\ pending' = Requeue(h, pending)

Judged(h) ==
    /\ \E a \in Answers :
         /\ Ask(h, a)
         /\ Put(h, [verdict |-> a, since |-> now, until |-> now + Ttl[a], from |-> NoHost])
    /\ retry' = [retry EXCEPT ![h] = 0] /\ UNCHANGED pending

(* Every PersistEvery-th tick writes the cache, if the disk lets it.       *)
Saved == [model |-> model, entries |-> cache]

TickEnds ==
    /\ judging /\ batch = {} /\ judging' = FALSE
    /\ ticks' = (ticks + 1) % PersistEvery
    /\ IF ticks' = 0 THEN file' \in {file, Saved} ELSE UNCHANGED file
    /\ UNCHANGED <<now, chosen, cache, queue, asked, batch, saves, lost>>

Clock == now < MaxTime /\ Unlocked /\ now' = now + 1
         /\ UNCHANGED <<chosen, cache, file, queue, asked, tick, saves, lost>>

------------------------------------------------------------------------------
(* Settings *)

LoadedAny(m) == [h \in {x \in DOMAIN file.entries : Fresh(file.entries[x])} |-> file.entries[h]]

(* IntentEngine::new: the verdicts of another fingerprint are not used.    *)
Loaded(m) ==
    IF file.model # m THEN NoEntry
    ELSE [h \in {x \in DOMAIN file.entries : Fresh(file.entries[x])} |-> file.entries[h]]

(* History: hosts whose last answer of m is not on disk.                   *)
Unsaved(m) ==
    {log[i].host : i \in {j \in Standing(m) :
       ~ /\ file.model = m /\ log[j].host \in DOMAIN file.entries
         /\ Until(j) <= file.entries[log[j].host].until}}

(* The engine is made anew from what is on disk.                           *)
Rebuild(on, m) ==
    /\ Unlocked /\ saves < MaxSaves /\ saves' = saves + 1
    /\ engine' = on /\ model' = m
    /\ cache' = (IF on THEN Loaded(m) ELSE NoEntry)
    /\ lost' = lost \cup Unsaved(m)
    /\ known' = {} /\ pending' = <<>> /\ retry' = [h \in Host |-> 0] /\ born' = Len(log)
    /\ UNCHANGED <<now, file, log, judging, batch>>

(* save_settings, whatever the user changed.                               *)
FollowSettings ==
    /\ \E on \in BOOLEAN, m \in Model : Rebuild(on, m)
    /\ UNCHANGED ticks

(* The app is quit or killed and started again; nothing is flushed.        *)
Relaunch == Rebuild(engine, model) /\ ticks' = 0

(* intent_allow: what is known about a host the user corrects is dropped.  *)
Allow(h) ==
    /\ engine /\ Unlocked
    /\ cache' = Without(cache, {h}) /\ lost' = lost \cup ({h} \cap DOMAIN cache)
    /\ UNCHANGED <<now, chosen, file, queue, asked, tick, saves>>

ClearCache ==
    /\ engine /\ Unlocked /\ cache' = NoEntry /\ lost' = lost \cup DOMAIN cache
    /\ file' \in {file, [Saved EXCEPT !.entries = NoEntry]}
    /\ UNCHANGED <<now, chosen, queue, asked, tick, saves>>

------------------------------------------------------------------------------
Judging(h) == Cached(h) \/ Postponed(h) \/ GatewayFails(h) \/ Judged(h)

EngineNext ==
    \/ \E h \in Host : Observe(h) \/ Judging(h) \/ Allow(h)
    \/ TickBegins \/ TickEnds \/ Clock
    \/ FollowSettings \/ Relaunch \/ ClearCache

EngineSpec == EngineInit /\ [][EngineNext]_engineVars
------------------------------------------------------------------------------
(* Correctness *)

CacheEntry == [verdict : Answers, since : Nat, until : Nat, from : Host \cup {NoHost}]

(* Every variable stays in its range; nothing is queued twice, and what is *)
(* queued is in the observer's table.                                      *)
EngineTypeOK ==
    /\ now \in Nat /\ engine \in BOOLEAN /\ model \in Model
    /\ DOMAIN cache \subseteq Host /\ \A h \in DOMAIN cache : cache[h] \in CacheEntry
    /\ Cardinality(DOMAIN cache) <= CacheMax
    /\ file.model \in Model /\ \A h \in DOMAIN file.entries : file.entries[h] \in CacheEntry
    /\ known \subseteq Host /\ pending \in Seq(known) /\ batch \subseteq known
    /\ \A i, j \in DOMAIN pending : pending[i] = pending[j] => i = j
    /\ retry \in [Host -> Nat] /\ born <= Len(log)
    /\ \A i \in DOMAIN log :
         log[i] \in [host : Host, at : Nat, model : Model, result : Answers \cup {"error"}]
    /\ judging \in BOOLEAN /\ ticks \in 0 .. PersistEvery - 1

(* Whatever is evicted, inherited, reloaded or made anew after the model   *)
(* was changed and changed back: a verdict in the cache or in its file is  *)
(* what the model it is filed under has answered, about the host or about  *)
(* one of its site, and it ends no later than that answer does.            *)
AnswerOf(h, e, m) ==
    \E i \in DOMAIN log :
      /\ log[i].model = m /\ log[i].result = e.verdict
      /\ log[i].host = (IF e.from = NoHost THEN h ELSE e.from)
      /\ Site[log[i].host] = Site[h] \/ e.from = NoHost
      /\ e.until <= log[i].at + Ttl[e.verdict]

VerdictsAreAnswers ==
    /\ \A h \in DOMAIN cache : AnswerOf(h, cache[h], model)
    /\ \A h \in DOMAIN file.entries : AnswerOf(h, file.entries[h], file.model)

(* A host that has been seen and is in nobody's queue has a verdict, or    *)
(* had one: neither a gateway that fails, nor a spent budget, nor an       *)
(* answer that cannot be read makes it drop out.                           *)
NoneForgotten == \A h \in known : Queued(h) \/ h \in DOMAIN cache \/ h \in lost

(* One question per host (cache.rs: "the same host is asked only once"):   *)
(* while this model's last answer lives the gateway is not asked again,    *)
(* unless the answer was evicted, cleared, corrected by the user or not    *)
(* yet on disk when the engine was made anew.                              *)
Answered(h) == \E i \in Standing(model) : log[i].host = h /\ now < Until(i)

AskedOnce ==
    [][\A h \in Host :
         (log' # log /\ log'[Len(log')].host = h /\ Answered(h)) => h \in lost]_engineVars

(* The budget: in no window more questions than its limit, times the       *)
(* engines there have been, as each starts with empty windows.             *)
BudgetKept == \A w \in Window : Spent(w, 0) <= Limit[w] * (saves + 1)

==============================================================================
