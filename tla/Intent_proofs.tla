---------------------------- MODULE Intent_proofs ----------------------------
(***************************************************************************)
(* What TLAPS proves of the intent filter.                                 *)
(*                                                                         *)
(* The engine (IntentEngine), for any hosts, sites, models, lives of       *)
(* verdicts, budgets and sizes of the cache: a verdict is what its model   *)
(* has answered, no host is forgotten, none is asked about twice while its *)
(* answer lives, no window of the budget is exceeded, the cache keeps to   *)
(* its size, and no host is queued twice.                                  *)
(*                                                                         *)
(* Its audit (AuditSync), for any day length, file size and back-off, any  *)
(* number of rows, faults and changes of mind: no row falls between two    *)
(* days, nothing is sent by a user who does not want it, nothing before    *)
(* the back-off is over, and a device has one object of each day.          *)
(***************************************************************************)
EXTENDS IntentEngine, AuditSync, SequenceTheorems, FiniteSetTheorems, TLAPS

(* What a cache, a question and the state may be.                          *)
Caches == UNION {[D -> CacheEntry] : D \in SUBSET Host}

Question == [host : Host, at : Nat, model : Model, result : Answers \cup {"error"}]

EngineTyped ==
    /\ now \in Nat /\ engine \in BOOLEAN /\ model \in Model
    /\ cache \in Caches /\ file \in [model : Model, entries : Caches]
    /\ known \subseteq Host /\ pending \in Seq(Host) /\ log \in Seq(Question)
    /\ judging \in BOOLEAN /\ batch \subseteq Host

(* A batch is there in a tick only, and a tick runs in an engine only.     *)
TickHasEngine == (batch # {} => judging) /\ (judging => engine)

(* While there is an engine, the last answer about a host is in its cache  *)
(* for as long as it lives, or the host is one whose verdict is lost.      *)
KeptUntil(x, u) == x \in lost \/ (x \in DOMAIN cache /\ u <= cache[x].until)

Kept(i) == KeptUntil(log[i].host, Until(i))

AnswersKept == engine => \A i \in Standing(model) : now < Until(i) => Kept(i)

EngineInv ==
    EngineTyped /\ TickHasEngine /\ VerdictsAreAnswers /\ NoneForgotten /\ AnswersKept

------------------------------------------------------------------------------
(* The queue *)

(* The hosts of a queue.                                                   *)
InQueue(q) == {q[i] : i \in DOMAIN q}

(* Putting a host back adds it, and nothing else.                          *)
LEMMA RequeueAdds ==
    ASSUME NEW q \in Seq(Host), NEW h \in Host
    PROVE  Requeue(h, q) \in Seq(Host) /\ InQueue(Requeue(h, q)) = InQueue(q) \cup {h}
<1>1. CASE \E i \in DOMAIN q : q[i] = h
    BY <1>1 DEF Requeue, InQueue
<1>2. CASE ~ \E i \in DOMAIN q : q[i] = h
    <2>1. Requeue(h, q) = Append(q, h)
        BY <1>2 DEF Requeue
    <2> QED
        BY <2>1, AppendProperties DEF InQueue
<1> QED
    BY <1>1, <1>2

(* So does observing one.                                                  *)
LEMMA AppendAdds ==
    ASSUME NEW q \in Seq(Host), NEW h \in Host
    PROVE  Append(q, h) \in Seq(Host) /\ InQueue(Append(q, h)) = InQueue(q) \cup {h}
    BY AppendProperties DEF InQueue

(* What is left when the first n of a queue are taken.                     *)
LEMMA RestOfQueue ==
    ASSUME NEW q \in Seq(Host), NEW n \in Nat, n <= Len(q)
    PROVE  /\ SubSeq(q, n + 1, Len(q)) \in Seq(Host)
           /\ Len(SubSeq(q, n + 1, Len(q))) = Len(q) - n
           /\ \A i \in 1 .. Len(q) - n : SubSeq(q, n + 1, Len(q))[i] = q[n + i]
<1> DEFINE m == n + 1
           k == Len(q)
<1>1. k \in Int /\ m \in Int /\ k - m + 1 = k - n /\ n <= k
    BY LenProperties
<1>2. \A i \in m .. k : q[i] \in Host
    BY ElementOfSeq, LenProperties
<1>3. \A i \in 1 .. k - n : m + i - 1 = n + i
    BY <1>1
<1> HIDE DEF m, k
<1>4. /\ SubSeq(q, m, k) \in Seq(Host)
      /\ Len(SubSeq(q, m, k)) = IF m <= k THEN k - m + 1 ELSE 0
      /\ \A i \in 1 .. k - m + 1 : SubSeq(q, m, k)[i] = q[m + i - 1]
    BY <1>1, <1>2, SubSeqProperties
<1>5. Len(SubSeq(q, m, k)) = k - n
    BY <1>1, <1>4 DEF m
<1>6. \A i \in 1 .. k - n : SubSeq(q, m, k)[i] = q[n + i]
    BY <1>1, <1>3, <1>4
<1> QED
    BY <1>4, <1>5, <1>6 DEF m, k

------------------------------------------------------------------------------
(* The cache *)

LEMMA CacheTyped ==
    ASSUME NEW c \in Caches
    PROVE  /\ DOMAIN c \subseteq Host /\ \A h \in DOMAIN c : c[h] \in CacheEntry
           /\ c = [h \in DOMAIN c |-> c[h]]
    BY DEF Caches

(* and every such function is one.                                         *)
LEMMA IsACache ==
    ASSUME NEW D \in SUBSET Host, NEW f \in [D -> CacheEntry]
    PROVE  f \in Caches
    BY DEF Caches

(* The empty cache has no host.                                            *)
LEMMA NoEntryTyped == NoEntry \in Caches /\ DOMAIN NoEntry = {}
<1>1. NoEntry \in [{} -> CacheEntry] /\ DOMAIN NoEntry = {}
    BY DEF NoEntry
<1> QED
    BY <1>1, IsACache

(* Taking hosts out of a cache leaves the others as they were.             *)
LEMMA WithoutLess ==
    ASSUME NEW c \in Caches, NEW gone
    PROVE  /\ Without(c, gone) \in Caches /\ DOMAIN Without(c, gone) = DOMAIN c \ gone
           /\ \A h \in DOMAIN c \ gone : Without(c, gone)[h] = c[h]
<1>1. Without(c, gone) \in [DOMAIN c \ gone -> CacheEntry]
    BY CacheTyped DEF Without
<1> QED
    BY <1>1, IsACache, CacheTyped DEF Without

(* Putting an entry drops no other, unless it is counted as lost.          *)
LEMMA PutKeeps ==
    ASSUME EngineTyped, NEW h \in Host, NEW e \in CacheEntry, Put(h, e)
    PROVE  /\ cache' \in Caches
           /\ \A x \in DOMAIN cache' : /\ x = h \/ x \in DOMAIN cache
                                       /\ cache'[x] = IF x = h THEN e ELSE cache[x]
           /\ \A x \in DOMAIN cache \cup {h} : x \in DOMAIN cache' \/ x \in lost'
           /\ lost \ {h} \subseteq lost' /\ (e.from # NoHost => lost \subseteq lost')
<1> DEFINE full == [x \in DOMAIN cache \cup {h} |-> IF x = h THEN e ELSE cache[x]]
           gone == IF e.from = NoHost THEN lost \ {h} ELSE lost
<1>1. \/ cache' = full /\ lost' = gone
      \/ \E v \in Oldest(full) : cache' = Without(full, {v}) /\ lost' = gone \cup {v}
    BY DEF Put
<1>2. /\ full \in Caches /\ DOMAIN full = DOMAIN cache \cup {h}
      /\ \A x \in DOMAIN full : full[x] = IF x = h THEN e ELSE cache[x]
    <2>1. full \in [DOMAIN cache \cup {h} -> CacheEntry]
        BY CacheTyped DEF EngineTyped
    <2>2. DOMAIN cache \cup {h} \in SUBSET Host
        BY CacheTyped DEF EngineTyped
    <2> QED
        BY <2>1, <2>2, IsACache
<1>3. lost \ {h} \subseteq gone /\ (e.from # NoHost => lost \subseteq gone)
    OBVIOUS
<1> HIDE DEF full, gone
<1>4. CASE cache' = full /\ lost' = gone
    BY <1>2, <1>3, <1>4
<1>5. ASSUME NEW v, cache' = Without(full, {v}), lost' = gone \cup {v}
      PROVE  /\ cache' \in Caches
             /\ \A x \in DOMAIN cache' : /\ x = h \/ x \in DOMAIN cache
                                         /\ cache'[x] = IF x = h THEN e ELSE cache[x]
             /\ \A x \in DOMAIN cache \cup {h} : x \in DOMAIN cache' \/ x \in lost'
    <2>1. /\ Without(full, {v}) \in Caches /\ DOMAIN Without(full, {v}) = DOMAIN full \ {v}
          /\ \A x \in DOMAIN full \ {v} : Without(full, {v})[x] = full[x]
        BY <1>2, WithoutLess
    <2> QED
        BY <1>2, <1>5, <2>1
<1> QED
    BY <1>1, <1>3, <1>4, <1>5

(* Looking a host up: its verdict, one of its site's, or the old one gone. *)
LookedUp(h) == Hit(h) \/ Inherits(h) \/ (Misses(h) /\ Forget(h))

(* An inherited verdict is the answer its source has.                      *)
LEMMA InheritedIsAnswer ==
    ASSUME EngineTyped, VerdictsAreAnswers, NEW h \in Host, NEW s \in Newest(Sources(h))
    PROVE  /\ Inherited(s) \in CacheEntry /\ Inherited(s).from # NoHost
           /\ AnswerOf(h, Inherited(s), model)
<1>1. /\ s \in DOMAIN cache /\ Site[s] = Site[h] /\ cache[s].from = NoHost /\ Fresh(cache[s])
    BY DEF Newest, Sources
<1>2. s \in Host /\ cache[s] \in CacheEntry /\ s # NoHost
    BY <1>1, CacheTyped, SiteAssumption DEF EngineTyped
<1>3. /\ Inherited(s).verdict = cache[s].verdict /\ Inherited(s).from = s
      /\ Inherited(s).since = now
      /\ Inherited(s).until = IF cache[s].until < now + InheritCap THEN cache[s].until
                              ELSE now + InheritCap
    BY DEF Inherited
<1>4. Inherited(s).until \in Nat /\ Inherited(s).until <= cache[s].until
    BY <1>2, <1>3, SpanAssumption DEF CacheEntry, EngineTyped
<1>5. Inherited(s) \in CacheEntry
    BY <1>2, <1>4, SpanAssumption DEF CacheEntry, EngineTyped, Inherited
<1>6. AnswerOf(s, cache[s], model)
    BY <1>1 DEF VerdictsAreAnswers
<1>7. PICK i \in DOMAIN log :
        /\ log[i].model = model /\ log[i].result = cache[s].verdict /\ log[i].host = s
        /\ cache[s].until <= log[i].at + Ttl[cache[s].verdict]
    BY <1>1, <1>6 DEF AnswerOf
<1>8. log[i] \in Question
    BY <1>7, ElementOfSeq DEF EngineTyped
<1>9. log[i].at + Ttl[cache[s].verdict] \in Nat
    BY <1>2, <1>8, SpanAssumption DEF Question, CacheEntry
<1>10. Inherited(s).until <= log[i].at + Ttl[cache[s].verdict]
    BY <1>2, <1>4, <1>7, <1>9 DEF CacheEntry
<1> QED
    BY <1>1, <1>2, <1>3, <1>5, <1>7, <1>10 DEF AnswerOf

(* A look-up loses no host but the one it misses, and no living answer.    *)
LEMMA LookupKeeps ==
    ASSUME EngineTyped, VerdictsAreAnswers, NEW h \in Host, LookedUp(h)
    PROVE  /\ cache' \in Caches
           /\ \A x \in DOMAIN cache' : AnswerOf(x, cache'[x], model)
           /\ \A x \in DOMAIN cache \cup lost : x # h => x \in DOMAIN cache' \cup lost'
           /\ (Hit(h) \/ Inherits(h)) => h \in DOMAIN cache' \cup lost'
           /\ \A x \in Host, u \in Nat : now < u /\ KeptUntil(x, u) => KeptUntil(x, u)'
<1>1. CASE Hit(h)
    BY <1>1 DEF Hit, Live, VerdictsAreAnswers, EngineTyped, KeptUntil, Inherits
<1>2. CASE Inherits(h)
    <2>1. PICK s \in Newest(Sources(h)) : Put(h, Inherited(s))
        BY <1>2 DEF Inherits
    <2>2. PICK e \in CacheEntry : e = Inherited(s) /\ e.from # NoHost /\ AnswerOf(h, e, model)
        BY <2>1, InheritedIsAnswer
    <2>3. Put(h, e)
        BY <2>1, <2>2
    <2>4. /\ cache' \in Caches
          /\ \A x \in DOMAIN cache' : /\ x = h \/ x \in DOMAIN cache
                                      /\ cache'[x] = IF x = h THEN e ELSE cache[x]
          /\ \A x \in DOMAIN cache \cup {h} : x \in DOMAIN cache' \/ x \in lost'
          /\ lost \subseteq lost'
        BY <2>2, <2>3, PutKeeps
    <2>5. ASSUME NEW x \in DOMAIN cache' PROVE AnswerOf(x, cache'[x], model)
        BY <2>2, <2>4, <2>5 DEF VerdictsAreAnswers
    <2>6. ASSUME NEW x \in Host, NEW u \in Nat, now < u, KeptUntil(x, u) PROVE KeptUntil(x, u)'
        <3>1. CASE x \in lost
            BY <2>4, <3>1 DEF KeptUntil
        <3>2. CASE x \in DOMAIN cache /\ u <= cache[x].until
            <4>1. Live(x)
                BY <2>6, <3>2, CacheTyped DEF Live, Fresh, EngineTyped, CacheEntry
            <4>2. x # h
                BY <1>2, <4>1 DEF Inherits
            <4> QED
                BY <2>4, <3>2, <4>2 DEF KeptUntil
        <3> QED
            BY <2>6, <3>1, <3>2 DEF KeptUntil
    <2> QED
        BY <2>4, <2>5, <2>6
<1>3. CASE Misses(h) /\ Forget(h)
    <2>0. /\ Without(cache, {h}) \in Caches /\ DOMAIN Without(cache, {h}) = DOMAIN cache \ {h}
          /\ \A x \in DOMAIN cache \ {h} : Without(cache, {h})[x] = cache[x]
        BY WithoutLess DEF EngineTyped
    <2>1. /\ cache' \in Caches /\ DOMAIN cache' = DOMAIN cache \ {h} /\ lost' = lost
          /\ \A x \in DOMAIN cache' : cache'[x] = cache[x]
        BY <1>3, <2>0 DEF Forget
    <2>2. ~ Live(h) /\ ~ Hit(h) /\ ~ Inherits(h)
        BY <1>3 DEF Misses, Hit, Inherits, Newest
    <2>3. ASSUME NEW x \in DOMAIN cache' PROVE AnswerOf(x, cache'[x], model)
        BY <2>1, <2>3 DEF VerdictsAreAnswers
    <2>4. ASSUME NEW x \in Host, NEW u \in Nat, now < u, KeptUntil(x, u) PROVE KeptUntil(x, u)'
        <3>1. CASE x \in lost
            BY <2>1, <3>1 DEF KeptUntil
        <3>2. CASE x \in DOMAIN cache /\ u <= cache[x].until
            <4>1. Live(x)
                BY <2>4, <3>2, CacheTyped DEF Live, Fresh, EngineTyped, CacheEntry
            <4> QED
                BY <2>1, <2>2, <3>2, <4>1 DEF KeptUntil
        <3> QED
            BY <2>4, <3>1, <3>2 DEF KeptUntil
    <2> QED
        BY <2>1, <2>2, <2>3, <2>4
<1> QED
    BY <1>1, <1>2, <1>3 DEF LookedUp

------------------------------------------------------------------------------
(* The questions asked *)

(* What is standing is an answer, with a host and an end.                  *)
LEMMA StandingTyped ==
    ASSUME EngineTyped, NEW m, NEW i \in Standing(m)
    PROVE  /\ i \in DOMAIN log /\ log[i].host \in Host /\ Until(i) \in Nat
           /\ log[i].model = m /\ log[i].result \in Answers
<1>1. i \in DOMAIN log /\ log[i].model = m /\ log[i].result # "error"
    BY DEF Standing, Answer
<1>2. log[i] \in Question
    BY <1>1, ElementOfSeq DEF EngineTyped
<1>3. log[i].host \in Host /\ log[i].at \in Nat /\ log[i].result \in Answers
    BY <1>1, <1>2 DEF Question
<1>4. Ttl[log[i].result] \in Nat
    BY <1>3, SpanAssumption
<1> QED
    BY <1>1, <1>3, <1>4 DEF Until

(* A question more leaves the others; an answer replaces the one before.   *)
LEMMA LogGrows ==
    ASSUME EngineTyped, NEW q \in Question, log' = Append(log, q), NEW m
    PROVE  /\ log' \in Seq(Question) /\ \A i \in DOMAIN log : i \in DOMAIN log' /\ log'[i] = log[i]
           /\ Len(log) + 1 \in DOMAIN log' /\ log'[Len(log) + 1] = q
           /\ \A i \in Standing(m)' :
                \/ i \in Standing(m) /\ ~(q.model = m /\ q.result # "error" /\ q.host = log[i].host)
                \/ i = Len(log) + 1 /\ q.result # "error"
<1>1. /\ log \in Seq(Question) /\ log' \in Seq(Question) /\ Len(log) \in Nat
      /\ DOMAIN log = 1 .. Len(log) /\ DOMAIN log' = 1 .. Len(log) + 1
      /\ Len(log') = Len(log) + 1
      /\ \A i \in 1 .. Len(log) : log'[i] = log[i]
      /\ log'[Len(log) + 1] = q
    BY AppendProperties, LenProperties DEF EngineTyped
<1>2. ASSUME NEW i \in Standing(m)', i # Len(log) + 1
      PROVE  i \in Standing(m) /\ ~(q.model = m /\ q.result # "error" /\ q.host = log[i].host)
    <2>1. /\ i \in DOMAIN log' /\ Answer(i, m)'
          /\ \A j \in i + 1 .. Len(log') : Answer(j, m)' => log'[j].host # log'[i].host
        BY DEF Standing
    <2>2. i \in 1 .. Len(log) /\ log'[i] = log[i] /\ Answer(i, m)
        BY <1>1, <1>2, <2>1 DEF Answer
    <2>3. ASSUME NEW j \in i + 1 .. Len(log), Answer(j, m) PROVE log[j].host # log[i].host
        <3>1. j \in 1 .. Len(log) /\ j \in i + 1 .. Len(log')
            BY <1>1, <2>2
        <3>2. log'[j] = log[j] /\ Answer(j, m)'
            BY <1>1, <2>3, <3>1 DEF Answer
        <3> QED
            BY <2>1, <2>2, <3>1, <3>2
    <2>4. ~(q.model = m /\ q.result # "error" /\ q.host = log[i].host)
        <3>1. PICK n : n = Len(log) + 1
            OBVIOUS
        <3>2. n \in i + 1 .. Len(log') /\ log'[n] = q
            BY <1>1, <2>2, <3>1
        <3>3. Answer(n, m)' => q.host # log[i].host
            BY <2>1, <2>2, <3>2
        <3> QED
            BY <3>2, <3>3 DEF Answer
    <2> QED
        BY <1>1, <2>2, <2>3, <2>4 DEF Standing
<1>3. ASSUME NEW i \in Standing(m)', i = Len(log) + 1 PROVE q.result # "error"
    BY <1>1, <1>3 DEF Standing, Answer
<1> QED
    BY <1>1, <1>2, <1>3

(* While nothing is asked, what a step keeps of the cache and of the lost  *)
(* keeps the answers.                                                      *)
LEMMA KeptTransfers ==
    ASSUME EngineTyped, AnswersKept, log' = log, model' = model, engine' => engine,
           now' \in Nat, now <= now',
           \A x \in Host, u \in Nat : now < u /\ KeptUntil(x, u) => KeptUntil(x, u)'
    PROVE  AnswersKept'
<1>1. PICK m : m = model
    OBVIOUS
<1>2. SUFFICES ASSUME engine', NEW i \in Standing(m)', now' < Until(i)' PROVE Kept(i)'
    BY <1>1 DEF AnswersKept
<1>3. i \in Standing(m)
    BY DEF Standing, Answer
<1>4. log[i].host \in Host /\ Until(i) \in Nat /\ Until(i)' = Until(i)
    BY <1>3, StandingTyped DEF Until
<1>5. now < Until(i)
    BY <1>2, <1>4 DEF EngineTyped
<1>6. Kept(i)
    BY <1>1, <1>2, <1>3, <1>5 DEF AnswersKept
<1>7. PICK x \in Host, u \in Nat : x = log[i].host /\ u = Until(i)
    BY <1>4
<1>8. KeptUntil(x, u)'
    BY <1>5, <1>6, <1>7 DEF Kept
<1> QED
    BY <1>4, <1>7, <1>8 DEF Kept

------------------------------------------------------------------------------
(* The initial states *)

LEMMA EngineInvInit == EngineInit => EngineInv
<1> SUFFICES ASSUME EngineInit PROVE EngineInv
    OBVIOUS
<1>1. NoEntry \in Caches /\ DOMAIN NoEntry = {}
    BY NoEntryTyped
<1>2. file = [model |-> model, entries |-> NoEntry] /\ model \in Model /\ cache = NoEntry
    BY DEF EngineInit
<1>3. file \in [model : Model, entries : Caches] /\ DOMAIN file.entries = {}
    BY <1>1, <1>2
<1>4. EngineTyped
    <2>1. /\ now = 0 /\ engine \in BOOLEAN /\ known = {} /\ pending = <<>> /\ log = <<>>
          /\ judging = FALSE /\ batch = {}
        BY DEF EngineInit
    <2>2. pending \in Seq(Host) /\ log \in Seq(Question)
        BY <2>1, EmptySeq
    <2> QED
        BY <1>1, <1>2, <1>3, <2>1, <2>2 DEF EngineTyped
<1>5. TickHasEngine /\ NoneForgotten
    BY DEF EngineInit, TickHasEngine, NoneForgotten
<1>6. VerdictsAreAnswers
    BY <1>1, <1>2, <1>3 DEF VerdictsAreAnswers
<1>7. AnswersKept
    BY DEF EngineInit, AnswersKept, Standing
<1> QED
    BY <1>4, <1>5, <1>6, <1>7 DEF EngineInv

------------------------------------------------------------------------------
(* The steps *)

(* What the file holds stays an answer while the file and the log stay.    *)
FileAnswers == \A h \in DOMAIN file.entries : AnswerOf(h, file.entries[h], file.model)

(* Nothing written and nothing asked, nothing changes for the file.        *)
LEMMA FileStays ==
    ASSUME FileAnswers, file' = file, log' = log
    PROVE  FileAnswers'
    BY DEF FileAnswers, AnswerOf

(* A look-up keeps the verdicts answers, and the answers kept.             *)
LEMMA LookupStep ==
    ASSUME EngineInv, NEW h \in Host, LookedUp(h),
           UNCHANGED <<now, chosen, file, asked>>
    PROVE  /\ VerdictsAreAnswers' /\ AnswersKept' /\ cache' \in Caches
           /\ \A x \in DOMAIN cache \cup lost : x # h => x \in DOMAIN cache' \cup lost'
           /\ (Hit(h) \/ Inherits(h)) => h \in DOMAIN cache' \cup lost'
<1>1. /\ EngineTyped /\ VerdictsAreAnswers /\ AnswersKept
      /\ UNCHANGED <<now, engine, model, file, log>>
    BY DEF EngineInv, chosen, asked
<1>2. /\ cache' \in Caches
      /\ \A x \in DOMAIN cache' : AnswerOf(x, cache'[x], model)
      /\ \A x \in DOMAIN cache \cup lost : x # h => x \in DOMAIN cache' \cup lost'
      /\ (Hit(h) \/ Inherits(h)) => h \in DOMAIN cache' \cup lost'
      /\ \A x \in Host, u \in Nat : now < u /\ KeptUntil(x, u) => KeptUntil(x, u)'
    BY <1>1, LookupKeeps
<1>3. VerdictsAreAnswers'
    <2>1. FileAnswers'
        BY <1>1, FileStays DEF VerdictsAreAnswers, FileAnswers
    <2>2. ASSUME NEW x \in DOMAIN cache' PROVE AnswerOf(x, cache[x], model)'
        BY <1>1, <1>2 DEF AnswerOf
    <2> QED
        BY <2>1, <2>2 DEF VerdictsAreAnswers, FileAnswers
<1>4. AnswersKept'
    BY <1>1, <1>2, KeptTransfers DEF EngineTyped
<1> QED
    BY <1>2, <1>3, <1>4

(* What is observed is found in the cache or queued.                       *)
LEMMA ObserveStep ==
    ASSUME EngineInv, NEW h \in Host, Observe(h)
    PROVE  EngineInv'
<1> DEFINE q == IF h \in known THEN pending ELSE Append(pending, h)
<1>1. /\ UNCHANGED <<now, chosen, file, asked, tick>> /\ known' = known \cup {h}
      /\ \/ (Hit(h) \/ Inherits(h)) /\ pending' = q
         \/ Misses(h) /\ Forget(h) /\ pending' = Requeue(h, q)
    BY DEF Observe
<1>2. /\ UNCHANGED <<now, engine, model, file, log, judging, batch>>
      /\ EngineTyped /\ TickHasEngine /\ NoneForgotten
    BY <1>1 DEF EngineInv, chosen, asked, tick
<1>3. q \in Seq(Host) /\ InQueue(pending) \subseteq InQueue(q)
    BY <1>2, AppendAdds DEF EngineTyped
<1> HIDE DEF q
<1>4. /\ pending' \in Seq(Host) /\ InQueue(pending) \subseteq InQueue(pending')
      /\ (Hit(h) \/ Inherits(h) \/ h \in InQueue(pending'))
    BY <1>1, <1>3, RequeueAdds
<1>5. LookedUp(h)
    BY <1>1 DEF LookedUp
<1>6. /\ VerdictsAreAnswers' /\ AnswersKept' /\ cache' \in Caches
      /\ \A x \in DOMAIN cache \cup lost : x # h => x \in DOMAIN cache' \cup lost'
      /\ (Hit(h) \/ Inherits(h)) => h \in DOMAIN cache' \cup lost'
    BY <1>1, <1>5, LookupStep
<1>7. EngineTyped'
    BY <1>1, <1>2, <1>4, <1>6 DEF EngineTyped
<1>8. TickHasEngine'
    BY <1>2 DEF TickHasEngine
<1>9. NoneForgotten'
    <2>1. SUFFICES ASSUME NEW x \in known'
                   PROVE  x \in batch' \/ x \in InQueue(pending') \/ x \in DOMAIN cache' \cup lost'
        BY DEF NoneForgotten, Queued, InQueue
    <2>2. CASE x = h
        BY <1>4, <1>6, <2>2
    <2>3. CASE x # h
        BY <1>1, <1>2, <1>4, <1>6, <2>3 DEF NoneForgotten, Queued, InQueue
    <2> QED
        BY <2>2, <2>3
<1> QED
    BY <1>6, <1>7, <1>8, <1>9 DEF EngineInv

(* A candidate with a verdict leaves the batch,                            *)
LEMMA CachedStep ==
    ASSUME EngineInv, NEW h \in Host, Cached(h)
    PROVE  EngineInv'
<1>1. /\ UNCHANGED <<now, chosen, file, asked, queue, judging>> /\ batch' = batch \ {h}
      /\ h \in batch /\ (Hit(h) \/ Inherits(h))
    BY DEF Cached, Leaves
<1>2. /\ UNCHANGED <<now, engine, model, file, log, known, pending>>
      /\ EngineTyped /\ TickHasEngine /\ NoneForgotten
    BY <1>1 DEF EngineInv, chosen, asked, queue
<1>3. LookedUp(h)
    BY <1>1 DEF LookedUp
<1>4. /\ VerdictsAreAnswers' /\ AnswersKept' /\ cache' \in Caches
      /\ \A x \in DOMAIN cache \cup lost : x # h => x \in DOMAIN cache' \cup lost'
      /\ h \in DOMAIN cache' \cup lost'
    BY <1>1, <1>3, LookupStep
<1>5. EngineTyped'
    BY <1>1, <1>2, <1>4 DEF EngineTyped
<1>6. TickHasEngine'
    BY <1>1, <1>2 DEF TickHasEngine
<1>7. NoneForgotten'
    BY <1>1, <1>2, <1>4 DEF NoneForgotten, Queued
<1> QED
    BY <1>4, <1>5, <1>6, <1>7 DEF EngineInv

(* one that cannot be asked about now returns to the queue,                *)
LEMMA PostponedStep ==
    ASSUME EngineInv, NEW h \in Host, Postponed(h)
    PROVE  EngineInv'
<1>1. /\ UNCHANGED <<now, chosen, file, asked, known, judging>> /\ batch' = batch \ {h}
      /\ h \in batch /\ Misses(h) /\ Forget(h) /\ pending' = Requeue(h, pending)
    BY DEF Postponed, Leaves
<1>2. /\ UNCHANGED <<now, engine, model, file, log, known>>
      /\ EngineTyped /\ TickHasEngine /\ NoneForgotten
    BY <1>1 DEF EngineInv, chosen, asked
<1>3. pending' \in Seq(Host) /\ InQueue(pending') = InQueue(pending) \cup {h}
    BY <1>1, <1>2, RequeueAdds DEF EngineTyped
<1>4. LookedUp(h)
    BY <1>1 DEF LookedUp
<1>5. /\ VerdictsAreAnswers' /\ AnswersKept' /\ cache' \in Caches
      /\ \A x \in DOMAIN cache \cup lost : x # h => x \in DOMAIN cache' \cup lost'
    BY <1>1, <1>4, LookupStep
<1>6. EngineTyped'
    BY <1>1, <1>2, <1>3, <1>5 DEF EngineTyped
<1>7. TickHasEngine'
    BY <1>1, <1>2 DEF TickHasEngine
<1>8. NoneForgotten'
    BY <1>1, <1>2, <1>3, <1>5 DEF NoneForgotten, Queued, InQueue
<1> QED
    BY <1>5, <1>6, <1>7, <1>8 DEF EngineInv

(* and so does one the gateway fails for.                                  *)
LEMMA GatewayFailsStep ==
    ASSUME EngineInv, NEW h \in Host, GatewayFails(h)
    PROVE  EngineInv'
<1>1. /\ UNCHANGED <<now, chosen, file, known, judging>> /\ batch' = batch \ {h}
      /\ h \in batch /\ Misses(h) /\ Forget(h) /\ pending' = Requeue(h, pending)
      /\ log' = Append(log, [host |-> h, at |-> now, model |-> model, result |-> "error"])
    BY DEF GatewayFails, Ask, Leaves
<1>2. /\ UNCHANGED <<now, engine, model, file, known>> /\ EngineTyped /\ TickHasEngine
      /\ NoneForgotten /\ VerdictsAreAnswers /\ AnswersKept
    BY <1>1 DEF EngineInv, chosen
<1>3. pending' \in Seq(Host) /\ InQueue(pending') = InQueue(pending) \cup {h}
    BY <1>1, <1>2, RequeueAdds DEF EngineTyped
<1>4. PICK q \in Question : log' = Append(log, q) /\ q.result = "error"
    <2>1. [host |-> h, at |-> now, model |-> model, result |-> "error"] \in Question
        BY <1>2 DEF EngineTyped, Question
    <2> QED
        BY <1>1, <2>1
<1>5. /\ log' \in Seq(Question)
      /\ \A i \in DOMAIN log : i \in DOMAIN log' /\ log'[i] = log[i]
    BY <1>2, <1>4, LogGrows
<1>6. LookedUp(h)
    BY <1>1 DEF LookedUp
<1>7. /\ cache' \in Caches
      /\ \A x \in DOMAIN cache' : AnswerOf(x, cache'[x], model)
      /\ \A x \in DOMAIN cache \cup lost : x # h => x \in DOMAIN cache' \cup lost'
      /\ \A x \in Host, u \in Nat : now < u /\ KeptUntil(x, u) => KeptUntil(x, u)'
    BY <1>2, <1>6, LookupKeeps
<1>8. EngineTyped'
    BY <1>1, <1>2, <1>3, <1>5, <1>7 DEF EngineTyped
<1>9. TickHasEngine'
    BY <1>1, <1>2 DEF TickHasEngine
<1>10. NoneForgotten'
    <2>1. \A x \in Host : (x # h /\ Queued(x) => Queued(x)') /\ Queued(h)'
        BY <1>1, <1>3 DEF Queued, InQueue
    <2>2. known \subseteq Host /\ known' = known
        BY <1>1, <1>2 DEF EngineTyped
    <2> QED
        BY <1>2, <1>7, <2>1, <2>2 DEF NoneForgotten
<1>11. VerdictsAreAnswers'
    <2>2. ASSUME NEW x \in DOMAIN cache' PROVE AnswerOf(x, cache[x], model)'
        BY <1>2, <1>5, <1>7 DEF AnswerOf
    <2>3. ASSUME NEW x \in DOMAIN file.entries
          PROVE  AnswerOf(x, file.entries[x], file.model)'
        BY <1>2, <1>5, <2>3 DEF AnswerOf, VerdictsAreAnswers
    <2> QED
        BY <1>2, <2>2, <2>3 DEF VerdictsAreAnswers
<1>12. AnswersKept'
    <2>1. PICK m : m = model
        OBVIOUS
    <2>2. SUFFICES ASSUME engine', NEW i \in Standing(m)', now' < Until(i)' PROVE Kept(i)'
        BY <1>2, <2>1 DEF AnswersKept
    <2>3. i \in Standing(m)
        BY <1>2, <1>4, LogGrows
    <2>4. i \in DOMAIN log /\ log[i].host \in Host /\ Until(i) \in Nat
        BY <1>2, <2>3, StandingTyped
    <2>5. log'[i] = log[i] /\ Until(i)' = Until(i)
        BY <1>5, <2>4 DEF Until
    <2>6. now < Until(i) /\ Kept(i)
        BY <1>2, <2>1, <2>2, <2>3, <2>5 DEF AnswersKept
    <2>7. PICK x \in Host, u \in Nat : x = log[i].host /\ u = Until(i)
        BY <2>4
    <2>8. KeptUntil(x, u)'
        BY <1>7, <2>6, <2>7 DEF Kept
    <2> QED
        BY <2>5, <2>7, <2>8 DEF Kept
<1> QED
    BY <1>8, <1>9, <1>10, <1>11, <1>12 DEF EngineInv

(* An answer takes the place of the answer before.                         *)
LEMMA JudgedStep ==
    ASSUME EngineInv, NEW h \in Host, Judged(h)
    PROVE  EngineInv'
<1>1. PICK a \in Answers :
        Ask(h, a) /\ Put(h, [verdict |-> a, since |-> now, until |-> now + Ttl[a], from |-> NoHost])
    BY DEF Judged
<1>2. /\ UNCHANGED <<now, chosen, file, known, judging, pending>> /\ batch' = batch \ {h}
      /\ h \in batch
      /\ log' = Append(log, [host |-> h, at |-> now, model |-> model, result |-> a])
    BY <1>1 DEF Judged, Ask, Leaves
<1>3. /\ UNCHANGED <<now, engine, model, file, known, pending>> /\ EngineTyped
      /\ TickHasEngine /\ NoneForgotten /\ VerdictsAreAnswers /\ AnswersKept
      /\ now \in Nat /\ model \in Model
    BY <1>2 DEF EngineInv, chosen, EngineTyped
<1>4. a # "error" /\ Ttl[a] \in Nat /\ now + Ttl[a] \in Nat
    BY <1>3, AnswersAssumption, SpanAssumption
<1>5. PICK q \in Question : /\ log' = Append(log, q) /\ q.host = h /\ q.at = now
                            /\ q.model = model /\ q.result = a
    <2>1. [host |-> h, at |-> now, model |-> model, result |-> a] \in Question
        BY <1>3 DEF Question
    <2> QED
        BY <1>2, <2>1
<1>6. PICK e \in CacheEntry : /\ Put(h, e) /\ e.verdict = a /\ e.until = now + Ttl[a]
                              /\ e.from = NoHost
    <2>1. [verdict |-> a, since |-> now, until |-> now + Ttl[a], from |-> NoHost] \in CacheEntry
        BY <1>3, <1>4 DEF CacheEntry
    <2> QED
        BY <1>1, <2>1
<1>7. PICK n : n = Len(log) + 1
    OBVIOUS
<1>8. /\ log' \in Seq(Question) /\ n \in DOMAIN log' /\ log'[n] = q
      /\ \A i \in DOMAIN log : i \in DOMAIN log' /\ log'[i] = log[i]
    BY <1>3, <1>5, <1>7, LogGrows
<1>9. /\ cache' \in Caches
      /\ \A x \in DOMAIN cache' : /\ x = h \/ x \in DOMAIN cache
                                  /\ cache'[x] = IF x = h THEN e ELSE cache[x]
      /\ \A x \in DOMAIN cache \cup {h} : x \in DOMAIN cache' \/ x \in lost'
      /\ lost \ {h} \subseteq lost'
    BY <1>3, <1>6, PutKeeps
<1>10. EngineTyped'
    BY <1>2, <1>3, <1>8, <1>9 DEF EngineTyped
<1>11. TickHasEngine'
    BY <1>2, <1>3 DEF TickHasEngine
<1>12. NoneForgotten'
    BY <1>2, <1>3, <1>9 DEF NoneForgotten, Queued
<1>13. VerdictsAreAnswers'
    <2>1. AnswerOf(h, e, model)'
        BY <1>3, <1>5, <1>6, <1>8 DEF AnswerOf, CacheEntry
    <2>2. ASSUME NEW x \in DOMAIN cache' PROVE AnswerOf(x, cache[x], model)'
        <3>1. CASE x = h
            BY <1>9, <2>1, <3>1
        <3>2. CASE x # h
            <4>1. AnswerOf(x, cache[x], model) /\ cache'[x] = cache[x]
                BY <1>3, <1>9, <3>2 DEF VerdictsAreAnswers
            <4> QED
                BY <1>3, <1>8, <4>1 DEF AnswerOf
        <3> QED
            BY <3>1, <3>2
    <2>3. ASSUME NEW x \in DOMAIN file.entries
          PROVE  AnswerOf(x, file.entries[x], file.model)'
        BY <1>3, <1>8, <2>3 DEF AnswerOf, VerdictsAreAnswers
    <2> QED
        BY <1>3, <2>2, <2>3 DEF VerdictsAreAnswers
<1>14. AnswersKept'
    <2>1. PICK m : m = model
        OBVIOUS
    <2>2. SUFFICES ASSUME engine', NEW i \in Standing(m)', now' < Until(i)' PROVE Kept(i)'
        BY <1>3, <2>1 DEF AnswersKept
    <2>3. CASE i = n
        <3>1. Until(i)' = now + Ttl[a]
            BY <1>5, <1>8, <2>3 DEF Until
        <3>2. h \in DOMAIN cache' => now + Ttl[a] <= cache'[h].until
            BY <1>4, <1>6, <1>9
        <3> QED
            BY <1>5, <1>8, <1>9, <2>3, <3>1, <3>2 DEF Kept, KeptUntil
    <2>4. CASE i # n
        <3>1. i \in Standing(m) /\ h # log[i].host
            BY <1>3, <1>4, <1>5, <1>7, <2>1, <2>4, LogGrows
        <3>2. i \in DOMAIN log /\ log[i].host \in Host /\ Until(i) \in Nat
            BY <1>3, <3>1, StandingTyped
        <3>3. log'[i] = log[i] /\ Until(i)' = Until(i)
            BY <1>8, <3>2 DEF Until
        <3>4. now < Until(i) /\ Kept(i)
            BY <1>3, <2>1, <2>2, <3>1, <3>3 DEF AnswersKept
        <3> QED
            BY <1>9, <3>1, <3>3, <3>4 DEF Kept, KeptUntil
    <2> QED
        BY <2>3, <2>4
<1> QED
    BY <1>10, <1>11, <1>12, <1>13, <1>14 DEF EngineInv

(* The batch and what is left of the queue are the queue.                  *)
LEMMA TickBeginsStep ==
    ASSUME EngineInv, TickBegins
    PROVE  EngineInv'
<1> DEFINE n == IF Len(pending) < BatchMax THEN Len(pending) ELSE BatchMax
<1>1. /\ UNCHANGED <<now, engine, model, cache, file, known, log, lost>>
      /\ engine /\ ~judging /\ judging' = TRUE
      /\ batch' = {pending[i] : i \in 1 .. n}
      /\ pending' = SubSeq(pending, n + 1, Len(pending))
    BY DEF TickBegins, Unlocked, chosen, asked
<1>2. EngineTyped /\ TickHasEngine /\ NoneForgotten /\ VerdictsAreAnswers /\ AnswersKept
    BY DEF EngineInv
<1>3. pending \in Seq(Host) /\ Len(pending) \in Nat /\ DOMAIN pending = 1 .. Len(pending)
    BY <1>2, LenProperties DEF EngineTyped
<1>4. n \in Nat /\ n <= Len(pending)
    BY <1>3, BoundAssumption
<1> HIDE DEF n
<1>5. batch' \subseteq Host
    BY <1>1, <1>3, <1>4, ElementOfSeq
<1>6. /\ pending' \in Seq(Host) /\ Len(pending') = Len(pending) - n
      /\ \A i \in 1 .. Len(pending) - n : pending'[i] = pending[n + i]
    BY <1>1, <1>3, <1>4, RestOfQueue
<1>7. DOMAIN pending' = 1 .. Len(pending) - n
    BY <1>6, LenProperties
<1>8. EngineTyped'
    BY <1>1, <1>2, <1>5, <1>6 DEF EngineTyped
<1>9. TickHasEngine'
    BY <1>1 DEF TickHasEngine
<1>10. NoneForgotten'
    <2>1. ASSUME NEW i \in DOMAIN pending
          PROVE  pending[i] \in batch' \/ \E j \in DOMAIN pending' : pending'[j] = pending[i]
        <3>1. CASE i <= n
            BY <1>1, <1>3, <3>1
        <3>2. CASE ~(i <= n)
            <4>1. i \in Nat /\ n < i /\ i <= Len(pending)
                BY <1>3, <1>4, <3>2
            <4>2. i - n \in 1 .. Len(pending) - n /\ n + (i - n) = i
                BY <1>3, <1>4, <4>1
            <4>3. i - n \in DOMAIN pending' /\ pending'[i - n] = pending[i]
                BY <1>6, <1>7, <4>2
            <4> QED
                BY <4>3
        <3> QED
            BY <3>1, <3>2
    <2>2. batch = {}
        BY <1>1, <1>2 DEF TickHasEngine
    <2> QED
        <3>1. \A h \in Host : Queued(h) => Queued(h)'
            BY <2>1, <2>2 DEF Queued
        <3>2. known \subseteq Host
            BY <1>2 DEF EngineTyped
        <3> QED
            BY <1>1, <1>2, <3>1, <3>2 DEF NoneForgotten
<1>11. VerdictsAreAnswers'
    BY <1>1, <1>2 DEF VerdictsAreAnswers, AnswerOf
<1>12. AnswersKept'
    BY <1>1, <1>2, KeptTransfers DEF EngineTyped, KeptUntil
<1> QED
    BY <1>8, <1>9, <1>10, <1>11, <1>12 DEF EngineInv

(* The cache written to the file is of the engine's model.                 *)
LEMMA TickEndsStep ==
    ASSUME EngineInv, TickEnds
    PROVE  EngineInv'
<1>1. /\ UNCHANGED <<now, engine, model, cache, known, pending, log, batch, lost>>
      /\ batch = {} /\ judging' = FALSE /\ file' \in {file, Saved}
    BY DEF TickEnds, chosen, queue, asked
<1>2. EngineTyped /\ TickHasEngine /\ NoneForgotten /\ VerdictsAreAnswers /\ AnswersKept
    BY DEF EngineInv
<1>3. /\ Saved \in [model : Model, entries : Caches]
      /\ Saved.model = model /\ Saved.entries = cache
    BY <1>2 DEF EngineTyped, Saved
<1>4. EngineTyped'
    BY <1>1, <1>2, <1>3 DEF EngineTyped
<1>5. TickHasEngine'
    BY <1>1 DEF TickHasEngine
<1>6. NoneForgotten'
    BY <1>1, <1>2 DEF NoneForgotten, Queued
<1>7. VerdictsAreAnswers'
    <2>1. CASE file' = file
        BY <1>1, <1>2, <2>1 DEF VerdictsAreAnswers, AnswerOf
    <2>2. CASE file' = Saved
        <3>1. file'.model = model /\ file'.entries = cache
            BY <1>3, <2>2
        <3> QED
            BY <1>1, <1>2, <3>1 DEF VerdictsAreAnswers, AnswerOf
    <2> QED
        BY <1>1, <2>1, <2>2
<1>8. AnswersKept'
    BY <1>1, <1>2, KeptTransfers DEF EngineTyped, KeptUntil
<1> QED
    BY <1>4, <1>5, <1>6, <1>7, <1>8 DEF EngineInv

(* Time only ends the life of answers.                                     *)
LEMMA ClockStep ==
    ASSUME EngineInv, Clock
    PROVE  EngineInv'
<1>1. /\ UNCHANGED <<engine, model, cache, file, known, pending, log, judging, batch, lost>>
      /\ now' = now + 1
    BY DEF Clock, chosen, queue, asked, tick
<1>2. EngineTyped /\ TickHasEngine /\ NoneForgotten /\ VerdictsAreAnswers /\ AnswersKept
    BY DEF EngineInv
<1>3. EngineTyped' /\ now <= now'
    BY <1>1, <1>2 DEF EngineTyped
<1>4. TickHasEngine' /\ NoneForgotten' /\ VerdictsAreAnswers'
    BY <1>1, <1>2 DEF TickHasEngine, NoneForgotten, Queued, VerdictsAreAnswers, AnswerOf
<1>5. AnswersKept'
    BY <1>1, <1>2, <1>3, KeptTransfers DEF EngineTyped, KeptUntil
<1> QED
    BY <1>3, <1>4, <1>5 DEF EngineInv

(* An answer is in the file the cache is loaded from, or is lost.          *)
LEMMA RebuildStep ==
    ASSUME EngineInv, NEW wanted \in BOOLEAN, NEW m \in Model, Rebuild(wanted, m)
    PROVE  EngineInv'
<1>1. /\ UNCHANGED <<now, file, log, judging, batch>> /\ ~judging
      /\ engine' = wanted /\ model' = m /\ cache' = (IF wanted THEN Loaded(m) ELSE NoEntry)
      /\ lost' = lost \cup Unsaved(m) /\ known' = {} /\ pending' = <<>>
    BY DEF Rebuild, Unlocked
<1>2. EngineTyped /\ TickHasEngine /\ VerdictsAreAnswers
    BY DEF EngineInv
<1>3. /\ file.entries \in Caches /\ NoEntry \in Caches /\ DOMAIN NoEntry = {}
    BY <1>2, NoEntryTyped DEF EngineTyped
<1>4. ASSUME file.model = m
      PROVE  /\ Loaded(m) \in Caches
             /\ DOMAIN Loaded(m) = {x \in DOMAIN file.entries : Fresh(file.entries[x])}
             /\ \A h \in DOMAIN Loaded(m) : Loaded(m)[h] = file.entries[h]
    <2> DEFINE D == {x \in DOMAIN file.entries : Fresh(file.entries[x])}
    <2>1. Loaded(m) = [h \in D |-> file.entries[h]]
        BY <1>4 DEF Loaded
    <2>2. D \subseteq DOMAIN file.entries /\ D \in SUBSET Host
        BY <1>3, CacheTyped
    <2>3. Loaded(m) \in [D -> CacheEntry]
        BY <1>3, <2>1, <2>2, CacheTyped
    <2> HIDE DEF D
    <2>4. Loaded(m) \in Caches /\ DOMAIN Loaded(m) = D
        BY <2>2, <2>3, IsACache
    <2> QED
        BY <2>1, <2>4 DEF D
<1>5. /\ cache' \in Caches
      /\ \A h \in DOMAIN cache' : /\ file.model = m /\ h \in DOMAIN file.entries
                                  /\ cache'[h] = file.entries[h]
    <2>1. CASE wanted /\ file.model = m
        BY <1>1, <1>4, <2>1
    <2>2. CASE ~(wanted /\ file.model = m)
        <3>1. cache' = NoEntry
            BY <1>1, <2>2 DEF Loaded
        <3> QED
            BY <1>3, <3>1
    <2> QED
        BY <2>1, <2>2
<1>6. EngineTyped'
    <2>1. pending' \in Seq(Host)
        BY <1>1, EmptySeq
    <2> QED
        BY <1>1, <1>2, <1>5, <2>1 DEF EngineTyped
<1>7. TickHasEngine' /\ NoneForgotten'
    BY <1>1, <1>2 DEF TickHasEngine, NoneForgotten
<1>8. VerdictsAreAnswers'
    BY <1>1, <1>2, <1>5 DEF VerdictsAreAnswers, AnswerOf
<1>9. AnswersKept'
    <2>1. SUFFICES ASSUME wanted, NEW i \in Standing(m), now < Until(i)
                   PROVE  Kept(i)'
        BY <1>1 DEF AnswersKept, Standing, Answer, Until
    <2>2. Until(i) \in Nat /\ Until(i)' = Until(i)
        BY <1>1, <1>2, StandingTyped DEF Until
    <2>3. CASE log[i].host \in Unsaved(m)
        BY <1>1, <2>3 DEF Kept, KeptUntil
    <2>4. CASE log[i].host \notin Unsaved(m)
        <3>1. /\ file.model = m /\ log[i].host \in DOMAIN file.entries
              /\ Until(i) <= file.entries[log[i].host].until
            BY <2>1, <2>4 DEF Unsaved
        <3>2. Fresh(file.entries[log[i].host])
            BY <1>2, <1>3, <2>1, <2>2, <3>1, CacheTyped DEF Fresh, EngineTyped, CacheEntry
        <3>3. /\ log[i].host \in DOMAIN cache'
              /\ cache'[log[i].host] = file.entries[log[i].host]
            BY <1>1, <1>4, <2>1, <3>1, <3>2
        <3> QED
            BY <1>1, <2>2, <3>1, <3>3 DEF Kept, KeptUntil
    <2> QED
        BY <2>3, <2>4
<1> QED
    BY <1>6, <1>7, <1>8, <1>9 DEF EngineInv

(* What the user corrects is counted as lost,                              *)
LEMMA AllowStep ==
    ASSUME EngineInv, NEW h \in Host, Allow(h)
    PROVE  EngineInv'
<1>1. /\ UNCHANGED <<now, engine, model, file, known, pending, log, judging, batch>>
      /\ cache' = Without(cache, {h}) /\ lost' = lost \cup ({h} \cap DOMAIN cache)
    BY DEF Allow, chosen, queue, asked, tick
<1>2. EngineTyped /\ TickHasEngine /\ NoneForgotten /\ VerdictsAreAnswers /\ AnswersKept
    BY DEF EngineInv
<1>3. /\ Without(cache, {h}) \in Caches /\ DOMAIN Without(cache, {h}) = DOMAIN cache \ {h}
      /\ \A x \in DOMAIN cache \ {h} : Without(cache, {h})[x] = cache[x]
    BY <1>2, WithoutLess DEF EngineTyped
<1>4. /\ cache' \in Caches /\ DOMAIN cache' = DOMAIN cache \ {h}
      /\ \A x \in DOMAIN cache' : cache'[x] = cache[x]
    BY <1>1, <1>3
<1>5. EngineTyped' /\ TickHasEngine'
    BY <1>1, <1>2, <1>4 DEF EngineTyped, TickHasEngine
<1>6. NoneForgotten'
    BY <1>1, <1>2, <1>4 DEF NoneForgotten, Queued
<1>7. VerdictsAreAnswers'
    <2>1. \A x \in DOMAIN cache' : AnswerOf(x, cache'[x], model)
        BY <1>2, <1>4 DEF VerdictsAreAnswers
    <2>2. \A x \in DOMAIN file.entries : AnswerOf(x, file.entries[x], file.model)
        BY <1>2 DEF VerdictsAreAnswers
    <2> QED
        BY <1>1, <2>1, <2>2 DEF VerdictsAreAnswers, AnswerOf
<1>8. \A x \in Host, u \in Nat : KeptUntil(x, u) => KeptUntil(x, u)'
    BY <1>1, <1>4 DEF KeptUntil
<1>9. AnswersKept'
    BY <1>1, <1>2, <1>8, KeptTransfers DEF EngineTyped
<1> QED
    BY <1>5, <1>6, <1>7, <1>9 DEF EngineInv

(* and so is all that is cleared.                                          *)
LEMMA ClearCacheStep ==
    ASSUME EngineInv, ClearCache
    PROVE  EngineInv'
<1> DEFINE empty == [Saved EXCEPT !.entries = NoEntry]
<1>1. /\ UNCHANGED <<now, engine, model, known, pending, log, judging, batch>>
      /\ cache' = NoEntry /\ lost' = lost \cup DOMAIN cache /\ file' \in {file, empty}
    BY DEF ClearCache, chosen, queue, asked, tick
<1>2. EngineTyped /\ TickHasEngine /\ NoneForgotten /\ VerdictsAreAnswers /\ AnswersKept
    BY DEF EngineInv
<1>3. NoEntry \in Caches /\ DOMAIN NoEntry = {}
    BY NoEntryTyped
<1>4. empty \in [model : Model, entries : Caches] /\ empty.entries = NoEntry
    BY <1>2, <1>3 DEF EngineTyped, Saved
<1> HIDE DEF empty
<1>5. EngineTyped' /\ TickHasEngine'
    BY <1>1, <1>2, <1>3, <1>4 DEF EngineTyped, TickHasEngine
<1>6. NoneForgotten'
    BY <1>1, <1>2 DEF NoneForgotten, Queued
<1>7. VerdictsAreAnswers'
    <2>1. CASE file' = file
        BY <1>1, <1>2, <1>3, <2>1 DEF VerdictsAreAnswers, AnswerOf
    <2>2. CASE file' = empty
        BY <1>1, <1>3, <1>4, <2>2 DEF VerdictsAreAnswers
    <2> QED
        BY <1>1, <2>1, <2>2
<1>8. \A x \in Host, u \in Nat : KeptUntil(x, u) => KeptUntil(x, u)'
    BY <1>1 DEF KeptUntil
<1>9. AnswersKept'
    BY <1>1, <1>2, <1>8, KeptTransfers DEF EngineTyped
<1> QED
    BY <1>5, <1>6, <1>7, <1>9 DEF EngineInv

(* Every step keeps the invariant.                                         *)
LEMMA EngineInvStep == EngineInv /\ [EngineNext]_engineVars => EngineInv'
<1> SUFFICES ASSUME EngineInv, [EngineNext]_engineVars PROVE EngineInv'
    OBVIOUS
<1>1. ASSUME NEW h \in Host, Observe(h) PROVE EngineInv'
    BY <1>1, ObserveStep
<1>2. ASSUME NEW h \in Host, Judging(h) PROVE EngineInv'
    BY <1>2, CachedStep, PostponedStep, GatewayFailsStep, JudgedStep DEF Judging
<1>3. ASSUME NEW h \in Host, Allow(h) PROVE EngineInv'
    BY <1>3, AllowStep
<1>4. CASE TickBegins
    BY <1>4, TickBeginsStep
<1>5. CASE TickEnds
    BY <1>5, TickEndsStep
<1>6. CASE Clock
    BY <1>6, ClockStep
<1>7. CASE FollowSettings
    BY <1>7, RebuildStep DEF FollowSettings
<1>8. CASE Relaunch
    BY <1>8, RebuildStep DEF Relaunch, EngineInv, EngineTyped
<1>9. CASE ClearCache
    BY <1>9, ClearCacheStep
<1>10. CASE UNCHANGED engineVars
    BY <1>10 DEF engineVars, chosen, queue, asked, tick, EngineInv, EngineTyped, TickHasEngine,
       NoneForgotten, Queued, VerdictsAreAnswers, AnswerOf, AnswersKept, Standing, Answer,
       Until, Kept, KeptUntil
<1> QED
    BY <1>1, <1>2, <1>3, <1>4, <1>5, <1>6, <1>7, <1>8, <1>9, <1>10 DEF EngineNext

------------------------------------------------------------------------------
(* The theorems *)

(* In every state there is a batch in a tick only, and each answer that    *)
(* lives is in the cache of its engine or is one that was thrown away.     *)
THEOREM EngineInvariant == EngineSpec => []EngineInv
<1> QED
    BY EngineInvInit, EngineInvStep, PTL DEF EngineSpec

(* For any model changed and changed back, any eviction and any reload: a  *)
(* verdict in the cache, or in intent-cache.json, is an answer of the      *)
(* model it is filed under, and it ends no later than that answer.         *)
THEOREM VerdictsAreTrue == EngineSpec => []VerdictsAreAnswers
<1>1. EngineInv => VerdictsAreAnswers
    BY DEF EngineInv
<1> QED
    BY <1>1, EngineInvariant, PTL

(* No host the observer has seen drops out between its queue, the batch of *)
(* a tick and the cache.                                                   *)
THEOREM NoHostForgotten == EngineSpec => []NoneForgotten
<1>1. EngineInv => NoneForgotten
    BY DEF EngineInv
<1> QED
    BY <1>1, EngineInvariant, PTL

(* A step that asks about a host has missed it in the cache.               *)
LEMMA AsksOfAMiss ==
    ASSUME EngineInv, [EngineNext]_engineVars, NEW h \in Host,
           log' # log, log'[Len(log')].host = h, Answered(h)
    PROVE  h \in lost
<1>1. EngineTyped /\ TickHasEngine /\ AnswersKept
    BY DEF EngineInv
<1>2. PICK x \in Host, q \in Question :
        x \in batch /\ Misses(x) /\ log' = Append(log, q) /\ q.host = x
    <2>1. ASSUME NEW x \in Host, NEW r \in Answers \cup {"error"}, Ask(x, r)
          PROVE  \E q \in Question :
                   x \in batch /\ Misses(x) /\ log' = Append(log, q) /\ q.host = x
        <3>1. [host |-> x, at |-> now, model |-> model, result |-> r] \in Question
            BY <1>1 DEF EngineTyped, Question
        <3> QED
            BY <2>1, <3>1 DEF Ask, Leaves
    <2>2. CASE \E x \in Host : GatewayFails(x)
        BY <2>1, <2>2 DEF GatewayFails
    <2>3. CASE \E x \in Host : Judged(x)
        BY <2>1, <2>3 DEF Judged
    <2>4. CASE ~(\E x \in Host : GatewayFails(x)) /\ ~(\E x \in Host : Judged(x))
        <3>1. log' = log
            <4>1. CASE \E x \in Host : Observe(x) \/ Cached(x) \/ Postponed(x) \/ Allow(x)
                BY <4>1 DEF Observe, Cached, Postponed, Allow, asked
            <4>2. CASE TickBegins \/ TickEnds \/ Clock \/ ClearCache
                BY <4>2 DEF TickBegins, TickEnds, Clock, ClearCache, asked
            <4>3. CASE FollowSettings \/ Relaunch
                BY <4>3 DEF FollowSettings, Relaunch, Rebuild
            <4>4. CASE UNCHANGED engineVars
                BY <4>4 DEF engineVars, asked
            <4> QED
                BY <2>4, <4>1, <4>2, <4>3, <4>4 DEF EngineNext, Judging
        <3> QED
            BY <3>1
    <2> QED
        BY <2>2, <2>3, <2>4
<1>3. x = h
    BY <1>1, <1>2, AppendProperties, LenProperties DEF EngineTyped
<1>4. engine
    BY <1>1, <1>2 DEF TickHasEngine
<1>5. PICK i \in Standing(model) : log[i].host = h /\ now < Until(i)
    BY DEF Answered
<1>6. h \in lost \/ (h \in DOMAIN cache /\ Until(i) <= cache[h].until)
    BY <1>1, <1>4, <1>5 DEF AnswersKept, Kept, KeptUntil
<1>7. CASE h \in DOMAIN cache /\ Until(i) <= cache[h].until
    <2>1. Until(i) \in Nat /\ cache[h].until \in Nat
        BY <1>1, <1>5, <1>7, StandingTyped, CacheTyped DEF EngineTyped, CacheEntry
    <2>2. Live(h)
        BY <1>1, <1>5, <1>7, <2>1 DEF Live, Fresh, EngineTyped
    <2> QED
        BY <1>2, <1>3, <2>2 DEF Misses
<1> QED
    BY <1>6, <1>7

(* The gateway is not paid twice for one answer: while the model's last    *)
(* answer about a host lives, only a host whose answer was thrown away is  *)
(* asked about again.                                                      *)
THEOREM NeverPaidTwice == EngineSpec => AskedOnce
<1>1. EngineInv /\ [EngineNext]_engineVars =>
        [\A h \in Host : (log' # log /\ log'[Len(log')].host = h /\ Answered(h))
                         => h \in lost]_engineVars
    BY AsksOfAMiss
<1> QED
    BY <1>1, EngineInvariant, PTL DEF EngineSpec, AskedOnce

------------------------------------------------------------------------------
(* The budget *)

(* The questions a + 1 .. b of a log that a window still counts at t.      *)
Counted(l, a, b, t, w) == {i \in a + 1 .. b : t - l[i].at < Span[w]}

(* This engine has kept its budget, and so has every engine before it.     *)
BudgetInv ==
    /\ born \in 0 .. Len(log) /\ saves \in Nat
    /\ \A w \in Window :
         /\ Cardinality(Counted(log, born, Len(log), now, w)) <= Limit[w]
         /\ Cardinality(Counted(log, 0, born, now, w)) <= Limit[w] * saves

LEMMA CountedFinite ==
    ASSUME NEW l, NEW a \in Nat, NEW b \in Nat, NEW t, NEW w
    PROVE  /\ IsFiniteSet(Counted(l, a, b, t, w))
           /\ Cardinality(Counted(l, a, b, t, w)) \in Nat
<1>1. IsFiniteSet(a + 1 .. b)
    BY FS_Interval
<1>2. Counted(l, a, b, t, w) \in SUBSET (a + 1 .. b)
    BY DEF Counted
<1>3. IsFiniteSet(Counted(l, a, b, t, w))
    BY <1>1, <1>2, FS_Subset
<1> QED
    BY <1>3, FS_CardinalityType

(* Fewer are counted when fewer match.                                     *)
LEMMA CountedLess ==
    ASSUME NEW l, NEW k, NEW a \in Nat, NEW b \in Nat, NEW t, NEW u, NEW w,
           \A i \in a + 1 .. b : u - k[i].at < Span[w] => t - l[i].at < Span[w]
    PROVE  Cardinality(Counted(k, a, b, u, w)) <= Cardinality(Counted(l, a, b, t, w))
<1>1. Counted(k, a, b, u, w) \in SUBSET Counted(l, a, b, t, w)
    BY DEF Counted
<1> QED
    BY <1>1, CountedFinite, FS_Subset

(* One more question is at most one more that is counted.                  *)
LEMMA CountedOneMore ==
    ASSUME NEW l, NEW a \in Nat, NEW b \in Nat, a <= b, NEW t, NEW w
    PROVE  Cardinality(Counted(l, a, b + 1, t, w)) <= Cardinality(Counted(l, a, b, t, w)) + 1
<1> DEFINE C == Counted(l, a, b, t, w)
           D == C \cup {b + 1}
<1>1. IsFiniteSet(C) /\ Cardinality(C) \in Nat
    BY CountedFinite
<1>2. IsFiniteSet(D) /\ Cardinality(D) <= Cardinality(C) + 1
    <2> HIDE DEF C
    <2>1. IsFiniteSet(D) /\ Cardinality(D) = IF b + 1 \in C THEN Cardinality(C)
                                                          ELSE Cardinality(C) + 1
        BY <1>1, FS_AddElement
    <2> QED
        BY <1>1, <2>1
<1>3. Counted(l, a, b + 1, t, w) \in SUBSET D
    BY DEF Counted
<1>4. Cardinality(Counted(l, a, b + 1, t, w)) <= Cardinality(D)
    BY <1>2, <1>3, FS_Subset
<1>5. Cardinality(Counted(l, a, b + 1, t, w)) \in Nat /\ Cardinality(D) \in Nat
    BY <1>2, CountedFinite, FS_CardinalityType
<1> DEFINE m == Cardinality(Counted(l, a, b + 1, t, w))
           c == Cardinality(C)
           d == Cardinality(D)
<1>6. m <= d /\ d <= c + 1 /\ m \in Nat /\ d \in Nat /\ c \in Nat
    BY <1>1, <1>2, <1>4, <1>5
<1> HIDE DEF m, c, d
<1>7. m <= c + 1
    BY <1>6
<1> QED
    BY <1>7 DEF m, c

(* Two stretches of the log count as much as the two of them together.     *)
LEMMA CountedJoin ==
    ASSUME NEW l, NEW a \in Nat, NEW b \in Nat, a <= b, NEW t, NEW w
    PROVE  Cardinality(Counted(l, 0, b, t, w))
             <= Cardinality(Counted(l, 0, a, t, w)) + Cardinality(Counted(l, a, b, t, w))
<1> DEFINE A == Counted(l, 0, a, t, w)
           B == Counted(l, a, b, t, w)
<1>1. IsFiniteSet(A) /\ IsFiniteSet(B) /\ Cardinality(A) \in Nat /\ Cardinality(B) \in Nat
    BY CountedFinite
<1>2. Counted(l, 0, b, t, w) = A \cup B
    BY DEF Counted
<1> HIDE DEF A, B
<1>3. A \cap B \in SUBSET A
    OBVIOUS
<1>4. IsFiniteSet(A \cap B)
    BY <1>1, <1>3, FS_Subset
<1>5. Cardinality(A \cap B) \in Nat
    BY <1>4, FS_CardinalityType
<1>6. Cardinality(A \cup B) = Cardinality(A) + Cardinality(B) - Cardinality(A \cap B)
    BY <1>1, FS_Union
<1>7. Cardinality(A \cup B) <= Cardinality(A) + Cardinality(B)
    BY <1>1, <1>5, <1>6
<1> QED
    BY <1>2, <1>7 DEF A, B

LEMMA LimitsTyped ==
    ASSUME NEW w \in Window
    PROVE  Limit[w] \in Nat /\ Span[w] \in Nat
    BY SpanAssumption

(* What a step may do to the log, to the clock and to the engine: nothing, *)
(* the clock moves, the engine asks within its budget, or it is made anew. *)
LEMMA BudgetSteps ==
    ASSUME EngineInv, [EngineNext]_engineVars
    PROVE  \/ UNCHANGED <<now, log, born, saves>>
           \/ now' = now + 1 /\ UNCHANGED <<log, born, saves>>
           \/ /\ Affordable /\ UNCHANGED <<now, born, saves>>
              /\ \E q \in Question : log' = Append(log, q)
           \/ born' = Len(log) /\ saves' = saves + 1 /\ UNCHANGED <<now, log>>
<1>1. EngineTyped
    BY DEF EngineInv
<1>2. ASSUME NEW x \in Host, NEW r \in Answers \cup {"error"}, Ask(x, r)
      PROVE  /\ Affordable /\ UNCHANGED <<now, born, saves>>
             /\ \E q \in Question : log' = Append(log, q)
    <2>1. [host |-> x, at |-> now, model |-> model, result |-> r] \in Question
        BY <1>1 DEF EngineTyped, Question
    <2> QED
        BY <1>2, <2>1 DEF Ask
<1>3. CASE \E x \in Host : GatewayFails(x) \/ Judged(x)
    BY <1>2, <1>3 DEF GatewayFails, Judged
<1>4. CASE \E x \in Host : Observe(x) \/ Cached(x) \/ Postponed(x) \/ Allow(x)
    BY <1>4 DEF Observe, Cached, Postponed, Allow, asked
<1>5. CASE TickBegins \/ TickEnds \/ ClearCache
    BY <1>5 DEF TickBegins, TickEnds, ClearCache, asked
<1>6. CASE Clock
    BY <1>6 DEF Clock, asked
<1>7. CASE FollowSettings \/ Relaunch
    BY <1>7 DEF FollowSettings, Relaunch, Rebuild
<1>8. CASE UNCHANGED engineVars
    BY <1>8 DEF engineVars, asked
<1> QED
    BY <1>3, <1>4, <1>5, <1>6, <1>7, <1>8 DEF EngineNext, Judging

LEMMA BudgetInit == EngineInit => BudgetInv
<1> SUFFICES ASSUME EngineInit PROVE BudgetInv
    OBVIOUS
<1>1. log = <<>> /\ born = 0 /\ saves = 0 /\ Len(log) = 0
    BY DEF EngineInit
<1>2. ASSUME NEW w \in Window
      PROVE  Counted(log, 0, 0, now, w) = {}
    BY DEF Counted
<1>3. ASSUME NEW w \in Window
      PROVE  /\ Cardinality(Counted(log, born, Len(log), now, w)) = 0
             /\ Cardinality(Counted(log, 0, born, now, w)) = 0
    BY <1>1, <1>2, FS_EmptySet
<1>4. \A w \in Window : Limit[w] \in Nat
    BY LimitsTyped
<1> QED
    BY <1>1, <1>3, <1>4 DEF BudgetInv

LEMMA BudgetStep ==
    ASSUME EngineInv, BudgetInv, [EngineNext]_engineVars
    PROVE  BudgetInv'
<1> DEFINE n == Len(log)
<1>1. log \in Seq(Question) /\ n \in Nat /\ now \in Nat /\ born \in Nat /\ born <= n /\ saves \in Nat
    BY LenProperties DEF EngineInv, EngineTyped, BudgetInv
<1>2. \A i \in 1 .. n : log[i].at \in Nat
    <2>1. \A i \in 1 .. n : log[i] \in Question
        BY <1>1, ElementOfSeq
    <2> QED
        BY <2>1 DEF Question
<1>3. CASE UNCHANGED <<now, log, born, saves>>
    BY <1>3 DEF BudgetInv, Counted
<1>4. CASE now' = now + 1 /\ UNCHANGED <<log, born, saves>>
    <2>1. ASSUME NEW w \in Window, NEW a \in Nat, NEW b \in Nat, b <= n
          PROVE  Cardinality(Counted(log, a, b, now', w)) <= Cardinality(Counted(log, a, b, now, w))
        <3>1. \A i \in a + 1 .. b : now' - log[i].at < Span[w] => now - log[i].at < Span[w]
            BY <1>1, <1>2, <1>4, <2>1, LimitsTyped
        <3> QED
            BY <3>1, CountedLess
    <2>2. ASSUME NEW w \in Window
          PROVE  /\ Cardinality(Counted(log, born, n, now', w)) <= Limit[w]
                 /\ Cardinality(Counted(log, 0, born, now', w)) <= Limit[w] * saves
        <3> DEFINE A == Cardinality(Counted(log, born, n, now', w))
                   B == Cardinality(Counted(log, 0, born, now', w))
                   C == Cardinality(Counted(log, born, n, now, w))
                   D == Cardinality(Counted(log, 0, born, now, w))
        <3>1. A <= C /\ B <= D
            BY <1>1, <2>1
        <3>2. A \in Nat /\ B \in Nat /\ C \in Nat /\ D \in Nat
            BY <1>1, CountedFinite
        <3>3. C <= Limit[w] /\ D <= Limit[w] * saves
            BY DEF BudgetInv
        <3>4. Limit[w] \in Nat /\ Limit[w] * saves \in Nat
            BY <1>1, LimitsTyped
        <3> HIDE DEF A, B, C, D
        <3>5. A <= Limit[w] /\ B <= Limit[w] * saves
            BY <3>1, <3>2, <3>3, <3>4
        <3> QED
            BY <3>5 DEF A, B
    <2> QED
        BY <1>1, <1>4, <2>2 DEF BudgetInv
<1>5. CASE /\ Affordable /\ UNCHANGED <<now, born, saves>>
           /\ \E q \in Question : log' = Append(log, q)
    <2>1. Len(log') = n + 1 /\ \A i \in 1 .. n : log'[i] = log[i]
        BY <1>1, <1>5, AppendProperties
    <2>2. ASSUME NEW w \in Window
          PROVE  /\ Cardinality(Counted(log', born, n + 1, now, w)) <= Limit[w]
                 /\ Cardinality(Counted(log', 0, born, now, w)) <= Limit[w] * saves
        <3>1. /\ Counted(log', born, n, now, w) = Counted(log, born, n, now, w)
              /\ Counted(log', 0, born, now, w) = Counted(log, 0, born, now, w)
            BY <1>1, <2>1 DEF Counted
        <3>2. Cardinality(Counted(log, born, n, now, w)) < Limit[w]
            BY <1>5 DEF Affordable, Spent, Counted
        <3> DEFINE A == Cardinality(Counted(log', born, n + 1, now, w))
                   C == Cardinality(Counted(log, born, n, now, w))
        <3>3. A <= C + 1
            BY <1>1, <3>1, CountedOneMore
        <3>4. A \in Nat /\ C \in Nat /\ Limit[w] \in Nat
            BY <1>1, CountedFinite, LimitsTyped
        <3>5. C < Limit[w]
            BY <3>2
        <3> HIDE DEF A, C
        <3>6. A <= Limit[w]
            BY <3>3, <3>4, <3>5
        <3> QED
            BY <3>1, <3>6 DEF A, BudgetInv
    <2>3. born' \in 0 .. Len(log') /\ saves' \in Nat
        BY <1>1, <1>5, <2>1
    <2> QED
        BY <1>5, <2>1, <2>2, <2>3 DEF BudgetInv
<1>6. CASE born' = Len(log) /\ saves' = saves + 1 /\ UNCHANGED <<now, log>>
    <2>1. ASSUME NEW w \in Window
          PROVE  /\ Cardinality(Counted(log, n, n, now, w)) <= Limit[w]
                 /\ Cardinality(Counted(log, 0, n, now, w)) <= Limit[w] * (saves + 1)
        <3>1. Limit[w] \in Nat /\ Limit[w] * saves \in Nat /\ Limit[w] * (saves + 1) = Limit[w] * saves + Limit[w]
            BY <1>1, LimitsTyped
        <3>2. Counted(log, n, n, now, w) = {}
            BY <1>1 DEF Counted
        <3>3. Cardinality(Counted(log, n, n, now, w)) = 0
            BY <3>2, FS_EmptySet
        <3> DEFINE A == Cardinality(Counted(log, 0, n, now, w))
                   B == Cardinality(Counted(log, 0, born, now, w))
                   C == Cardinality(Counted(log, born, n, now, w))
        <3>4. A <= B + C
            BY <1>1, CountedJoin
        <3>5. A \in Nat /\ B \in Nat /\ C \in Nat
            BY <1>1, CountedFinite
        <3>6. B <= Limit[w] * saves /\ C <= Limit[w]
            BY DEF BudgetInv
        <3> HIDE DEF A, B, C
        <3>7. A <= Limit[w] * (saves + 1)
            BY <3>1, <3>4, <3>5, <3>6
        <3> QED
            BY <3>1, <3>3, <3>7 DEF A
    <2> QED
        BY <1>1, <1>6, <2>1 DEF BudgetInv
<1> QED
    BY <1>3, <1>4, <1>5, <1>6, BudgetSteps

(* However often the settings are saved or the app is restarted, however   *)
(* long the clock runs: the gateway is asked in no window more often than  *)
(* the window's limit allows each of the engines there have been.          *)
THEOREM BudgetNeverExceeded == EngineSpec => []BudgetKept
<1>1. EngineInv /\ BudgetInv => BudgetKept
    <2> SUFFICES ASSUME EngineInv, BudgetInv, NEW w \in Window
                 PROVE  Spent(w, 0) <= Limit[w] * (saves + 1)
        BY DEF BudgetKept
    <2> DEFINE A == Cardinality(Counted(log, 0, Len(log), now, w))
               B == Cardinality(Counted(log, 0, born, now, w))
               C == Cardinality(Counted(log, born, Len(log), now, w))
    <2>1. Len(log) \in Nat /\ born \in Nat /\ born <= Len(log) /\ saves \in Nat
        BY LenProperties DEF EngineInv, EngineTyped, BudgetInv
    <2>2. A <= B + C
        BY <2>1, CountedJoin
    <2>3. A \in Nat /\ B \in Nat /\ C \in Nat
        BY <2>1, CountedFinite
    <2>4. B <= Limit[w] * saves /\ C <= Limit[w]
        BY DEF BudgetInv
    <2>5. Limit[w] \in Nat /\ Limit[w] * saves \in Nat /\ Limit[w] * (saves + 1) = Limit[w] * saves + Limit[w]
        BY <2>1, LimitsTyped
    <2>6. Spent(w, 0) = A
        BY DEF Spent, Counted
    <2> HIDE DEF A, B, C
    <2> QED
        BY <2>2, <2>3, <2>4, <2>5, <2>6
<1>2. EngineInv /\ BudgetInv /\ [EngineNext]_engineVars => BudgetInv'
    BY BudgetStep
<1> QED
    BY <1>1, <1>2, BudgetInit, EngineInvariant, PTL DEF EngineSpec

------------------------------------------------------------------------------
(* The sizes and the queue *)

(* A cache is never over its size, be it the one on disk.                  *)
Sized(c) == IsFiniteSet(DOMAIN c) /\ Cardinality(DOMAIN c) <= CacheMax

SizesOK == Sized(cache) /\ Sized(file.entries)

(* No host is queued twice, and only what was observed is.                 *)
Single(q) == \A i, j \in DOMAIN q : q[i] = q[j] => i = j

QueueOK == pending \in Seq(known) /\ batch \subseteq known /\ Single(pending)

CountsOK == retry \in [Host -> Nat] /\ ticks \in 0 .. PersistEvery - 1

LEMMA LessIsSized ==
    ASSUME NEW c, NEW d, Sized(c), DOMAIN d \subseteq DOMAIN c
    PROVE  Sized(d)
<1> DEFINE C == DOMAIN c
           D == DOMAIN d
           m == Cardinality(D)
           n == Cardinality(C)
<1>1. IsFiniteSet(C) /\ n <= CacheMax /\ D \in SUBSET C
    BY DEF Sized
<1> HIDE DEF C, D
<1>2. IsFiniteSet(D) /\ m <= n
    BY <1>1, FS_Subset
<1>3. m \in Nat /\ n \in Nat /\ CacheMax \in Nat
    BY <1>1, <1>2, FS_CardinalityType, BoundAssumption
<1> HIDE DEF m, n
<1>4. m <= CacheMax
    BY <1>1, <1>2, <1>3
<1> QED
    BY <1>2, <1>4 DEF Sized, D, m

LEMMA NoEntrySized == Sized(NoEntry)
    BY NoEntryTyped, FS_EmptySet, BoundAssumption DEF Sized

(* Only putting an entry makes a cache larger, and a full one drops one.   *)
LEMMA PutSized ==
    ASSUME Sized(cache), NEW h, NEW e, Put(h, e)
    PROVE  Sized(cache')
<1> DEFINE full == [x \in DOMAIN cache \cup {h} |-> IF x = h THEN e ELSE cache[x]]
           C == DOMAIN cache
           F == C \cup {h}
<1>1. \/ cache' = full /\ Cardinality(DOMAIN full) <= CacheMax
      \/ \E v \in Oldest(full) : cache' = Without(full, {v})
    BY DEF Put
<1>2. DOMAIN full = F
    OBVIOUS
<1>3. IsFiniteSet(C) /\ Cardinality(C) <= CacheMax /\ Cardinality(C) \in Nat /\ CacheMax \in Nat
    BY FS_CardinalityType, BoundAssumption DEF Sized
<1> HIDE DEF full, C
<1>4. IsFiniteSet(F) /\ Cardinality(F) \in {Cardinality(C), Cardinality(C) + 1}
    BY <1>3, FS_AddElement
<1>5. CASE cache' = full /\ Cardinality(DOMAIN full) <= CacheMax
    BY <1>2, <1>4, <1>5 DEF Sized
<1>6. ASSUME NEW v \in Oldest(full), cache' = Without(full, {v}) PROVE Sized(cache')
    <2>1. v \in F
        BY <1>2 DEF Oldest
    <2>2. DOMAIN cache' = F \ {v}
        BY <1>2, <1>6 DEF Without
    <2>3. IsFiniteSet(F \ {v}) /\ Cardinality(F \ {v}) = Cardinality(F) - 1
        BY <1>4, <2>1, FS_RemoveElement
    <2>4. Cardinality(F \ {v}) <= CacheMax
        BY <1>3, <1>4, <2>3
    <2> QED
        BY <2>2, <2>3, <2>4 DEF Sized
<1> QED
    BY <1>1, <1>5, <1>6

LEMMA LookupSized ==
    ASSUME Sized(cache), NEW h, LookedUp(h)
    PROVE  Sized(cache')
<1>1. DOMAIN Without(cache, {h}) \subseteq DOMAIN cache
    BY DEF Without
<1> QED
    BY <1>1, LessIsSized, PutSized DEF LookedUp, Hit, Inherits, Forget

(* A file holds what a cache held.                                         *)
LEMMA SizesStep ==
    ASSUME EngineTyped, SizesOK, [EngineNext]_engineVars
    PROVE  SizesOK'
<1>1. Sized(cache) /\ Sized(file.entries) /\ Sized(NoEntry)
    BY NoEntrySized DEF SizesOK
<1>2. ASSUME NEW h \in Host, Observe(h) \/ Judging(h) \/ Allow(h) PROVE SizesOK'
    <2>1. file' = file
        BY <1>2 DEF Observe, Judging, Cached, Postponed, GatewayFails, Judged, Ask, Allow
    <2>2. CASE LookedUp(h)
        BY <1>1, <2>1, <2>2, LookupSized DEF SizesOK
    <2>3. CASE \E e : Put(h, e)
        BY <1>1, <2>1, <2>3, PutSized DEF SizesOK
    <2>4. CASE cache' = Without(cache, {h})
        <3>1. DOMAIN cache' \subseteq DOMAIN cache
            BY <2>4 DEF Without
        <3> QED
            BY <1>1, <2>1, <3>1, LessIsSized DEF SizesOK
    <2>5. LookedUp(h) \/ (\E e : Put(h, e)) \/ cache' = Without(cache, {h})
        BY <1>2 DEF Observe, Judging, Cached, Postponed, GatewayFails, Judged, Ask, Allow, LookedUp
    <2> QED
        BY <2>2, <2>3, <2>4, <2>5
<1>3. CASE TickBegins \/ Clock \/ UNCHANGED engineVars
    BY <1>1, <1>3 DEF TickBegins, Clock, engineVars, SizesOK
<1>4. CASE TickEnds \/ ClearCache
    <2>1. /\ Saved.entries = cache /\ [Saved EXCEPT !.entries = NoEntry].entries = NoEntry
        BY DEF Saved
    <2>2. file' \in {file, Saved, [Saved EXCEPT !.entries = NoEntry]} /\ cache' \in {cache, NoEntry}
        BY <1>4 DEF TickEnds, ClearCache
    <2> QED
        BY <1>1, <2>1, <2>2 DEF SizesOK
<1>5. ASSUME NEW wanted \in BOOLEAN, NEW m \in Model, Rebuild(wanted, m) PROVE SizesOK'
    <2>1. file' = file /\ (cache' = Loaded(m) \/ cache' = NoEntry)
        BY <1>5 DEF Rebuild
    <2>2. Loaded(m) = NoEntry \/ DOMAIN Loaded(m) \subseteq DOMAIN file.entries
        BY DEF Loaded
    <2>3. Sized(Loaded(m))
        BY <1>1, <2>2, LessIsSized
    <2> QED
        BY <1>1, <2>1, <2>3 DEF SizesOK
<1>6. CASE FollowSettings \/ Relaunch
    BY <1>5, <1>6 DEF FollowSettings, Relaunch, EngineTyped
<1> QED
    BY <1>2, <1>3, <1>4, <1>6 DEF EngineNext

(* A host joins a queue at its end, when it is not there.                  *)
LEMMA AppendedOnce ==
    ASSUME NEW K, NEW q \in Seq(K), NEW h \in K, Single(q), \A i \in DOMAIN q : q[i] # h
    PROVE  Append(q, h) \in Seq(K) /\ Single(Append(q, h))
<1>1. /\ Append(q, h) \in Seq(K) /\ DOMAIN Append(q, h) = 1 .. Len(q) + 1
      /\ \A i \in 1 .. Len(q) : Append(q, h)[i] = q[i]
      /\ Append(q, h)[Len(q) + 1] = h
    BY AppendProperties, LenProperties
<1>2. DOMAIN q = 1 .. Len(q) /\ Len(q) \in Nat
    BY LenProperties
<1> QED
    BY <1>1, <1>2 DEF Single

LEMMA RequeuedOnce ==
    ASSUME NEW K, NEW q \in Seq(K), NEW h \in K, Single(q)
    PROVE  Requeue(h, q) \in Seq(K) /\ Single(Requeue(h, q))
<1>1. CASE \E i \in DOMAIN q : q[i] = h
    BY <1>1 DEF Requeue
<1>2. CASE \A i \in DOMAIN q : q[i] # h
    BY <1>2, AppendedOnce DEF Requeue
<1> QED
    BY <1>1, <1>2

LEMMA QueueStep ==
    ASSUME EngineTyped, TickHasEngine, QueueOK, [EngineNext]_engineVars
    PROVE  QueueOK'
<1>1. pending \in Seq(known) /\ batch \subseteq known /\ Single(pending)
    BY DEF QueueOK
<1>2. ASSUME NEW h \in Host, Observe(h) PROVE QueueOK'
    <2> DEFINE K == known \cup {h}
               q == IF h \in known THEN pending ELSE Append(pending, h)
    <2>1. known' = K /\ batch' = batch /\ (pending' = q \/ pending' = Requeue(h, q))
        BY <1>2 DEF Observe, tick
    <2>2. pending \in Seq(K)
        BY <1>1, SeqMonotonic
    <2>3. h \notin known => \A i \in DOMAIN pending : pending[i] # h
        BY <1>1, ElementOfSeq, LenProperties
    <2> HIDE DEF K
    <2>4. h \in K
        BY DEF K
    <2>5. q \in Seq(K) /\ Single(q)
        BY <1>1, <2>2, <2>3, <2>4, AppendedOnce
    <2> HIDE DEF q
    <2>6. pending' \in Seq(K) /\ Single(pending')
        BY <2>1, <2>4, <2>5, RequeuedOnce
    <2> QED
        BY <1>1, <2>1, <2>6 DEF QueueOK, K
<1>3. ASSUME NEW h \in Host, Judging(h) PROVE QueueOK'
    <2>1. /\ known' = known /\ h \in batch /\ batch' = batch \ {h}
          /\ pending' = pending \/ pending' = Requeue(h, pending)
        BY <1>3 DEF Judging, Cached, Postponed, GatewayFails, Judged, Ask, Leaves, queue
    <2> QED
        BY <1>1, <2>1, RequeuedOnce DEF QueueOK
<1>4. CASE TickBegins
    <2> DEFINE n == IF Len(pending) < BatchMax THEN Len(pending) ELSE BatchMax
    <2>1. /\ known' = known /\ batch' = {pending[i] : i \in 1 .. n}
          /\ pending' = SubSeq(pending, n + 1, Len(pending))
        BY <1>4 DEF TickBegins
    <2>2. pending \in Seq(Host) /\ Len(pending) \in Nat /\ DOMAIN pending = 1 .. Len(pending)
        BY LenProperties DEF EngineTyped
    <2>3. n \in Nat /\ n <= Len(pending)
        BY <2>2, BoundAssumption
    <2> HIDE DEF n
    <2>4. /\ pending' \in Seq(Host) /\ Len(pending') = Len(pending) - n
          /\ \A i \in 1 .. Len(pending) - n : pending'[i] = pending[n + i]
        BY <2>1, <2>2, <2>3, RestOfQueue
    <2>5. DOMAIN pending' = 1 .. Len(pending) - n
        BY <2>4, LenProperties
    <2>6. \A i \in 1 .. Len(pending) - n : n + i \in DOMAIN pending
        BY <2>2, <2>3
    <2>7. \A i \in DOMAIN pending : pending[i] \in known
        BY <1>1, <2>2, ElementOfSeq
    <2>8. pending' \in [1 .. Len(pending') -> known] /\ Len(pending') \in Nat
        BY <2>3, <2>4, <2>5, <2>6, <2>7, LenProperties
    <2>9. pending' \in Seq(known)
        BY <2>8, SeqDef
    <2>10. Single(pending')
        <3>1. SUFFICES ASSUME NEW i \in 1 .. Len(pending) - n, NEW j \in 1 .. Len(pending) - n,
                              pending[n + i] = pending[n + j]
                       PROVE  i = j
            BY <2>4, <2>5 DEF Single
        <3>2. n + i = n + j
            BY <1>1, <2>6, <3>1 DEF Single
        <3> QED
            BY <2>2, <2>3, <3>2
    <2>11. batch' \subseteq known
        BY <2>1, <2>2, <2>3, <2>7
    <2> QED
        BY <2>1, <2>9, <2>10, <2>11 DEF QueueOK
<1>5. ASSUME NEW wanted, NEW m, Rebuild(wanted, m) PROVE QueueOK'
    <2>1. known' = {} /\ pending' = <<>> /\ batch' = batch /\ batch = {}
        BY <1>5 DEF Rebuild, Unlocked, TickHasEngine
    <2> QED
        BY <2>1, EmptySeq DEF QueueOK, Single
<1>6. CASE FollowSettings \/ Relaunch
    BY <1>5, <1>6 DEF FollowSettings, Relaunch
<1>7. CASE TickEnds \/ Clock \/ ClearCache \/ \E h \in Host : Allow(h)
    BY <1>1, <1>7 DEF TickEnds, Clock, ClearCache, Allow, queue, tick, QueueOK
<1>8. CASE UNCHANGED engineVars
    BY <1>1, <1>8 DEF engineVars, queue, tick, QueueOK
<1> QED
    BY <1>2, <1>3, <1>4, <1>6, <1>7, <1>8 DEF EngineNext

LEMMA CountsStep ==
    ASSUME EngineTyped, CountsOK, [EngineNext]_engineVars
    PROVE  CountsOK'
<1>1. /\ retry \in [Host -> Nat] /\ ticks \in 0 .. PersistEvery - 1 /\ PersistEvery \in Nat \ {0}
      /\ now \in Nat /\ Cooldown \in Nat
    BY BoundAssumption, SpanAssumption DEF CountsOK, EngineTyped
<1>2. ASSUME NEW h \in Host, Judging(h) PROVE CountsOK'
    <2>1. ticks' = ticks
        BY <1>2 DEF Judging, Cached, Postponed, GatewayFails, Judged, Ask, Leaves
    <2>2. \/ retry' = retry \/ retry' = [retry EXCEPT ![h] = now + Cooldown]
          \/ retry' = [retry EXCEPT ![h] = 0]
        BY <1>2 DEF Judging, Cached, Postponed, GatewayFails, Judged, asked
    <2> QED
        BY <1>1, <2>1, <2>2 DEF CountsOK
<1>3. CASE TickEnds
    <2>1. retry' = retry /\ ticks' = (ticks + 1) % PersistEvery
        BY <1>3 DEF TickEnds, asked
    <2> QED
        BY <1>1, <2>1 DEF CountsOK
<1>4. CASE FollowSettings \/ Relaunch
    <2>1. retry' = [h \in Host |-> 0] /\ (ticks' = ticks \/ ticks' = 0)
        BY <1>4 DEF FollowSettings, Relaunch, Rebuild
    <2> QED
        BY <1>1, <2>1 DEF CountsOK
<1>5. CASE TickBegins \/ Clock \/ ClearCache \/ \E h \in Host : Observe(h) \/ Allow(h)
    BY <1>1, <1>5 DEF TickBegins, Clock, ClearCache, Observe, Allow, asked, tick, CountsOK
<1>6. CASE UNCHANGED engineVars
    BY <1>1, <1>6 DEF engineVars, asked, tick, CountsOK
<1> QED
    BY <1>2, <1>3, <1>4, <1>5, <1>6 DEF EngineNext

LEMMA SizesInit == EngineInit => SizesOK /\ QueueOK /\ CountsOK
<1> SUFFICES ASSUME EngineInit PROVE SizesOK /\ QueueOK /\ CountsOK
    OBVIOUS
<1>1. SizesOK
    <2>1. cache = NoEntry /\ file.entries = NoEntry
        BY DEF EngineInit
    <2> QED
        BY <2>1, NoEntrySized DEF SizesOK
<1>2. QueueOK
    BY EmptySeq DEF EngineInit, QueueOK, Single
<1>3. CountsOK
    BY BoundAssumption DEF EngineInit, CountsOK
<1> QED
    BY <1>1, <1>2, <1>3

(* For any size of the cache and of a batch, and whatever is evicted,      *)
(* inherited, reloaded, put back in the queue or observed again: no cache  *)
(* is over its size, no host is queued twice, and what is queued or judged *)
(* is in the observer's table (EngineTypeOK).                              *)
THEOREM EngineTypeCorrect == EngineSpec => []EngineTypeOK
<1> DEFINE IInv == EngineInv /\ BudgetInv /\ SizesOK /\ QueueOK /\ CountsOK
<1>1. EngineInit => IInv
    BY EngineInvInit, BudgetInit, SizesInit
<1>2. IInv /\ [EngineNext]_engineVars => IInv'
    BY EngineInvStep, BudgetStep, SizesStep, QueueStep, CountsStep DEF EngineInv
<1>3. IInv => EngineTypeOK
    <2> SUFFICES ASSUME IInv PROVE EngineTypeOK
        OBVIOUS
    <2>1. EngineTyped
        BY DEF EngineInv
    <2>2. /\ DOMAIN cache \subseteq Host /\ \A h \in DOMAIN cache : cache[h] \in CacheEntry
          /\ file.model \in Model
          /\ \A h \in DOMAIN file.entries : file.entries[h] \in CacheEntry
        BY <2>1, CacheTyped DEF EngineTyped
    <2>3. \A i \in DOMAIN log : log[i] \in Question
        BY <2>1, ElementOfSeq, LenProperties DEF EngineTyped
    <2>4. born <= Len(log)
        BY DEF BudgetInv
    <2>5. log \in Seq(Question) => Len(log) \in Nat
        BY LenProperties
    <2> QED
        BY <2>1, <2>2, <2>3, <2>4
        DEF EngineTypeOK, EngineTyped, SizesOK, Sized, QueueOK, Single, CountsOK, Question
<1> HIDE DEF IInv
<1>4. EngineSpec => []IInv
    BY <1>1, <1>2, PTL DEF EngineSpec
<1> QED
    BY <1>3, <1>4, PTL

------------------------------------------------------------------------------
(* The audit *)

Rows == [day : Nat \ {0}, n : Nat]

States == [device : Nat, last : Nat, at : Nat, fails : Nat, skipped : SUBSET Nat]

AuditPhases == {"none", "reading", "sending", "saving"}

Runs == [phase : AuditPhases, rows : SUBSET Rows, todo : SUBSET Nat, at : Nat, st : States]

Objects == [device : Nat, day : Nat, rows : SUBSET Rows]

Typed ==
    /\ hour \in Nat /\ wrote \in Nat /\ devices \in Nat /\ faults \in Nat /\ choices \in Nat
    /\ live \subseteq Rows /\ rolled \subseteq Rows
    /\ on \in BOOLEAN /\ wish \in BOOLEAN /\ unwritten \in BOOLEAN
    /\ progress \subseteq States /\ run \in Runs /\ server \subseteq Objects

(* Consent, in memory, in the file and for the run under way.              *)
Consent ==
    /\ run.phase # "none" => on
    /\ on \/ prefs = "on" => wish \/ unwritten

(* There is one progress, and a run continues it.                          *)
OneProgress ==
    /\ \A s, t \in progress : s = t
    /\ \A s \in progress : s.last < Today
    /\ run.st.last < Today
    /\ run.phase # "none" =>
         \E s \in progress : s.device = run.st.device /\ s.last <= run.st.last
    /\ run.phase = "reading" => progress = {run.st}

ObjectOfDay == \A o \in server : \A r \in o.rows : r.day = o.day

InObject(s, r) == \E o \in server : o.device = s.device /\ r \in o.rows

Accounted(s) ==
    \A r \in live \cup rolled :
      r.day <= s.last =>
        InObject(s, r) \/ <<s.device, r.day>> \in revoked \/ r.day \in s.skipped \/ r \in late

(* What the run has read, while it reads and after.                        *)
Reading == run.phase = "reading" => live \subseteq run.rows \cup late

ThatDay == run.at \div DayLen + 1

Sending ==
    run.phase = "sending" =>
      /\ run.at <= hour /\ run.todo # {} /\ \A d \in run.todo : d < ThatDay
      /\ \A r \in live \cup rolled : r.day < ThatDay => r \in run.rows \cup late
      /\ \A r \in run.rows : run.st.last < r.day /\ r.day < ThatDay
                               => r.day \in run.todo \cup run.st.skipped
      /\ \A d \in run.todo : run.st.last < d

AuditInv ==
    /\ Typed /\ Consent /\ OneProgress /\ ObjectOfDay
    /\ \A s \in progress : Accounted(s)
    /\ run.phase # "none" => Accounted(run.st)
    /\ Reading /\ Sending

------------------------------------------------------------------------------
(* Facts about numbers and sets *)

(* A later hour is not on an earlier day.                                  *)
LEMMA DaysInOrder ==
    ASSUME NEW h \in Nat, NEW k \in Nat, h <= k
    PROVE  /\ h \div DayLen <= k \div DayLen
           /\ h \div DayLen \in Nat /\ k \div DayLen \in Nat
<1>1. DayLen \in Nat \ {0}
    BY AuditAssumption
<1> QED
    BY <1>1

(* A set of numbers that is not empty has a least one: the intervals below *)
(* them are finite, and no finite set has infinitely many strict subsets   *)
(* under one another.                                                      *)
LEMMA LeastOf ==
    ASSUME NEW S \in SUBSET Nat, S # {}
    PROVE  \E n \in S : \A m \in S : n <= m
<1> DEFINE T == {1 .. n : n \in S}
           R == StrictSubsetOrdering(Nat)
<1>1. T \subseteq FiniteSubsetsOf(Nat) /\ T # {}
    <2>1. ASSUME NEW n \in S PROVE 1 .. n \in SUBSET Nat /\ IsFiniteSet(1 .. n)
        BY FS_Interval
    <2> QED
        BY <2>1 DEF FiniteSubsetsOf
<1>2. IsWellFoundedOn(R, FiniteSubsetsOf(Nat))
    BY FS_StrictSubsetOrderingWellFounded
<1>3. \E x \in T : \A y \in T : ~ (<<y, x>> \in R)
    <2> HIDE DEF T, R
    <2> QED
        BY <1>1, <1>2, WFMin
<1>4. PICK n \in S : \A m \in S : ~ (<<1 .. m, 1 .. n>> \in R)
    BY <1>3
<1>5. ASSUME NEW m \in S, m < n PROVE FALSE
    <2>1. 1 .. m \subseteq 1 .. n /\ n \in 1 .. n /\ n \notin 1 .. m
        BY <1>5
    <2>2. <<1 .. m, 1 .. n>> \in R
        BY <2>1 DEF StrictSubsetOrdering
    <2> QED
        BY <1>4, <2>2
<1> QED
    BY <1>5

(* The next day a run sends is the first of those it has to send.          *)
LEMMA NextDayIsFirst ==
    ASSUME Typed, run.todo # {}
    PROVE  NextDay \in run.todo /\ \A d \in run.todo : NextDay <= d
<1>1. run.todo \in SUBSET Nat
    BY DEF Typed, Runs
<1>2. \E d \in run.todo : \A e \in run.todo : d <= e
    BY <1>1, LeastOf
<1> QED
    BY <1>2 DEF NextDay

(* What the record operators of AuditSync build.                           *)
LEMMA NewTyped ==
    ASSUME NEW d \in Nat
    PROVE  New(d) \in States /\ New(d).device = d /\ New(d).last = 0
    BY DEF New, States

(* A runtime that rests has no progress of its own.                        *)
LEMMA RestingTyped ==
    Resting \in Runs /\ Resting.phase = "none" /\ Resting.st.last = 0
<1>1. Torn \in States /\ Torn.last = 0
    BY NewTyped DEF Torn
<1> QED
    BY <1>1 DEF Resting, Running, Runs, AuditPhases

(* A run is made of what it is given.                                      *)
LEMMA RunningTyped ==
    ASSUME NEW p \in AuditPhases, NEW r \in SUBSET Rows, NEW t \in SUBSET Nat,
           NEW a \in Nat, NEW s \in States
    PROVE  /\ Running(p, r, t, a, s) \in Runs
           /\ Running(p, r, t, a, s).phase = p /\ Running(p, r, t, a, s).rows = r
           /\ Running(p, r, t, a, s).todo = t /\ Running(p, r, t, a, s).at = a
           /\ Running(p, r, t, a, s).st = s
    BY DEF Running, Runs

(* An attempt changes neither the device nor the days left out.            *)
LEMMA AttemptedTyped ==
    ASSUME Typed, NEW l \in Nat, NEW f \in Nat
    PROVE  /\ Attempted(l, f) \in States
           /\ Attempted(l, f).device = run.st.device /\ Attempted(l, f).last = l
           /\ Attempted(l, f).skipped = run.st.skipped
    BY DEF Attempted, States, Typed, Runs

(* A row has a day, and a run what it should.                              *)
LEMMA RunTyped ==
    ASSUME Typed
    PROVE  /\ run.phase \in AuditPhases /\ run.rows \subseteq Rows /\ run.todo \subseteq Nat
           /\ run.at \in Nat /\ run.st \in States
           /\ run.st.last \in Nat /\ run.st.device \in Nat /\ run.st.fails \in Nat
           /\ run.st.skipped \subseteq Nat /\ Today \in Nat \ {0}
    BY DaysInOrder DEF Typed, Runs, States, Today

(* There is a progress after ensure_state: the old one, or an empty one.   *)
LEMMA EnsureKeeps ==
    ASSUME AuditInv, ensure_state, UNCHANGED <<hour, rows, server, revoked>>
    PROVE  /\ progress' \subseteq States /\ devices' \in Nat
           /\ \A s, t \in progress' : s = t
           /\ \E s \in progress' : progress' = {s}
           /\ \A s \in progress' : s.last < Today /\ Accounted(s)
           /\ progress # {} => progress' = progress
<1> USE DEF AuditInv
<1>1. CASE progress = {}
    <2>1. progress' = {New(devices + 1)} /\ devices' = devices + 1
        BY <1>1 DEF ensure_state
    <2>2. New(devices + 1) \in States /\ New(devices + 1).last = 0
        BY NewTyped DEF Typed
    <2>3. Accounted(New(devices + 1))
        BY <2>2 DEF Accounted, Typed, Rows
    <2> QED
        BY <1>1, <2>1, <2>2, <2>3, RunTyped DEF Typed
<1>2. CASE progress # {}
    BY <1>2 DEF ensure_state, device, Typed, OneProgress
<1> QED
    BY <1>1, <1>2

------------------------------------------------------------------------------
(* The initial state *)

(* Nothing is there to be lost at the first start.                         *)
LEMMA AuditInvInit == AuditInit => AuditInv
<1> SUFFICES ASSUME AuditInit PROVE AuditInv
    OBVIOUS
<1>1. Typed
    BY RestingTyped DEF AuditInit, Typed
<1> QED
    BY <1>1, RestingTyped, RunTyped DEF AuditInit, AuditInv, Consent, OneProgress, ObjectOfDay,
       Reading, Sending

------------------------------------------------------------------------------
(* Steps that leave the run, the progress and the server alone *)

(* Time only makes days older.                                             *)
LEMMA HourInv == AuditInv /\ Hour => AuditInv'
<1> SUFFICES ASSUME AuditInv, Hour PROVE AuditInv'
    OBVIOUS
<1> USE DEF AuditInv, Hour, rows, choice, device, uploads, bounds
<1>1. Typed'
    BY DEF Typed
<1>2. Today' \in Nat /\ Today <= Today'
    BY DaysInOrder DEF Typed, Today
<1>3. OneProgress'
    BY <1>1, <1>2, RunTyped DEF OneProgress, Typed, States
<1>4. Sending'
    BY <1>1, RunTyped DEF Sending, ThatDay, Typed
<1> QED
    BY <1>1, <1>3, <1>4 DEF Consent, ObjectOfDay, Accounted, InObject, Reading

(* A row of a day that is done is late; the others are still to be sent.   *)
LEMMA RecordInv ==
    ASSUME AuditInv, NEW day \in {Today - 1, Today} \ {0}, Record(day)
    PROVE  AuditInv'
<1> DEFINE row == [day |-> day, n |-> wrote + 1]
<1> USE DEF AuditInv
<1>1. /\ UNCHANGED <<hour, choice, token, device, run, uploads, bounds>>
      /\ wrote' = wrote + 1
      /\ (live' = live \cup {row} /\ rolled' = rolled) \/ (live' = {row} /\ rolled' = live)
      /\ late' = IF day < Today \/ run.phase = "reading" THEN late \cup {row} ELSE late
    BY DEF Record
<1>2. row \in Rows /\ row.day = day
    BY RunTyped DEF Rows, Typed
<1>3. Typed'
    BY <1>1, <1>2 DEF Typed, choice, device, uploads, bounds
<1>4. live' \subseteq live \cup {row} /\ live' \cup rolled' \subseteq live \cup rolled \cup {row}
    BY <1>1
<1>5. ASSUME NEW s \in States, s.last < Today, Accounted(s) PROVE Accounted(s)'
    <2>1. row.day <= s.last => row \in late'
        BY <1>1, <1>2, <1>5, RunTyped DEF States
    <2>2. late \subseteq late'
        BY <1>1
    <2> QED
        BY <1>1, <1>4, <1>5, <2>1, <2>2 DEF Accounted, InObject, uploads
<1>6. (\A s \in progress : Accounted(s))'
    BY <1>1, <1>5 DEF device, OneProgress, Typed
<1>7. (run.phase # "none" => Accounted(run.st))'
    BY <1>1, <1>5, RunTyped DEF OneProgress
<1>8. Reading'
    BY <1>1 DEF Reading
<1>9. Sending'
    <2> SUFFICES ASSUME run.phase = "sending" PROVE Sending'
        BY <1>1 DEF Sending
    <2>1. ThatDay \in Nat /\ ThatDay <= Today
        BY DaysInOrder, RunTyped DEF ThatDay, Today, Typed, Sending
    <2>2. row.day < ThatDay => row \in late'
        BY <1>1, <1>2, <2>1, RunTyped
    <2> QED
        BY <1>1, <1>4, <2>2 DEF Sending, ThatDay
<1> QED
    BY <1>1, <1>3, <1>6, <1>7, <1>8, <1>9 DEF Consent, OneProgress, ObjectOfDay, choice,
       device, uploads, Today

------------------------------------------------------------------------------
(* A run *)

(* A run begins with the progress there is and with the live file.         *)
LEMMA SyncBeginsInv == AuditInv /\ SyncBegins => AuditInv'
<1> SUFFICES ASSUME AuditInv, SyncBegins PROVE AuditInv'
    OBVIOUS
<1>1. /\ on /\ run.phase = "none" /\ ensure_state
      /\ UNCHANGED <<hour, rows, choice, token, uploads, bounds>>
    BY DEF SyncBegins, Free
<1>2. /\ progress' \subseteq States /\ devices' \in Nat
      /\ \A s, t \in progress' : s = t
      /\ \A s \in progress' : s.last < Today /\ Accounted(s)
    BY <1>1, EnsureKeeps DEF uploads
<1>3. PICK s \in progress' : progress' = {s}
    BY <1>1, EnsureKeeps DEF uploads
<1>4. Today' = Today /\ \A t \in States : Accounted(t)' <=> Accounted(t)
    BY <1>1 DEF Today, Accounted, InObject, rows, uploads
<1>5. CASE UNCHANGED run
    BY <1>1, <1>2, <1>3, <1>4, <1>5 DEF AuditInv, Typed, Consent, OneProgress, ObjectOfDay,
       Reading, Sending, rows, choice, uploads, bounds
<1>6. CASE run' = Running("reading", live, {}, 0, CHOOSE t \in progress' : TRUE)
    <2>1. run' = Running("reading", live, {}, 0, s)
        BY <1>3, <1>6
    <2>2. /\ run' \in Runs /\ run'.phase = "reading" /\ run'.rows = live /\ run'.st = s
        BY <1>2, <2>1, RunningTyped DEF AuditInv, Typed, AuditPhases
    <2>3. Typed' /\ OneProgress'
        BY <1>1, <1>2, <1>3, <1>4, <2>2
           DEF AuditInv, Typed, OneProgress, rows, choice, uploads, bounds, States
    <2> QED
        BY <1>1, <1>2, <1>3, <1>4, <2>2, <2>3 DEF AuditInv, Consent, ObjectOfDay, Reading, Sending,
           rows, choice, uploads
<1> QED
    BY <1>5, <1>6 DEF SyncBegins

(* What has ended and was read is sent or put on the list of days left     *)
(* out.                                                                    *)
LEMMA SyncPlansInv == AuditInv /\ SyncPlans => AuditInv'
<1> SUFFICES ASSUME AuditInv, SyncPlans PROVE AuditInv'
    OBVIOUS
<1> DEFINE read == run.rows \cup rolled
           days == FinishedDays(read, run.st.last)
           todo == Latest(days)
           skip == run.st.skipped \cup (days \ todo)
           st   == [run.st EXCEPT !.skipped = skip]
<1>1. /\ run.phase = "reading" /\ UNCHANGED <<hour, rows, choice, token, device, uploads, bounds>>
      /\ \/ run' = Resting
         \/ run' = Running(IF todo = {} THEN "saving" ELSE "sending", read, todo, hour, st)
    BY DEF SyncPlans
<1> HIDE DEF st
<1>2. Typed /\ OneProgress /\ Consent /\ ObjectOfDay /\ Reading
    BY DEF AuditInv
<1>3. read \subseteq Rows /\ todo \subseteq days
    BY <1>2, RunTyped DEF Typed, Latest
<1>4. /\ days \subseteq Nat /\ \A d \in days : run.st.last < d /\ d < Today
      /\ \A r \in read : run.st.last < r.day /\ r.day < Today => r.day \in days
    <2>1. days = {r.day : r \in read} \cap (run.st.last + 1 .. Today - 1)
        BY DEF FinishedDays
    <2>2. \A r \in read : r.day \in Nat
        BY <1>3 DEF Rows
    <2>3. run.st.last \in Nat /\ Today \in Nat
        BY <1>2, RunTyped
    <2> HIDE DEF read, days
    <2> QED
        BY <2>1, <2>2, <2>3
<1>5. st \in States /\ st.device = run.st.device /\ st.last = run.st.last /\ st.skipped = skip
    <2>1. skip \subseteq Nat
        BY <1>2, <1>4, RunTyped
    <2> QED
        BY <1>2, <2>1, RunTyped DEF st, States
<1>6. Today' = Today /\ \A t \in States : Accounted(t)' <=> Accounted(t)
    BY <1>1 DEF Today, Accounted, InObject, rows, uploads
<1>7. CASE run' = Resting
    BY <1>1, <1>6, <1>7, RestingTyped, RunTyped DEF AuditInv, Typed, Consent, OneProgress,
       ObjectOfDay, Reading, Sending, rows, choice, device, uploads, bounds
<1>8. CASE run' = Running(IF todo = {} THEN "saving" ELSE "sending", read, todo, hour, st)
    <2> DEFINE phase == IF todo = {} THEN "saving" ELSE "sending"
    <2>1. phase \in AuditPhases /\ todo \subseteq Nat /\ hour \in Nat
        BY <1>2, <1>3, <1>4 DEF AuditPhases, Typed
    <2>0. read \in SUBSET Rows /\ todo \in SUBSET Nat
        BY <1>3, <2>1
    <2>2. /\ run' \in Runs /\ run'.phase = phase /\ run'.rows = read /\ run'.todo = todo
          /\ run'.at = hour /\ run'.st = st
        <3>1. run' = Running(phase, read, todo, hour, st)
            BY <1>8
        <3> HIDE DEF phase, read, todo
        <3> QED
            BY <1>5, <2>0, <2>1, <3>1 DEF Running, Runs
    <2>3. Typed' /\ OneProgress' /\ Consent'
        BY <1>1, <1>2, <1>5, <1>6, <2>2
           DEF Typed, OneProgress, Consent, rows, choice, device, uploads, bounds
    <2>4. Accounted(run.st) /\ \A s \in progress : Accounted(s)
        BY <1>1 DEF AuditInv
    <2>5. Accounted(st)
        BY <1>2, <1>5, <2>4 DEF Accounted, InObject
    <2>6. \A r \in live \cup rolled : r \in read \cup late
        BY <1>1, <1>2 DEF Reading
    <2>7. Sending'
        <3> SUFFICES ASSUME run'.phase = "sending" PROVE Sending'
            BY DEF Sending
        <3>1. ThatDay' = Today
            BY <1>1, <2>2 DEF ThatDay, Today
        <3>2. \A r \in read : st.last < r.day /\ r.day < Today => r.day \in todo \cup skip
            BY <1>4, <1>5
        <3>3. todo # {} /\ \A d \in todo : d < Today /\ st.last < d
            BY <1>3, <1>4, <1>5, <2>2
        <3>4. run'.at <= hour' /\ live' = live /\ rolled' = rolled /\ late' = late
            BY <1>1, <2>1, <2>2 DEF rows
        <3> HIDE DEF read, days, todo, skip
        <3> QED
            BY <1>5, <2>2, <2>6, <3>1, <3>2, <3>3, <3>4 DEF Sending
    <2>8. Accounted(run.st)'
        BY <1>5, <1>6, <2>2, <2>5
    <2> QED
        BY <1>1, <1>2, <1>6, <2>2, <2>3, <2>4, <2>7, <2>8 DEF AuditInv, ObjectOfDay, Reading,
           device, uploads, Typed
<1> QED
    BY <1>1, <1>7, <1>8

(* Storing the object of the next day takes no row away from an earlier    *)
(* one, and the object is of that day.                                     *)
LEMMA StoredKeeps ==
    ASSUME AuditInv, run.phase = "sending", UNCHANGED rows,
           server' \in {server, Stored(NextDay)}
    PROVE  /\ server' \subseteq Objects /\ ObjectOfDay'
           /\ \A s \in States : \A r \in live \cup rolled :
                (s.device = run.st.device /\ r.day <= run.st.last /\ InObject(s, r))
                  => InObject(s, r)'
<1> DEFINE d == NextDay
           o == Object(d)
<1>1. Typed /\ ObjectOfDay /\ Sending
    BY DEF AuditInv
<1>2. d \in run.todo /\ run.st.last < d /\ d \in Nat
    BY <1>1, NextDayIsFirst, RunTyped DEF Sending
<1>3. /\ o \in Objects /\ o.device = run.st.device /\ o.day = d
      /\ o.rows = {r \in run.rows : r.day = d}
    BY <1>1, <1>2, RunTyped DEF Object, Objects
<1>4. server' = server \/ server' = {p \in server : p.device # run.st.device \/ p.day # d} \cup {o}
    BY DEF Stored
<1> HIDE DEF d, o
<1>5. server' \subseteq Objects /\ ObjectOfDay'
    BY <1>1, <1>3, <1>4 DEF Typed, ObjectOfDay
<1>6. ASSUME NEW s \in States, NEW r \in live \cup rolled,
             s.device = run.st.device, r.day <= run.st.last, InObject(s, r)
      PROVE  InObject(s, r)'
    <2>1. PICK p \in server : p.device = s.device /\ r \in p.rows
        BY <1>6 DEF InObject
    <2>2. r.day \in Nat /\ p.day = r.day
        BY <1>1, <2>1 DEF ObjectOfDay, Typed, Rows
    <2>3. p.day # d
        BY <1>1, <1>2, <1>6, <2>2, RunTyped
    <2>4. p \in server'
        BY <1>4, <2>1, <2>3
    <2> QED
        BY <2>1, <2>4 DEF InObject
<1> QED
    BY <1>5, <1>6

(* What was accounted for stays so; revoked and late only grow here.       *)
LEMMA StoredAccounted ==
    ASSUME AuditInv, run.phase = "sending", UNCHANGED <<rows, revoked>>,
           server' \in {server, Stored(NextDay)},
           NEW s \in States, s.device = run.st.device, s.last <= run.st.last, Accounted(s)
    PROVE  Accounted(s)'
<1>1. \A r \in live \cup rolled : r.day <= s.last => r.day <= run.st.last
    BY RunTyped DEF AuditInv, Typed, Rows, States
<1>2. \A r \in live \cup rolled : r.day <= s.last /\ InObject(s, r) => InObject(s, r)'
    BY <1>1, StoredKeeps DEF rows
<1> QED
    BY <1>2 DEF Accounted, rows

(* The first day is stored and done, and the next one is later.            *)
LEMMA UploadedInv == AuditInv /\ Uploaded => AuditInv'
<1> SUFFICES ASSUME AuditInv, Uploaded PROVE AuditInv'
    OBVIOUS
<1>0. PICK d : d = NextDay
    OBVIOUS
<1> DEFINE left == run.todo \ {d}
           phase == IF left = {} THEN "saving" ELSE "sending"
<1>1. /\ run.phase = "sending" /\ server' = Stored(d)
      /\ run' = Running(phase, run.rows, left, run.at, Attempted(d, 0))
      /\ UNCHANGED <<hour, rows, choice, token, device, revoked, bounds>>
    BY <1>0 DEF Uploaded
<1>2. Typed /\ OneProgress /\ Consent /\ Sending
    BY DEF AuditInv
<1>3. /\ d \in run.todo /\ d \in Nat /\ run.st.last < d /\ d < ThatDay
      /\ \A e \in run.todo : d <= e
    BY <1>0, <1>1, <1>2, NextDayIsFirst, RunTyped DEF Sending
<1>4. ThatDay \in Nat /\ ThatDay <= Today
    BY <1>1, <1>2, DaysInOrder, RunTyped DEF ThatDay, Today, Typed, Sending
<1>5. PICK st \in States :
        /\ st = Attempted(d, 0) /\ st.device = run.st.device /\ st.last = d
        /\ st.skipped = run.st.skipped
    BY <1>2, <1>3, AttemptedTyped
<1>6. /\ run' \in Runs /\ run'.phase = phase /\ run'.rows = run.rows /\ run'.todo = left
      /\ run'.at = run.at /\ run'.st = st
    <2>1. phase \in AuditPhases /\ left \subseteq Nat
        BY <1>2, RunTyped DEF AuditPhases
    <2> HIDE DEF phase, left
    <2> QED
        BY <1>1, <1>2, <1>5, <2>1, RunTyped DEF Running, Runs
<1>7. server' \subseteq Objects /\ ObjectOfDay' /\ UNCHANGED rows
    BY <1>0, <1>1, StoredKeeps
<1>8. Typed'
    BY <1>1, <1>2, <1>6, <1>7 DEF Typed, rows, choice, device, bounds
<1>9. Today' = Today /\ OneProgress'
    <2>1. Today' = Today /\ progress' = progress /\ run'.phase # "reading"
        BY <1>1, <1>6 DEF Today, device
    <2>2. run'.st.last < Today
        BY <1>2, <1>3, <1>4, <1>5, <1>6, RunTyped
    <2>3. PICK s \in progress : s.device = run.st.device /\ s.last <= run.st.last
        BY <1>1, <1>2 DEF OneProgress
    <2>4. s.device = run'.st.device /\ s.last <= run'.st.last
        BY <1>2, <1>3, <1>5, <1>6, <2>3, RunTyped DEF Typed, States
    <2> QED
        BY <1>2, <2>1, <2>2, <2>3, <2>4 DEF OneProgress
<1>10. (\A s \in progress : Accounted(s))'
    <2>1. ASSUME NEW s \in progress PROVE Accounted(s)'
        <3>1. s.device = run.st.device /\ s.last <= run.st.last /\ Accounted(s) /\ s \in States
            BY <1>1, <1>2 DEF OneProgress, AuditInv, Typed
        <3> QED
            BY <1>0, <1>1, <3>1, StoredAccounted
    <2> QED
        BY <1>1, <2>1 DEF device
<1>11. Accounted(st)'
    <2> SUFFICES ASSUME NEW r \in (live \cup rolled)', r.day <= st.last
                 PROVE  \/ InObject(st, r)' \/ <<st.device, r.day>> \in revoked'
                        \/ r.day \in st.skipped \/ r \in late'
        BY <1>1 DEF Accounted
    <2>1. r \in live \cup rolled /\ r.day \in Nat
        BY <1>2, <1>7 DEF Typed, Rows, rows
    <2>2. CASE r.day <= run.st.last
        <3>1. Accounted(run.st)
            BY <1>1 DEF AuditInv
        <3>2. InObject(run.st, r) => InObject(st, r)
            BY <1>5 DEF InObject
        <3>3. InObject(st, r) => InObject(st, r)'
            BY <1>1, <1>5, <2>1, <2>2, <1>0, StoredKeeps DEF rows
        <3> QED
            BY <1>1, <1>5, <2>1, <2>2, <3>1, <3>2, <3>3 DEF Accounted, rows
    <2>3. CASE run.st.last < r.day
        <3>1. r \in run.rows \cup late
            BY <1>1, <1>2, <1>3, <1>4, <1>5, <2>1 DEF Sending
        <3>2. CASE r \in run.rows
            <4>1. r.day \in run.todo \cup run.st.skipped
                BY <1>1, <1>2, <1>3, <1>4, <1>5, <2>1, <2>3, <3>2 DEF Sending
            <4>2. CASE r.day \in run.todo
                <5>1. r.day = d
                    BY <1>3, <1>5, <2>1, <4>2
                <5>2. /\ Object(d) \in server' /\ Object(d).device = st.device
                      /\ r \in Object(d).rows
                    BY <1>1, <1>5, <3>2, <5>1 DEF Stored, Object
                <5> QED
                    BY <5>2 DEF InObject
            <4> QED
                BY <1>5, <4>1, <4>2
        <3> QED
            BY <1>1, <3>1, <3>2 DEF rows
    <2> QED
        BY <1>2, <2>1, <2>2, <2>3, RunTyped
<1>12. Sending'
    <2> SUFFICES ASSUME left # {} PROVE Sending'
        BY <1>6 DEF Sending
    <2>1. \A e \in left : d < e
        BY <1>2, <1>3, RunTyped
    <2>2. \A r \in run.rows : d < r.day /\ r.day < ThatDay => r.day \in left \cup st.skipped
        BY <1>1, <1>2, <1>3, <1>5, RunTyped DEF Sending, Rows
    <2>3. \A e \in left : e < ThatDay
        BY <1>1, <1>2 DEF Sending
    <2> HIDE DEF left
    <2> QED
        BY <1>1, <1>2, <1>5, <1>6, <1>7, <2>1, <2>2, <2>3 DEF Sending, ThatDay, rows
<1>13. Accounted(run.st)'
    BY <1>6, <1>11 DEF Accounted, InObject
<1> QED
    BY <1>1, <1>2, <1>6, <1>7, <1>8, <1>9, <1>10, <1>12, <1>13 DEF AuditInv, Consent, Reading, choice

(* A failure moves no day, whether the object was stored or not.           *)
LEMMA UploadFailsInv == AuditInv /\ UploadFails => AuditInv'
<1> SUFFICES ASSUME AuditInv, UploadFails PROVE AuditInv'
    OBVIOUS
<1>1. /\ run.phase = "sending" /\ server' \in {server, Stored(NextDay)}
      /\ run' = Running("saving", run.rows, {}, run.at,
                        Attempted(run.st.last, run.st.fails + 1))
      /\ UNCHANGED <<hour, rows, choice, token, device, revoked, bounds>>
    BY DEF UploadFails
<1>2. Typed /\ OneProgress /\ Consent
    BY DEF AuditInv
<1>3. PICK st \in States :
        /\ st = Attempted(run.st.last, run.st.fails + 1) /\ st.device = run.st.device
        /\ st.last = run.st.last /\ st.skipped = run.st.skipped
    BY <1>2, AttemptedTyped, RunTyped
<1>4. run' \in Runs /\ run'.phase = "saving" /\ run'.st = st
    BY <1>1, <1>2, <1>3, RunTyped DEF Running, Runs, AuditPhases
<1>5. server' \subseteq Objects /\ ObjectOfDay'
    BY <1>1, StoredKeeps
<1>6. Typed'
    BY <1>1, <1>2, <1>4, <1>5 DEF Typed, rows, choice, device, bounds
<1>7. OneProgress'
    <2>1. Today' = Today /\ progress' = progress
        BY <1>1 DEF Today, device
    <2> QED
        BY <1>1, <1>2, <1>3, <1>4, <2>1 DEF OneProgress
<1>8. (\A s \in progress : Accounted(s))'
    <2>1. ASSUME NEW s \in progress PROVE Accounted(s)'
        <3>1. s.device = run.st.device /\ s.last <= run.st.last /\ Accounted(s) /\ s \in States
            BY <1>1, <1>2 DEF OneProgress, AuditInv, Typed
        <3> QED
            BY <1>1, <3>1, StoredAccounted
    <2> QED
        BY <1>1, <2>1 DEF device
<1>9. Accounted(st)'
    <2>1. Accounted(run.st)
        BY <1>1 DEF AuditInv
    <2>2. Accounted(st)
        BY <1>3, <2>1 DEF Accounted, InObject
    <2>3. st.last <= run.st.last
        BY <1>2, <1>3, RunTyped
    <2> QED
        BY <1>1, <1>3, <2>2, <2>3, StoredAccounted
<1>10. Accounted(run.st)'
    BY <1>4, <1>9 DEF Accounted, InObject
<1> QED
    BY <1>1, <1>2, <1>4, <1>5, <1>6, <1>7, <1>8, <1>10 DEF AuditInv, Consent, Reading, Sending, choice

(* What a run has reached goes to the file, or nothing of it does.         *)
LEMMA SaveInv == AuditInv /\ (Save \/ SaveFails) => AuditInv'
<1> SUFFICES ASSUME AuditInv, Save \/ SaveFails PROVE AuditInv'
    OBVIOUS
<1>1. /\ run.phase = "saving" /\ run' = Resting /\ faults' \in Nat /\ choices' = choices
      /\ progress' \in {{run.st}, progress, {Torn}}
      /\ UNCHANGED <<hour, rows, choice, token, devices, server, revoked>>
    BY DEF Save, SaveFails, Fault, bounds, uploads, AuditInv, Typed
<1>2. Typed /\ OneProgress /\ Consent
    BY DEF AuditInv
<1>3. Torn \in States /\ Torn.last = 0
    BY NewTyped DEF Torn
<1>4. Typed'
    BY <1>1, <1>2, <1>3, RestingTyped, RunTyped DEF Typed, rows, choice
<1>5. Today' = Today /\ \A t \in States : Accounted(t)' <=> Accounted(t)
    BY <1>1 DEF Today, Accounted, InObject, rows
<1>6. Accounted(Torn)
    BY <1>2, <1>3 DEF Accounted, Typed, Rows
<1>7. \A s, t \in progress' : s = t
    BY <1>1, <1>2 DEF OneProgress
<1>8. \A s \in progress' : s \in States /\ s.last < Today /\ Accounted(s)
    BY <1>1, <1>2, <1>3, <1>6, RunTyped DEF AuditInv, OneProgress, Typed
<1> QED
    BY <1>1, <1>2, <1>4, <1>5, <1>7, <1>8, RestingTyped, RunTyped
       DEF AuditInv, Consent, OneProgress, ObjectOfDay, Reading, Sending, choice

------------------------------------------------------------------------------
(* Settings, damage and restarts *)

(* Consent in memory and in the file change with the wish, or the failure  *)
(* to write it down is noted.                                              *)
LEMMA SettingsInv ==
    ASSUME AuditInv, NEW b \in BOOLEAN, set_enabled(b)
    PROVE  AuditInv'
<1>1. /\ run.phase = "none" /\ choices' = choices + 1 /\ faults' \in {faults, faults + 1}
      /\ UNCHANGED <<hour, rows, token, run, uploads>> /\ on' = b /\ wish' = b
      /\ \/ prefs' = (IF b THEN "on" ELSE "off") /\ unwritten' = FALSE
         \/ unwritten' = TRUE
      /\ ensure_state \/ UNCHANGED device
    BY DEF set_enabled, Choice, Free
<1>2. Consent'
    BY <1>1 DEF Consent
<1>3. /\ progress' \subseteq States /\ devices' \in Nat /\ \A s, t \in progress' : s = t
      /\ \A s \in progress' : s.last < Today /\ Accounted(s)
    <2>1. CASE ensure_state
        BY <1>1, <2>1, EnsureKeeps DEF uploads
    <2>2. CASE UNCHANGED device
        BY <1>1, <2>2 DEF AuditInv, Typed, OneProgress, device
    <2> QED
        BY <1>1, <2>1, <2>2
<1>4. Today' = Today /\ \A t \in States : Accounted(t)' <=> Accounted(t)
    BY <1>1 DEF Today, Accounted, InObject, rows, uploads
<1>5. Typed'
    <2>1. on' \in BOOLEAN /\ wish' \in BOOLEAN /\ unwritten' \in BOOLEAN
        BY <1>1, Zenon
    <2>2. faults' \in Nat /\ choices' \in Nat
        BY <1>1 DEF AuditInv, Typed
    <2> QED
        BY <1>1, <1>3, <2>1, <2>2 DEF AuditInv, Typed, rows, uploads
<1>6. OneProgress' /\ ObjectOfDay' /\ Reading' /\ Sending'
    BY <1>1, <1>3, <1>4 DEF AuditInv, OneProgress, ObjectOfDay, Reading, Sending, uploads
<1>7. (\A s \in progress : Accounted(s))' /\ (run.phase # "none" => Accounted(run.st))'
    BY <1>1, <1>3, <1>4
<1> QED
    BY <1>2, <1>5, <1>6, <1>7 DEF AuditInv

(* Every object of the device that goes is noted as taken back.            *)
LEMMA RevokeInv == AuditInv /\ revoke => AuditInv'
<1> SUFFICES ASSUME AuditInv, revoke PROVE AuditInv'
    OBVIOUS
<1> DEFINE mine == {o \in server : o.device \in {s.device : s \in progress}}
<1>1. /\ run.phase = "none" /\ choices' = choices + 1 /\ ensure_state
      /\ \/ UNCHANGED <<server, revoked>>
         \/ /\ server' = server \ mine
            /\ revoked' = revoked \cup {<<o.device, o.day>> : o \in mine}
      /\ UNCHANGED <<hour, rows, choice, token, run, tried, faults>>
    BY DEF revoke, Choice, Free
<1>2. Typed /\ OneProgress /\ Consent /\ ObjectOfDay
    BY DEF AuditInv
<1>3. /\ progress' \subseteq States /\ devices' \in Nat /\ \A s, t \in progress' : s = t
      /\ \A s \in progress' : s.last < Today
      /\ (progress' = progress \/ progress' = {New(devices + 1)})
    <2>1. CASE progress = {}
        BY <1>1, <1>2, <2>1, NewTyped, RunTyped DEF ensure_state, Typed
    <2>2. CASE progress # {}
        BY <1>1, <1>2, <2>2 DEF ensure_state, device, Typed, OneProgress
    <2> QED
        BY <2>1, <2>2
<1>4. ASSUME NEW s \in States, Accounted(s), s \in progress PROVE Accounted(s)'
    <2> SUFFICES ASSUME NEW r \in live \cup rolled, r.day <= s.last,
                        InObject(s, r), ~ InObject(s, r)'
                 PROVE  <<s.device, r.day>> \in revoked'
        BY <1>1, <1>4 DEF Accounted, rows
    <2>1. PICK o \in server : o.device = s.device /\ r \in o.rows
        BY DEF InObject
    <2>2. o \notin server'
        BY <2>1 DEF InObject
    <2>3. o \in mine /\ o.day = r.day
        BY <1>2, <1>4, <2>1 DEF ObjectOfDay
    <2> QED
        BY <1>1, <2>1, <2>2, <2>3
<1>5. (\A s \in progress : Accounted(s))'
    <2>1. CASE progress' = progress
        BY <1>2, <1>4, <2>1 DEF AuditInv, Typed
    <2>2. CASE progress' = {New(devices + 1)}
        <3>1. PICK s \in States : s = New(devices + 1) /\ s.last = 0
            BY <1>2, NewTyped DEF Typed
        <3>2. Accounted(s)'
            BY <1>1, <1>2, <3>1 DEF Accounted, Typed, Rows, rows
        <3> QED
            BY <2>2, <3>1, <3>2
    <2> QED
        BY <1>3, <2>1, <2>2
<1>6. server' \subseteq server
    BY <1>1
<1>7. Typed'
    BY <1>1, <1>2, <1>3, <1>6 DEF Typed, rows, choice
<1> QED
    BY <1>1, <1>2, <1>3, <1>5, <1>6, <1>7 DEF AuditInv, Consent, OneProgress, ObjectOfDay, Reading,
       Sending, Today, choice

(* A restart follows the file of preferences and keeps or tears the        *)
(* progress.                                                               *)
LEMMA RestartInv == AuditInv /\ Restart => AuditInv'
<1> SUFFICES ASSUME AuditInv, Restart PROVE AuditInv'
    OBVIOUS
<1>1. /\ on' = (prefs = "on") /\ run' = Resting /\ progress' \in {progress, {Torn}}
      /\ faults' \in Nat /\ choices' = choices
      /\ UNCHANGED <<hour, live, rolled, wrote, late, prefs, wish, unwritten, token, devices,
                     server, revoked>>
    BY DEF Restart, Reload, Fault, bounds, AuditInv, Typed
<1>2. Typed /\ OneProgress /\ Consent
    BY DEF AuditInv
<1>3. Torn \in States /\ Torn.last = 0
    BY NewTyped DEF Torn
<1>4. on' \in BOOLEAN
    BY <1>1, Zenon
<1>5. Typed'
    BY <1>1, <1>2, <1>3, <1>4, RestingTyped DEF Typed
<1>6. Today' = Today /\ \A t \in States : Accounted(t)' <=> Accounted(t)
    BY <1>1 DEF Today, Accounted, InObject
<1>7. Accounted(Torn)
    BY <1>2, <1>3 DEF Accounted, Typed, Rows
<1>8. /\ \A s, t \in progress' : s = t
      /\ \A s \in progress' : s \in States /\ s.last < Today /\ Accounted(s)
    BY <1>1, <1>2, <1>3, <1>7, RunTyped DEF AuditInv, OneProgress, Typed
<1>9. Consent'
    BY <1>1, <1>2, RestingTyped DEF Consent
<1> QED
    BY <1>1, <1>2, <1>5, <1>6, <1>8, <1>9, RestingTyped, RunTyped
       DEF AuditInv, OneProgress, ObjectOfDay, Reading, Sending

(* Neither the token, nor a damaged file of preferences, nor taking an     *)
(* unreadable progress away does anything but what it says.                *)
LEMMA OtherInv ==
    ASSUME AuditInv, set_token \/ RemoveProgress \/ DamagePrefs \/ UNCHANGED auditVars
    PROVE  AuditInv'
<1>1. /\ UNCHANGED <<hour, rows, on, wish, unwritten, devices, run, server, revoked>>
      /\ faults' \in Nat /\ choices' \in Nat
      /\ prefs' = prefs \/ prefs' = "bad"
      /\ progress' = progress \/ (progress' = {} /\ run.phase = "none")
    BY DEF set_token, RemoveProgress, DamagePrefs, auditVars, choice, device, uploads, bounds,
       Choice, Fault, Free, AuditInv, Typed
<1>2. /\ progress' \subseteq progress /\ Today' = Today
      /\ \A t \in States : Accounted(t)' <=> Accounted(t)
    BY <1>1 DEF Today, Accounted, InObject, rows
<1>3. Typed' /\ Consent'
    BY <1>1, <1>2 DEF AuditInv, Typed, Consent, rows
<1>4. OneProgress'
    BY <1>1, <1>2 DEF AuditInv, OneProgress
<1>5. ObjectOfDay' /\ Reading' /\ Sending'
    BY <1>1 DEF AuditInv, ObjectOfDay, Reading, Sending, ThatDay, rows
<1>6. (\A s \in progress : Accounted(s))' /\ (run.phase # "none" => Accounted(run.st))'
    BY <1>1, <1>2, RunTyped DEF AuditInv, Typed
<1> QED
    BY <1>3, <1>4, <1>5, <1>6 DEF AuditInv

------------------------------------------------------------------------------
(* The back-off *)

Tries == [at : Nat, fails : Nat]

(* What was last done is what the file says, and what the run under way     *)
(* says; and a run that sends was allowed to.                              *)
Remembered ==
    /\ tried \in [now : Tries, kept : Tries]
    /\ \A s \in progress : s.at = tried.kept.at /\ s.fails = tried.kept.fails
    /\ progress = {} => tried.kept = Nothing
    /\ run.phase # "none" => run.st.at = tried.now.at /\ run.st.fails = tried.now.fails
    /\ run.phase \in {"none", "reading"} => tried.now = tried.kept
    /\ run.phase = "sending" =>
         tried.kept.fails = 0 \/ run.at >= tried.kept.at + Backoff(tried.kept.fails)

(* A new progress has seen no attempt.                                     *)
LEMMA NewForgets ==
    ASSUME NEW d \in Nat
    PROVE  New(d).at = 0 /\ New(d).fails = 0 /\ Nothing \in Tries /\ Nothing.at = 0 /\ Nothing.fails = 0
    BY DEF New, Nothing, Tries

(* Making a progress is not an attempt.                                    *)
LEMMA EnsureRemembers ==
    ASSUME AuditInv, Remembered, ensure_state \/ UNCHANGED device
    PROVE  \A s \in progress' : s.at = tried.kept.at /\ s.fails = tried.kept.fails
<1>1. CASE UNCHANGED device \/ progress # {}
    BY <1>1 DEF Remembered, ensure_state, device
<1>2. CASE progress = {} /\ ensure_state
    <2>1. progress' = {New(devices + 1)} /\ devices + 1 \in Nat
        BY <1>2 DEF ensure_state, AuditInv, Typed
    <2> QED
        BY <1>2, <2>1, NewForgets DEF Remembered
<1> QED
    BY <1>1, <1>2

(* Nothing was tried before the first start.                               *)
LEMMA RememberedInit == AuditInit => Remembered
    BY RestingTyped, NewForgets DEF AuditInit, Remembered

(* A run begins with what the file says.                                   *)
LEMMA SyncBeginsRemembers == AuditInv /\ Remembered /\ SyncBegins => Remembered'
<1> SUFFICES ASSUME AuditInv, Remembered, SyncBegins PROVE Remembered'
    OBVIOUS
<1>1. run.phase = "none" /\ ensure_state /\ tried' = tried
    BY DEF SyncBegins, Free, uploads
<1>2. \A s \in progress' : s.at = tried.kept.at /\ s.fails = tried.kept.fails
    BY <1>1, EnsureRemembers
<1>3. PICK s \in progress' : progress' = {s}
    BY <1>1, EnsureKeeps DEF SyncBegins, uploads
<1>4. CASE UNCHANGED run
    BY <1>1, <1>2, <1>3, <1>4 DEF Remembered
<1>5. CASE run' = Running("reading", live, {}, 0, CHOOSE t \in progress' : TRUE)
    <2>1. run'.phase = "reading" /\ run'.st = s
        BY <1>3, <1>5 DEF Running
    <2> QED
        BY <1>1, <1>2, <1>3, <2>1 DEF Remembered
<1> QED
    BY <1>4, <1>5 DEF SyncBegins

(* A run that goes on to send has waited long enough.                      *)
LEMMA SyncPlansRemembers == AuditInv /\ Remembered /\ SyncPlans => Remembered'
<1> SUFFICES ASSUME AuditInv, Remembered, SyncPlans PROVE Remembered'
    OBVIOUS
<1>1. PICK sk \in SUBSET Nat, phase \in {"saving", "sending"} :
        \/ run' = Resting
        \/ /\ retry_allowed(run.st)
           /\ \E read, todo :
                run' = Running(phase, read, todo, hour, [run.st EXCEPT !.skipped = sk])
    <2> DEFINE read == run.rows \cup rolled
               days == FinishedDays(read, run.st.last)
               todo == Latest(days)
               sk   == run.st.skipped \cup (days \ todo)
               next == IF todo = {} THEN "saving" ELSE "sending"
    <2>1. sk \subseteq Nat
        BY RunTyped DEF AuditInv, FinishedDays
    <2>2. \/ run' = Resting
          \/ /\ retry_allowed(run.st)
             /\ run' = Running(next, read, todo, hour, [run.st EXCEPT !.skipped = sk])
        BY DEF SyncPlans
    <2>3. next \in {"saving", "sending"}
        OBVIOUS
    <2> HIDE DEF read, days, todo, sk, next
    <2> QED
        BY <2>1, <2>2, <2>3
<1>2. run.phase = "reading" /\ progress' = progress /\ tried' = tried /\ progress = {run.st}
    BY DEF SyncPlans, device, uploads, AuditInv, OneProgress
<1>3. CASE run' = Resting
    BY <1>2, <1>3, RestingTyped DEF Remembered
<1>4. CASE /\ retry_allowed(run.st)
           /\ \E read, todo :
                run' = Running(phase, read, todo, hour, [run.st EXCEPT !.skipped = sk])
    <2>1. /\ run'.phase = phase /\ run'.at = hour
          /\ run'.st.at = run.st.at /\ run'.st.fails = run.st.fails
        BY <1>4, RunTyped DEF Running, AuditInv, States
    <2>2. tried.kept.fails = 0 \/ hour >= tried.kept.at + Backoff(tried.kept.fails)
        <3>1. run.st.at = tried.kept.at /\ run.st.fails = tried.kept.fails
            BY <1>2 DEF Remembered
        <3> QED
            BY <1>4, <3>1 DEF retry_allowed
    <2> QED
        BY <1>2, <2>1, <2>2 DEF Remembered
<1> QED
    BY <1>1, <1>3, <1>4

(* What an upload brings is noted in the run, not yet in the file.         *)
LEMMA UploadRemembers == AuditInv /\ Remembered /\ (Uploaded \/ UploadFails) => Remembered'
<1> SUFFICES ASSUME AuditInv, Remembered, Uploaded \/ UploadFails PROVE Remembered'
    OBVIOUS
<1>1. run.phase = "sending" /\ progress' = progress
    BY DEF Uploaded, UploadFails, device
<1>2. PICK fails \in Nat, phase \in {"saving", "sending"} :
        /\ Attempt(fails)
        /\ \E todo, last :
             run' = Running(phase, run.rows, todo, run.at, Attempted(last, fails))
    <2>1. CASE Uploaded
        <3> DEFINE left == run.todo \ {NextDay}
                   next == IF left = {} THEN "saving" ELSE "sending"
        <3>1. Attempt(0) /\ run' = Running(next, run.rows, left, run.at, Attempted(NextDay, 0))
            BY <2>1 DEF Uploaded
        <3>2. next \in {"saving", "sending"}
            OBVIOUS
        <3> HIDE DEF left, next
        <3> QED
            BY <3>1, <3>2
    <2>2. CASE UploadFails
        <3>1. tried.now.fails + 1 = run.st.fails + 1 /\ run.st.fails + 1 \in Nat
            BY <1>1, RunTyped DEF Remembered, AuditInv
        <3> QED
            BY <2>2, <3>1 DEF UploadFails
    <2> QED
        BY <2>1, <2>2
<1>3. /\ run'.phase = phase /\ run'.at = run.at
      /\ run'.st.at = run.at /\ run'.st.fails = fails
    BY <1>2 DEF Running, Attempted
<1>4. /\ tried' \in [now : Tries, kept : Tries]
      /\ tried'.kept = tried.kept /\ tried'.now = [at |-> run.at, fails |-> fails]
    BY <1>2, RunTyped DEF Attempt, Remembered, Tries, AuditInv
<1> QED
    BY <1>1, <1>3, <1>4 DEF Remembered

(* A write brings the file up to the run; a failed one, and a restart,      *)
(* leave it or tear it.                                                    *)
LEMMA SaveRemembers ==
    AuditInv /\ Remembered /\ (Save \/ SaveFails \/ Restart) => Remembered'
<1> SUFFICES ASSUME AuditInv, Remembered, Save \/ SaveFails \/ Restart PROVE Remembered'
    OBVIOUS
<1>1. run' = Resting /\ run'.phase = "none"
    BY RestingTyped DEF Save, SaveFails, Restart
<1>2. Torn.at = 0 /\ Torn.fails = 0
    BY NewForgets DEF Torn
<1>3. CASE Save
    <2>1. run.phase = "saving" /\ progress' = {run.st}
        BY <1>3 DEF Save
    <2>2. tried' = [tried EXCEPT !.kept = tried.now]
        BY <1>3 DEF Save
    <2>3. /\ tried' \in [now : Tries, kept : Tries]
          /\ tried'.now = tried.now /\ tried'.kept = tried.now
        BY <2>2 DEF Remembered
    <2> QED
        BY <1>1, <2>1, <2>3 DEF Remembered
<1>4. CASE Forgotten /\ progress' \in {progress, {Torn}}
    <2>1. PICK met \in Tries :
            /\ tried' = [now |-> met, kept |-> met]
            /\ met = IF progress' = {Torn} THEN Nothing ELSE tried.kept
        BY <1>4, NewForgets DEF Forgotten, Remembered
    <2>2. tried' \in [now : Tries, kept : Tries] /\ tried'.now = met /\ tried'.kept = met
        BY <2>1
    <2> QED
        BY <1>1, <1>2, <1>4, <2>1, <2>2, NewForgets DEF Remembered
<1>5. CASE Restart /\ Free /\ UNCHANGED <<progress, tried>>
    BY <1>1, <1>5 DEF Remembered, Free
<1> QED
    BY <1>3, <1>4, <1>5 DEF SaveFails, Restart

(* No other step is an attempt, or touches what one left behind.           *)
LEMMA OtherRemembers ==
    ASSUME AuditInv, Remembered,
           \/ Hour \/ \E day \in {Today - 1, Today} \ {0} : Record(day)
           \/ \E b \in BOOLEAN : set_enabled(b)
           \/ set_token \/ revoke \/ RemoveProgress \/ DamagePrefs \/ UNCHANGED auditVars
    PROVE  Remembered'
<1>1. /\ run' = run /\ tried' = tried
      /\ \/ ensure_state \/ UNCHANGED device
         \/ run.phase = "none" /\ progress = {Torn} /\ progress' = {}
    <2>1. CASE Hour \/ \E day \in {Today - 1, Today} \ {0} : Record(day)
        BY <2>1 DEF Hour, Record, uploads
    <2>2. CASE \E b \in BOOLEAN : set_enabled(b)
        BY <2>2 DEF set_enabled, uploads
    <2>3. CASE set_token \/ revoke \/ RemoveProgress \/ DamagePrefs \/ UNCHANGED auditVars
        BY <2>3 DEF set_token, revoke, RemoveProgress, DamagePrefs, uploads, auditVars, Free
    <2> QED
        BY <2>1, <2>2, <2>3
<1>2. CASE ensure_state \/ UNCHANGED device
    <2>1. \A s \in progress' : s.at = tried.kept.at /\ s.fails = tried.kept.fails
        BY <1>2, EnsureRemembers
    <2>2. progress' = {} => progress = {}
        BY <1>2 DEF ensure_state, device
    <2> QED
        BY <1>1, <2>1, <2>2 DEF Remembered
<1>3. CASE run.phase = "none" /\ progress = {Torn} /\ progress' = {}
    <2>1. tried.kept \in Tries /\ tried.kept.at = 0 /\ tried.kept.fails = 0
        BY <1>3, NewForgets DEF Remembered, Torn
    <2>2. tried.kept = Nothing
        BY <2>1 DEF Tries, Nothing
    <2> QED
        BY <1>1, <1>3, <2>2 DEF Remembered
<1> QED
    BY <1>1, <1>2, <1>3

------------------------------------------------------------------------------
(* The theorems *)

(* Every step keeps the strengthening.                                     *)
LEMMA AuditInvStep == AuditInv /\ [AuditNext]_auditVars => AuditInv'
<1> SUFFICES ASSUME AuditInv, [AuditNext]_auditVars PROVE AuditInv'
    OBVIOUS
<1>1. CASE Hour
    BY <1>1, HourInv
<1>2. ASSUME NEW day \in {Today - 1, Today} \ {0}, Record(day) PROVE AuditInv'
    BY <1>2, RecordInv
<1>3. CASE SyncBegins \/ SyncPlans
    BY <1>3, SyncBeginsInv, SyncPlansInv
<1>4. CASE Uploaded \/ UploadFails
    BY <1>4, UploadedInv, UploadFailsInv
<1>5. CASE Save \/ SaveFails
    BY <1>5, SaveInv
<1>6. ASSUME NEW b \in BOOLEAN, set_enabled(b) PROVE AuditInv'
    BY <1>6, SettingsInv
<1>7. CASE revoke \/ Restart
    BY <1>7, RevokeInv, RestartInv
<1>8. CASE set_token \/ RemoveProgress \/ DamagePrefs \/ UNCHANGED auditVars
    BY <1>8, OtherInv
<1> QED
    BY <1>1, <1>2, <1>3, <1>4, <1>5, <1>6, <1>7, <1>8 DEF AuditNext

(* The strengthening holds in every state of every run.                    *)
THEOREM AuditInvariant == AuditSpec => []AuditInv
    BY AuditInvInit, AuditInvStep, PTL DEF AuditSpec

(* Whatever fails, is rotated away or starts again, and however days,      *)
(* files and retries fall: a row of a day that is called done is in the    *)
(* object of that day, taken back, or on the list of what was not sent.    *)
THEOREM NoRowBetweenDays == AuditSpec => []RowsAccounted
<1>1. AuditInv => RowsAccounted
    BY DEF AuditInv, Accounted, InObject, RowsAccounted
<1> QED
    BY <1>1, AuditInvariant, PTL

(* No order of settings, failed writes, damage and restarts makes a run    *)
(* send for a user who has turned the upload off, or never on.             *)
THEOREM SentOnlyWhenAsked == AuditSpec => OnlyWhenAsked
<1>1. AuditInv /\ [AuditNext]_auditVars => [Sends => wish \/ unwritten]_auditVars
    BY DEF AuditInv, Consent, Sends
<1> QED
    BY <1>1, AuditInvariant, PTL DEF AuditSpec, OnlyWhenAsked
(* Every step keeps what is remembered.                                    *)
LEMMA RememberedStep == AuditInv /\ Remembered /\ [AuditNext]_auditVars => Remembered'
<1> SUFFICES ASSUME AuditInv, Remembered, [AuditNext]_auditVars PROVE Remembered'
    OBVIOUS
<1>1. CASE SyncBegins \/ SyncPlans
    BY <1>1, SyncBeginsRemembers, SyncPlansRemembers
<1>2. CASE Uploaded \/ UploadFails
    BY <1>2, UploadRemembers
<1>3. CASE Save \/ SaveFails \/ Restart
    BY <1>3, SaveRemembers
<1>4. CASE \/ Hour \/ \E day \in {Today - 1, Today} \ {0} : Record(day)
           \/ \E b \in BOOLEAN : set_enabled(b)
           \/ set_token \/ revoke \/ RemoveProgress \/ DamagePrefs \/ UNCHANGED auditVars
    BY <1>4, OtherRemembers
<1> QED
    BY <1>1, <1>2, <1>3, <1>4 DEF AuditNext

(* Whatever the lengths of the back-off: no order of failures, crashes,     *)
(* torn files and restarts makes a run send before the time that the last   *)
(* outcome not lost allows.                                                *)
THEOREM NeverTooSoon == AuditSpec => BacksOff
<1>1. AuditInv /\ Remembered /\ [AuditNext]_auditVars
        => [Sends => \/ tried.kept.fails = 0
                     \/ run.at >= tried.kept.at + Backoff(tried.kept.fails)]_auditVars
    BY DEF Remembered, Sends
<1> QED
    BY <1>1, RememberedInit, RememberedStep, AuditInvariant, PTL DEF AuditSpec, BacksOff

------------------------------------------------------------------------------
(* The types *)

(* Rows are numbered as they are written, on days there have been.         *)
RowsOK ==
    /\ hour <= MaxHour /\ wrote <= MaxRows
    /\ live \cup rolled \cup late \cup run.rows \subseteq Row

(* Only a day that has ended is left out.                                  *)
AllOver(days) == \A d \in days : d < Today

SkippedOK == AllOver(run.st.skipped) /\ \A s \in progress : AllOver(s.skipped)

(* A device has one object for a day.                                      *)
OneObject ==
    \A o, p \in server : (o.device = p.device /\ o.day = p.day) => o = p

LEMMA RowsStep ==
    ASSUME AuditInv, RowsOK, [AuditNext]_auditVars
    PROVE  RowsOK'
<1>1. Typed /\ MaxHour \in Nat /\ MaxRows \in Nat
    BY AuditAssumption DEF AuditInv
<1>2. /\ hour \in Nat /\ wrote \in Nat /\ hour <= MaxHour /\ wrote <= MaxRows
      /\ live \subseteq Row /\ rolled \subseteq Row /\ late \subseteq Row /\ run.rows \subseteq Row
    BY <1>1 DEF Typed, RowsOK
<1>3. CASE Hour
    <2>1. hour' = hour + 1 /\ hour < MaxHour /\ UNCHANGED <<wrote, live, rolled, late, run>>
        BY <1>3 DEF Hour, rows
    <2> QED
        BY <1>1, <1>2, <2>1 DEF RowsOK
<1>4. ASSUME NEW day \in {Today - 1, Today} \ {0}, Record(day) PROVE RowsOK'
    <2> DEFINE row == [day |-> day, n |-> wrote + 1]
    <2>1. /\ wrote < MaxRows /\ wrote' = wrote + 1 /\ UNCHANGED <<hour, run>>
          /\ live' \subseteq live \cup {row} /\ rolled' \subseteq rolled \cup live
          /\ late' \subseteq late \cup {row}
        BY <1>4 DEF Record
    <2>2. /\ hour \div DayLen <= MaxHour \div DayLen
          /\ hour \div DayLen \in Nat /\ MaxHour \div DayLen \in Nat
        BY <1>1, <1>2, DaysInOrder
    <2>3. day \in 1 .. MaxHour \div DayLen + 1
        BY <2>2 DEF Today
    <2>4. wrote + 1 \in 1 .. MaxRows
        BY <1>1, <1>2, <2>1
    <2>5. row \in Row
        BY <2>3, <2>4 DEF Row
    <2> HIDE DEF row
    <2> QED
        BY <1>1, <1>2, <2>1, <2>5 DEF RowsOK
<1>5. ASSUME UNCHANGED <<hour, live, rolled, wrote, late>>,
             run' = run \/ run'.rows \subseteq run.rows \cup live \cup rolled
      PROVE  RowsOK'
    BY <1>2, <1>5 DEF RowsOK
<1>6. CASE UNCHANGED auditVars
    BY <1>5, <1>6 DEF auditVars, rows
<1>7. CASE SyncBegins \/ SyncPlans \/ Uploaded \/ UploadFails \/ Save \/ SaveFails
    <2>1. run' = run \/ run'.rows \subseteq run.rows \cup live \cup rolled
        BY <1>7 DEF SyncBegins, SyncPlans, Uploaded, UploadFails, Save, SaveFails, Running, Resting
    <2>2. UNCHANGED <<hour, live, rolled, wrote, late>>
        BY <1>7 DEF SyncBegins, SyncPlans, Uploaded, UploadFails, Save, SaveFails, rows
    <2> QED
        BY <1>5, <2>1, <2>2
<1>8. CASE \/ \E b \in BOOLEAN : set_enabled(b)
           \/ set_token \/ revoke \/ RemoveProgress \/ DamagePrefs
    <2>1. UNCHANGED <<hour, live, rolled, wrote, late, run>>
        BY <1>8 DEF set_enabled, set_token, revoke, RemoveProgress, DamagePrefs, rows
    <2> QED
        BY <1>5, <2>1
<1>9. CASE Restart
    <2>1. run'.rows = {} /\ UNCHANGED <<hour, live, rolled, wrote, late>>
        BY <1>9 DEF Restart, Resting, Running
    <2> QED
        BY <1>5, <2>1
<1> QED
    BY <1>3, <1>4, <1>6, <1>7, <1>8, <1>9 DEF AuditNext

LEMMA SkippedStep ==
    ASSUME AuditInv, SkippedOK, [AuditNext]_auditVars
    PROVE  SkippedOK'
<1>1. /\ Typed /\ run.st \in States /\ run.st.skipped \subseteq Nat /\ Today \in Nat
      /\ progress \subseteq States
    BY RunTyped DEF AuditInv, Typed
<1>2. Torn.skipped = {} /\ Resting.st.skipped = {} /\ New(devices + 1).skipped = {}
    BY DEF Torn, New, Resting, Running
<1>3. Today' \in Nat /\ Today <= Today'
    <2>1. hour' = hour \/ hour' = hour + 1
        BY DEF AuditNext, auditVars, Hour, Record, SyncBegins, SyncPlans, Uploaded, UploadFails,
           Save, SaveFails, set_enabled, set_token, revoke, RemoveProgress, DamagePrefs, Restart
    <2> QED
        BY <1>1, <2>1, DaysInOrder DEF Typed, Today
<1>4. \A days \in SUBSET Nat : AllOver(days) => AllOver(days)'
    BY <1>1, <1>3 DEF AllOver
<1>5. ASSUME run'.st.skipped \in SUBSET Nat, AllOver(run'.st.skipped),
             \A s \in progress' : s \in progress \/ s.skipped = {} \/ s = run.st
      PROVE  SkippedOK'
    <2>1. \A s \in progress' : s.skipped \in SUBSET Nat /\ AllOver(s.skipped)
        BY <1>1, <1>5 DEF SkippedOK, AllOver, States
    <2> QED
        BY <1>4, <1>5, <2>1 DEF SkippedOK
<1>6. AllOver(run.st.skipped) /\ AllOver({}) /\ \A s \in progress : AllOver(s.skipped)
    BY DEF SkippedOK, AllOver
<1>7. ASSUME run' = run, \A s \in progress' : s \in progress \/ s.skipped = {} PROVE SkippedOK'
    BY <1>1, <1>5, <1>6, <1>7
<1>8. ensure_state => \A s \in progress' : s \in progress \/ s.skipped = {}
    BY <1>2 DEF ensure_state, device
<1>9. CASE SyncBegins
    <2>1. ensure_state /\ (run' = run \/ \E s \in progress' : run'.st = s)
        <3>1. progress' # {}
            BY <1>9 DEF SyncBegins, ensure_state, device
        <3> QED
            BY <1>9, <3>1 DEF SyncBegins, Running
    <2>2. ASSUME NEW s \in progress', run'.st = s PROVE SkippedOK'
        <3>1. s.skipped \in SUBSET Nat /\ AllOver(s.skipped)
            BY <1>1, <1>6, <1>8, <2>1 DEF States
        <3> QED
            BY <1>5, <1>8, <2>1, <2>2, <3>1
    <2> QED
        BY <1>7, <1>8, <2>1, <2>2
<1>10. CASE SyncPlans
    <2> DEFINE days == FinishedDays(run.rows \cup rolled, run.st.last)
               more == days \ Latest(days)
               st == [run.st EXCEPT !.skipped = @ \cup more]
    <2>1. run' = Resting \/ run'.st = st
        BY <1>10 DEF SyncPlans, Running
    <2>2. progress' = progress
        BY <1>10 DEF SyncPlans, device
    <2>3. st.skipped = run.st.skipped \cup more
        BY <1>1 DEF States
    <2>4. more \in SUBSET Nat /\ AllOver(more)
        <3>1. run.st.last \in Nat
            BY <1>1, RunTyped
        <3>2. \A d \in run.st.last + 1 .. Today - 1 : d \in Nat /\ d < Today
            BY <1>1, <3>1
        <3> QED
            BY <3>2 DEF FinishedDays, AllOver
    <2> HIDE DEF st, more
    <2>5. st.skipped \in SUBSET Nat /\ AllOver(st.skipped)
        BY <1>1, <1>6, <2>3, <2>4 DEF AllOver
    <2> QED
        BY <1>2, <1>5, <1>6, <2>1, <2>2, <2>5
<1>11. CASE Uploaded \/ UploadFails
    <2>1. run'.st.skipped = run.st.skipped /\ progress' = progress
        BY <1>11 DEF Uploaded, UploadFails, Running, Attempted, device
    <2> QED
        BY <1>1, <1>5, <1>6, <2>1
<1>12. CASE Save \/ SaveFails \/ Restart
    <2>1. run' = Resting /\ progress' \in {progress, {run.st}, {Torn}}
        BY <1>12 DEF Save, SaveFails, Restart
    <2> QED
        BY <1>2, <1>5, <1>6, <2>1
<1>13. CASE \/ \E b \in BOOLEAN : set_enabled(b)
            \/ set_token \/ revoke \/ RemoveProgress \/ DamagePrefs
    <2>1. run' = run /\ (ensure_state \/ progress' = progress \/ progress' = {})
        BY <1>13 DEF set_enabled, set_token, revoke, RemoveProgress, DamagePrefs, device
    <2> QED
        BY <1>7, <1>8, <2>1
<1>14. CASE Hour \/ (\E day \in {Today - 1, Today} \ {0} : Record(day)) \/ UNCHANGED auditVars
    <2>1. run' = run /\ progress' = progress
        BY <1>14 DEF Hour, Record, auditVars, device
    <2> QED
        BY <1>7, <2>1
<1> QED
    BY <1>9, <1>10, <1>11, <1>12, <1>13, <1>14 DEF AuditNext

(* An object that is stored takes the place of the one before.             *)
LEMMA OneObjectStep ==
    ASSUME OneObject, [AuditNext]_auditVars
    PROVE  OneObject'
<1>1. ASSUME NEW d, server' = Stored(d) PROVE OneObject'
    <2>1. Object(d).device = run.st.device /\ Object(d).day = d
        BY DEF Object
    <2> QED
        BY <1>1, <2>1 DEF Stored, OneObject
<1>2. ASSUME server' \subseteq server PROVE OneObject'
    BY <1>2 DEF OneObject
<1>3. server' \subseteq server \/ \E d : server' = Stored(d)
    BY DEF AuditNext, auditVars, Hour, Record, SyncBegins, SyncPlans, Uploaded, UploadFails,
       Save, SaveFails, set_enabled, set_token, revoke, RemoveProgress, DamagePrefs, Restart,
       uploads
<1> QED
    BY <1>1, <1>2, <1>3

LEMMA TypesInit == AuditInit => RowsOK /\ SkippedOK /\ OneObject
<1> SUFFICES ASSUME AuditInit PROVE RowsOK /\ SkippedOK /\ OneObject
    OBVIOUS
<1>1. Resting.rows = {} /\ Resting.st.skipped = {}
    BY DEF Resting, Running, Torn, New
<1> QED
    BY <1>1, AuditAssumption DEF AuditInit, RowsOK, SkippedOK, AllOver, OneObject

(* Whatever fails, is revoked, rotated or started again: a device has one  *)
(* object for a day, and neither the mark of the progress file nor its     *)
(* list of days left out ever reaches the day that has not ended           *)
(* (AuditTypeOK).                                                          *)
THEOREM AuditTypeCorrect == AuditSpec => []AuditTypeOK
<1> DEFINE IInv == AuditInv /\ RowsOK /\ SkippedOK /\ OneObject
<1>1. AuditInit => IInv
    BY AuditInvInit, TypesInit
<1>2. IInv /\ [AuditNext]_auditVars => IInv'
    BY AuditInvStep, RowsStep, SkippedStep, OneObjectStep
<1>3. IInv => AuditTypeOK
    BY DEF AuditInv, Typed, States, OneProgress, RowsOK, SkippedOK, AllOver, OneObject, AuditTypeOK
<1> HIDE DEF IInv
<1>4. AuditSpec => []IInv
    BY <1>1, <1>2, PTL DEF AuditSpec
<1> QED
    BY <1>3, <1>4, PTL

=============================================================================
