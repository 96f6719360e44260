---------------------------- MODULE Rules_proofs ----------------------------
(***************************************************************************)
(* For any hosts, nodes, profiles and number of edits: what is marked as   *)
(* applied is what the core was given, and in every table the core is      *)
(* given no two rules have one tag, corrections come before the user's     *)
(* rules and those before verdicts, and MITM's own connections never go    *)
(* back to MITM (RuleTable).  For any number of roots, of roots that do    *)
(* not leave and of concurrent calls of mitm_apply: a running core that    *)
(* steers is served unless one of the named things happened, and only      *)
(* left-over roots make a start steer (MitmSwitch).  For any addresses,    *)
(* networks and servers, and whatever routes cannot be installed: the      *)
(* kernel's table sends each address where the plan means it to go, and    *)
(* the plan is one that TunSession can install (TunPlan).                  *)
(***************************************************************************)
EXTENDS RuleTable, MitmSwitch, TunPlan, FiniteSetTheorems, SequenceTheorems,
        WellFoundedInduction, TLAPS

(* One core, one start with one set of rules handed, one push at a time.   *)
AtMostOne(S) == \A a, b \in S : a = b

OneOfEach == AtMostOne(core) /\ AtMostOne(push)

(* What is marked as applied was given to the core, unless the verdicts    *)
(* changed in between.                                                     *)
Given(c) == {Hash(c.allow, c.block)} = applied

InForce == (applied # {} /\ ~overtaken) => \A c \in core : Given(c)

RulesInv == OneOfEach /\ InForce

LEMMA Marked ==
    ASSUME NEW r, MarkApplied(r), applied' # {}, ~overtaken'
    PROVE  applied' = {Hash(r.allow, r.block)}
  BY DEF MarkApplied

LEMMA RulesInit == TableInit => RulesInv
  BY DEF TableInit, RulesInv, OneOfEach, AtMostOne, InForce

LEMMA RulesStep == RulesInv /\ [TableNext]_tableVars => RulesInv'
<1>1. SUFFICES ASSUME RulesInv, [TableNext]_tableVars PROVE RulesInv'
  OBVIOUS
<1>. USE DEF RulesInv, OneOfEach, AtMostOne, InForce, Given
<1>2. CASE UNCHANGED tableVars BY <1>1, <1>2 DEF tableVars
<1>3. ASSUME NEW h \in Name,
             Judge(h) \/ \E way \in {"direct", "selected"} : Correct(h, way)
      PROVE  RulesInv'
  BY <1>1, <1>3 DEF Judge, Correct, Edit
<1>4. CASE SaveSettings BY <1>1, <1>4 DEF SaveSettings, Edit
<1>5. CASE StartCore \/ HandRules \/ CoreNotUp
  BY <1>1, <1>5 DEF StartCore, HandRules, CoreNotUp
<1>6. CASE CoreUp
  <2>1. PICK j \in start : \E r \in j.handed, n \in Node :
          /\ core' = {[settings |-> j.settings, allow |-> r.allow, block |-> r.block,
                       node |-> n, pushed |-> FALSE]}
          /\ MarkApplied(r)
    BY <1>6 DEF CoreUp
  <2>2. PICK r \in j.handed, n \in Node :
          /\ core' = {[settings |-> j.settings, allow |-> r.allow, block |-> r.block,
                       node |-> n, pushed |-> FALSE]}
          /\ MarkApplied(r)
    BY <2>1
  <2>3. push' = push BY <1>6 DEF CoreUp
  <2>4. \A c \in core' : c.allow = r.allow /\ c.block = r.block BY <2>2
  <2>5. \A c, d \in core' : c = d BY <2>2
  <2>. QED BY <1>1, <2>2, <2>3, <2>4, <2>5, Marked
<1>7. CASE CoreEnds BY <1>1, <1>7 DEF CoreEnds
<1>8. CASE ApplyAsked
  <2>1. CASE core = {} BY <1>1, <1>8, <2>1 DEF ApplyAsked
  <2>2. CASE core # {} BY <1>1, <1>8, <2>2 DEF ApplyAsked
  <2>. QED BY <2>1, <2>2
<1>9. CASE PushTaken
  <2>1. PICK p \in push : MarkApplied(p) BY <1>9 DEF PushTaken
  <2>2. core' = push /\ push' = {} BY <1>9 DEF PushTaken
  <2>3. \A c \in core' : c = p BY <1>1, <2>1, <2>2
  <2>. QED BY <1>1, <2>1, <2>2, <2>3, Marked
<1>10. CASE PushFails BY <1>1, <1>10 DEF PushFails
<1>. QED BY <1>1, <1>2, <1>3, <1>4, <1>5, <1>6, <1>7, <1>8, <1>9, <1>10 DEF TableNext

(* When nothing is to be applied, the running core blocks and allows what  *)
(* it should, unless the verdicts changed between sending and noting it:   *)
(* marking in one place never covers for rules sent in another.            *)
THEOREM AppliedHolds == TableSpec => []AppliedIsInForce
<1>1. RulesInv => AppliedIsInForce
  BY DEF RulesInv, InForce, Given, AppliedIsInForce, NeedsApply
<1>. QED BY <1>1, RulesInit, RulesStep, PTL DEF TableSpec

------------------------------------------------------------------------------
(* Least numbers and induction *)

(* Every set of natural numbers but the empty one has a least number.      *)
LEMMA Smallest ==
    ASSUME NEW S, S \subseteq Nat, S # {}
    PROVE  \E x \in S : \A y \in S : x <= y
<1>. DEFINE R == OpToRel(<, Nat)
<1>1. IsWellFoundedOn(R, Nat) BY NatLessThanWellFounded
<1>2. \A x, y \in Nat : y < x => <<y, x>> \in R BY DEF OpToRel
<1>. HIDE DEF R
<1>3. PICK x \in S : \A y \in S : <<y, x>> \notin R BY <1>1, WFMin
<1>4. \A y \in S : ~(y < x) BY <1>2, <1>3
<1>. QED BY <1>4

(* A set that has 0, and the successor of what it has, has every number.   *)
LEMMA Induction ==
    ASSUME NEW S, 0 \in S, \A n \in Nat : n \in S => n + 1 \in S
    PROVE  \A n \in Nat : n \in S
<1>. DEFINE T == Nat \ S
<1>1. SUFFICES ASSUME T # {} PROVE FALSE OBVIOUS
<1>2. PICK x \in T : \A y \in T : x <= y BY <1>1, Smallest
<1>3. x - 1 \in Nat /\ x - 1 < x /\ (x - 1) + 1 = x BY <1>2
<1>4. x - 1 \notin T BY <1>2, <1>3
<1>. QED BY <1>2, <1>3, <1>4

LEMMA LeastIs ==
    ASSUME NEW S, S \subseteq Nat, S # {}
    PROVE  Least(S) \in S /\ \A y \in S : Least(S) <= y
  BY Smallest DEF Least

------------------------------------------------------------------------------
(* Sequences of anything *)

LEMMA InSeq ==
    ASSUME NEW s, IsSeq(s), NEW P, \A i \in 1 .. Len(s) : s[i] \in P
    PROVE  s \in Seq(P)
<1>. DEFINE n == Len(s)
<1>1. n \in Nat /\ s = [i \in 1 .. n |-> s[i]] BY DEF IsSeq
<1>2. \A i \in 1 .. n : s[i] \in P OBVIOUS
<1>. HIDE DEF n
<1>3. s \in [1 .. n -> P] BY <1>1, <1>2
<1>. QED BY <1>1, <1>3, SeqDef

LEMMA FromSeq ==
    ASSUME NEW P, NEW s \in Seq(P)
    PROVE  IsSeq(s) /\ DOMAIN s = 1 .. Len(s)
<1>1. Len(s) \in Nat /\ DOMAIN s = 1 .. Len(s) /\ s \in [1 .. Len(s) -> P] BY LenProperties
<1>. QED BY <1>1 DEF IsSeq

LEMMA ListIsSeq ==
    ASSUME NEW n \in Nat, NEW s, s = [i \in 1 .. n |-> s[i]]
    PROVE  IsSeq(s) /\ Len(s) = n
<1>. DEFINE P == {s[i] : i \in 1 .. n}
<1>1. s \in [1 .. n -> P] OBVIOUS
<1>. HIDE DEF P
<1>2. s \in Seq(P) BY <1>1, SeqDef
<1>3. DOMAIN s = 1 .. n /\ DOMAIN s = 1 .. Len(s) /\ Len(s) \in Nat
  BY <1>1, <1>2, LenProperties
<1>4. Len(s) = n BY <1>3
<1>. QED BY <1>2, <1>4, FromSeq

LEMMA NothingIsSeq == IsSeq(<<>>) /\ Len(<<>>) = 0
<1>1. <<>> \in Seq({}) /\ Len(<<>>) = 0 OBVIOUS
<1>. QED BY <1>1, FromSeq

LEMMA Appended ==
    ASSUME NEW s, IsSeq(s), NEW e
    PROVE  /\ IsSeq(Append(s, e)) /\ Len(Append(s, e)) = Len(s) + 1 /\ Len(s) \in Nat
           /\ \A i \in 1 .. Len(s) : Append(s, e)[i] = s[i]
           /\ Append(s, e)[Len(s) + 1] = e
<1>. DEFINE P == {s[i] : i \in 1 .. Len(s)} \cup {e}
<1>1. Len(s) \in Nat BY DEF IsSeq
<1>2. e \in P /\ \A i \in 1 .. Len(s) : s[i] \in P OBVIOUS
<1>. HIDE DEF P
<1>3. s \in Seq(P) BY <1>2, InSeq
<1>4. /\ Append(s, e) \in Seq(P) /\ Len(Append(s, e)) = Len(s) + 1
      /\ \A i \in 1 .. Len(s) : Append(s, e)[i] = s[i]
      /\ Append(s, e)[Len(s) + 1] = e
  BY <1>2, <1>3, AppendProperties
<1>5. IsSeq(Append(s, e)) BY <1>4, FromSeq
<1>. QED BY <1>1, <1>4, <1>5

LEMMA Joined ==
    ASSUME NEW s, IsSeq(s), NEW t, IsSeq(t)
    PROVE  /\ IsSeq(s \o t) /\ Len(s \o t) = Len(s) + Len(t)
           /\ Len(s) \in Nat /\ Len(t) \in Nat
           /\ \A i \in 1 .. Len(s) : (s \o t)[i] = s[i]
           /\ \A i \in 1 .. Len(t) : (s \o t)[Len(s) + i] = t[i]
<1>. DEFINE P == {s[i] : i \in 1 .. Len(s)} \cup {t[i] : i \in 1 .. Len(t)}
<1>1. Len(s) \in Nat /\ Len(t) \in Nat BY DEF IsSeq
<1>2. (\A i \in 1 .. Len(s) : s[i] \in P) /\ (\A i \in 1 .. Len(t) : t[i] \in P) OBVIOUS
<1>. HIDE DEF P
<1>3. s \in Seq(P) /\ t \in Seq(P) BY <1>2, InSeq
<1>4. /\ s \o t \in Seq(P) /\ Len(s \o t) = Len(s) + Len(t)
      /\ \A i \in 1 .. Len(s) + Len(t) : (s \o t)[i] = IF i <= Len(s) THEN s[i] ELSE t[i - Len(s)]
  BY <1>3, ConcatProperties
<1>5. ASSUME NEW i \in 1 .. Len(t) PROVE (s \o t)[Len(s) + i] = t[i]
  <2>1. Len(s) + i \in 1 .. Len(s) + Len(t) /\ ~(Len(s) + i <= Len(s)) /\ (Len(s) + i) - Len(s) = i
    BY <1>1
  <2>. QED BY <1>4, <2>1
<1>6. \A i \in 1 .. Len(s) : (s \o t)[i] = s[i] BY <1>1, <1>4
<1>. QED BY <1>1, <1>4, <1>5, <1>6, FromSeq

------------------------------------------------------------------------------
(* Tags *)

(* There is a suffix that is free, and FreeTag finds the first.            *)
LEMMA FreeTagIsFree ==
    ASSUME NEW tag, IsSeq(tag), NEW used, IsFiniteSet(used)
    PROVE  FreeTag(tag, used) \notin used /\ IsSeq(FreeTag(tag, used))
<1>. DEFINE c == Cardinality(used)
            K == {k \in 2 .. c + 2 : Append(tag, k) \notin used}
            Ok(k) == /\ Append(tag, k) \notin used
                     /\ \A j \in 2 .. k - 1 : Append(tag, j) \in used
<1>1. c \in Nat BY FS_CardinalityType
<1>2. K # {}
  <2>1. SUFFICES ASSUME K = {} PROVE FALSE OBVIOUS
  <2>. DEFINE f == [k \in 2 .. c + 2 |-> Append(tag, k)]
  <2>2. f \in [2 .. c + 2 -> used] BY <2>1
  <2>3. IsFiniteSet(2 .. c + 2) /\ Cardinality(2 .. c + 2) = c + 1
    <3>1. 2 \in Int /\ c + 2 \in Int /\ ~(2 > c + 2) /\ (c + 2) - 2 + 1 = c + 1 BY <1>1
    <3>. HIDE DEF c
    <3>. QED BY <3>1, FS_Interval
  <2>4. c < c + 1 BY <1>1
  <2>5. PICK x, y \in 2 .. c + 2 : x # y /\ f[x] = f[y]
    <3>. HIDE DEF f
    <3>. QED BY <2>2, <2>3, <2>4, FS_PigeonHole
  <2>6. Append(tag, x) = Append(tag, y) BY <2>5
  <2>7. Append(tag, x)[Len(tag) + 1] = x /\ Append(tag, y)[Len(tag) + 1] = y BY Appended
  <2>. QED BY <2>5, <2>6, <2>7
<1>3. K \subseteq Nat BY <1>1
<1>. HIDE DEF c
<1>4. PICK m \in K : \A y \in K : m <= y BY <1>2, <1>3, Smallest
<1>5. m \in 2 .. c + 2 /\ Ok(m)
  <2>1. m \in 2 .. c + 2 /\ Append(tag, m) \notin used BY <1>4
  <2>2. ASSUME NEW j \in 2 .. m - 1 PROVE Append(tag, j) \in used
    <3>1. j \in 2 .. c + 2 /\ ~(m <= j) BY <1>1, <2>1
    <3>2. j \notin K BY <1>4, <3>1
    <3>. QED BY <3>1, <3>2
  <2>. QED BY <2>1, <2>2
<1>. DEFINE n == CHOOSE k \in 2 .. c + 2 : Ok(k)
<1>6. n \in 2 .. c + 2 /\ Ok(n) BY <1>5
<1>7. FreeTag(tag, used) = Append(tag, n) BY DEF FreeTag, c
<1>. HIDE DEF n
<1>. QED BY <1>6, <1>7, Appended

------------------------------------------------------------------------------
(* uniquify_tags *)

(* A rule, and a list of rules, of whatever tags and outbounds.            *)
IsRule(r) ==
    r \in [tag : {r.tag}, on : BOOLEAN, when : When, to : {r.to}] /\ IsSeq(r.tag)

IsRules(s) == IsSeq(s) /\ \A i \in 1 .. Len(s) : IsRule(s[i])

(* They differ in their tags at most.                                      *)
Alike(r, q) == r.on = q.on /\ r.when = q.when /\ r.to = q.to

TagsDiffer(s) == \A i, j \in 1 .. Len(s) : s[i].tag = s[j].tag => i = j

(* The first n rules have been gone through.                               *)
Unique(d, s, n) ==
    IsRules(d) /\ Len(d) = n /\ TagsDiffer(d) /\ \A i \in 1 .. n : Alike(d[i], s[i])

LEMMA RetaggedKeeps ==
    ASSUME NEW s, IsRules(s), NEW n \in Nat, n + 1 <= Len(s), NEW d, Unique(d, s, n)
    PROVE  Unique(Retagged(d, s[n + 1]), s, n + 1)
<1>. DEFINE r == s[n + 1]
            used == {d[i].tag : i \in DOMAIN d}
            q == IF r.tag \in used THEN [r EXCEPT !.tag = FreeTag(@, used)] ELSE r
            e == Append(d, q)
<1>1. Len(s) \in Nat /\ n + 1 \in 1 .. Len(s) BY DEF IsRules, IsSeq
<1>2. IsRule(r) BY <1>1 DEF IsRules
<1>3. IsSeq(d) /\ Len(d) = n /\ (\A i \in 1 .. n : IsRule(d[i])) /\ TagsDiffer(d)
      /\ \A i \in 1 .. n : Alike(d[i], s[i])
  BY DEF Unique, IsRules
<1>4. DOMAIN d = 1 .. n BY <1>3 DEF IsSeq
<1>5. IsFiniteSet(used) /\ \A i \in 1 .. n : d[i].tag \in used
  <2>. DEFINE f == [i \in 1 .. n |-> d[i].tag]
  <2>1. f \in Surjection(1 .. n, used) BY <1>4 DEF Surjection
  <2>2. IsFiniteSet(1 .. n) BY FS_Interval
  <2>. HIDE DEF f
  <2>3. IsFiniteSet(used)
    <3>. HIDE DEF used
    <3>. QED BY <2>1, <2>2, FS_Surjection
  <2>. QED BY <1>4, <2>3
<1>. HIDE DEF used
<1>6. IsRule(q) /\ Alike(q, r) /\ q.tag \notin used
  <2>1. CASE r.tag \in used
    <3>. DEFINE t == FreeTag(r.tag, used)
    <3>1. t \notin used /\ IsSeq(t) BY <1>2, <1>5, FreeTagIsFree DEF IsRule
    <3>2. q = [r EXCEPT !.tag = t] BY <2>1
    <3>. HIDE DEF t, q, r
    <3>. QED BY <1>2, <3>1, <3>2 DEF IsRule, Alike
  <2>2. CASE r.tag \notin used BY <1>2, <2>2 DEF Alike
  <2>. QED BY <2>1, <2>2
<1>7. Retagged(d, r) = e BY DEF Retagged, used
<1>. HIDE DEF q
<1>8. /\ IsSeq(e) /\ Len(e) = n + 1 /\ e[n + 1] = q
      /\ \A i \in 1 .. n : e[i] = d[i]
  BY <1>3, Appended
<1>. HIDE DEF e, r
<1>9. \A i \in 1 .. n + 1 : i \in 1 .. n \/ i = n + 1 OBVIOUS
<1>10. IsRules(e) BY <1>3, <1>6, <1>8, <1>9 DEF IsRules
<1>11. ASSUME NEW i \in 1 .. n + 1, NEW j \in 1 .. n + 1, e[i].tag = e[j].tag PROVE i = j
  <2>1. CASE i \in 1 .. n /\ j \in 1 .. n BY <1>3, <1>8, <1>11, <2>1 DEF TagsDiffer
  <2>2. CASE i = n + 1 /\ j = n + 1 BY <2>2
  <2>3. CASE i \in 1 .. n /\ j = n + 1 BY <1>5, <1>6, <1>8, <1>11, <2>3
  <2>4. CASE i = n + 1 /\ j \in 1 .. n BY <1>5, <1>6, <1>8, <1>11, <2>4
  <2>. QED BY <1>9, <2>1, <2>2, <2>3, <2>4
<1>12. \A i \in 1 .. n + 1 : Alike(e[i], s[i]) BY <1>3, <1>6, <1>8, <1>9 DEF r
<1>. QED BY <1>7, <1>8, <1>10, <1>11, <1>12 DEF Unique, TagsDiffer, r

(* The recursion of Uniquify has a solution.                               *)
LEMMA UniquifySolved ==
    ASSUME NEW s, NEW m \in Nat
    PROVE  \E f : f = [n \in 0 .. m |-> IF n = 0 THEN <<>> ELSE Retagged(f[n - 1], s[n])]
<1>. DEFINE Solves(f, k) ==
              f = [n \in 0 .. k |-> IF n = 0 THEN <<>> ELSE Retagged(f[n - 1], s[n])]
            S == {k \in Nat : \E f : Solves(f, k)}
<1>1. 0 \in S
  <2>. DEFINE f == [n \in 0 .. 0 |-> <<>>]
  <2>1. \A n \in 0 .. 0 : n = 0 OBVIOUS
  <2>2. Solves(f, 0) BY <2>1
  <2>. QED BY <2>2
<1>2. ASSUME NEW k \in Nat, k \in S PROVE k + 1 \in S
  <2>1. PICK f : Solves(f, k) BY <1>2
  <2>. DEFINE g == [n \in 0 .. k + 1 |-> IF n = k + 1 THEN Retagged(f[k], s[k + 1]) ELSE f[n]]
  <2>2. ASSUME NEW n \in 0 .. k + 1
        PROVE  g[n] = IF n = 0 THEN <<>> ELSE Retagged(g[n - 1], s[n])
    <3>1. CASE n = k + 1
      <4>1. n - 1 = k /\ k \in 0 .. k + 1 /\ k # k + 1 /\ n # 0 BY <3>1
      <4>2. g[n - 1] = f[k] /\ g[n] = Retagged(f[k], s[k + 1]) BY <3>1, <4>1
      <4>. QED BY <3>1, <4>1, <4>2
    <3>2. CASE n # k + 1 /\ n # 0
      <4>1. n \in 0 .. k /\ n - 1 \in 0 .. k + 1 /\ n - 1 # k + 1 BY <3>2
      <4>2. g[n] = f[n] /\ g[n - 1] = f[n - 1] BY <3>2, <4>1
      <4>3. f[n] = Retagged(f[n - 1], s[n]) BY <2>1, <3>2, <4>1
      <4>. QED BY <3>2, <4>2, <4>3
    <3>3. CASE n = 0
      <4>1. n \in 0 .. k /\ n # k + 1 BY <3>3
      <4>2. g[n] = f[n] /\ f[n] = <<>> BY <2>1, <3>3, <4>1
      <4>. QED BY <3>3, <4>2
    <3>. QED BY <3>1, <3>2, <3>3
  <2>3. g = [n \in 0 .. k + 1 |-> g[n]] OBVIOUS
  <2>. HIDE DEF g
  <2>4. Solves(g, k + 1) BY <2>2, <2>3
  <2>. QED BY <2>4
<1>3. m \in S
  <2>. HIDE DEF S
  <2>. QED BY <1>1, <1>2, Induction
<1>. QED BY <1>3

(* Uniquify leaves a list as it is, but for the tags: these then differ.   *)
LEMMA UniquifyIs ==
    ASSUME NEW s, IsRules(s)
    PROVE  Unique(Uniquify(s), s, Len(s))
<1>. DEFINE m == Len(s)
            Solves(f) == f = [n \in 0 .. m |-> IF n = 0 THEN <<>> ELSE Retagged(f[n - 1], s[n])]
            done == CHOOSE f : Solves(f)
<1>1. m \in Nat BY DEF IsRules, IsSeq
<1>2. Solves(done)
  <2>1. \E f : Solves(f)
    <3>. HIDE DEF m
    <3>. QED BY <1>1, UniquifySolved
  <2>. QED BY <2>1
<1>3. Uniquify(s) = done[m] BY DEF Uniquify
<1>. HIDE DEF done
<1>4. done[0] = <<>> /\ \A n \in Nat : n + 1 <= m => done[n + 1] = Retagged(done[n], s[n + 1])
  <2>1. 0 \in 0 .. m BY <1>1
  <2>2. done[0] = <<>> BY <1>2, <2>1
  <2>3. ASSUME NEW n \in Nat, n + 1 <= m PROVE done[n + 1] = Retagged(done[n], s[n + 1])
    <3>1. n + 1 \in 0 .. m /\ n + 1 # 0 /\ (n + 1) - 1 = n BY <1>1, <2>3
    <3>2. done[n + 1] = Retagged(done[(n + 1) - 1], s[n + 1]) BY <1>2, <3>1
    <3>. QED BY <3>1, <3>2
  <2>. QED BY <2>2, <2>3
<1>. HIDE DEF m
<1>. DEFINE S == {n \in Nat : n <= m => Unique(done[n], s, n)}
<1>5. 0 \in S
  <2>1. IsSeq(<<>>) /\ Len(<<>>) = 0 BY NothingIsSeq
  <2>2. Unique(<<>>, s, 0) BY <2>1 DEF Unique, IsRules, TagsDiffer
  <2>. QED BY <1>4, <2>2
<1>6. ASSUME NEW n \in Nat, n \in S PROVE n + 1 \in S
  <2>1. SUFFICES ASSUME n + 1 <= m PROVE Unique(done[n + 1], s, n + 1) OBVIOUS
  <2>2. Unique(done[n], s, n) BY <1>1, <1>6, <2>1
  <2>. QED BY <1>4, <2>1, <2>2, RetaggedKeeps DEF m
<1>7. m \in S
  <2>. HIDE DEF S
  <2>. QED BY <1>1, <1>5, <1>6, Induction
<1>. QED BY <1>1, <1>3, <1>7 DEF m

------------------------------------------------------------------------------
(* Filters *)

Taken(e, s, I, n) == IF n \in I THEN Append(e, s[n]) ELSE e

(* The recursion of KeptAt, which has a solution.                          *)
Filters(f, s, I, m) == f = [n \in 0 .. m |-> IF n = 0 THEN <<>> ELSE Taken(f[n - 1], s, I, n)]

LEMMA KeptSolved ==
    ASSUME NEW s, NEW I, NEW m \in Nat
    PROVE  \E f : Filters(f, s, I, m)
<1>. DEFINE Solves(f, k) ==
              f = [n \in 0 .. k |-> IF n = 0 THEN <<>> ELSE Taken(f[n - 1], s, I, n)]
            S == {k \in Nat : \E f : Solves(f, k)}
<1>1. 0 \in S
  <2>. DEFINE f == [n \in 0 .. 0 |-> <<>>]
  <2>1. \A n \in 0 .. 0 : n = 0 OBVIOUS
  <2>2. Solves(f, 0) BY <2>1
  <2>. QED BY <2>2
<1>2. ASSUME NEW k \in Nat, k \in S PROVE k + 1 \in S
  <2>1. PICK f : Solves(f, k) BY <1>2
  <2>. DEFINE g == [n \in 0 .. k + 1 |-> IF n = k + 1 THEN Taken(f[k], s, I, k + 1) ELSE f[n]]
  <2>2. ASSUME NEW n \in 0 .. k + 1
        PROVE  g[n] = IF n = 0 THEN <<>> ELSE Taken(g[n - 1], s, I, n)
    <3>1. CASE n = k + 1
      <4>1. n - 1 = k /\ k \in 0 .. k + 1 /\ k # k + 1 /\ n # 0 BY <3>1
      <4>2. g[n - 1] = f[k] /\ g[n] = Taken(f[k], s, I, k + 1) BY <3>1, <4>1
      <4>. QED BY <3>1, <4>1, <4>2
    <3>2. CASE n # k + 1 /\ n # 0
      <4>1. n \in 0 .. k /\ n - 1 \in 0 .. k + 1 /\ n - 1 # k + 1 BY <3>2
      <4>2. g[n] = f[n] /\ g[n - 1] = f[n - 1] BY <3>2, <4>1
      <4>3. f[n] = Taken(f[n - 1], s, I, n) BY <2>1, <3>2, <4>1
      <4>. QED BY <3>2, <4>2, <4>3
    <3>3. CASE n = 0
      <4>1. n \in 0 .. k /\ n # k + 1 BY <3>3
      <4>2. g[n] = f[n] /\ f[n] = <<>> BY <2>1, <3>3, <4>1
      <4>. QED BY <3>3, <4>2
    <3>. QED BY <3>1, <3>2, <3>3
  <2>3. g = [n \in 0 .. k + 1 |-> g[n]] OBVIOUS
  <2>. HIDE DEF g
  <2>4. Solves(g, k + 1) BY <2>2, <2>3
  <2>. QED BY <2>4
<1>3. m \in S
  <2>. HIDE DEF S
  <2>. QED BY <1>1, <1>2, Induction
<1>. QED BY <1>3 DEF Filters

(* e is what the first n of s have at places of I, which are the places p.  *)
Picks(e, s, I, n, p) ==
    /\ IsSeq(e) /\ p \in [1 .. Len(e) -> 1 .. n]
    /\ \A k, l \in 1 .. Len(e) : k < l => p[k] < p[l]
    /\ \A k \in 1 .. Len(e) : e[k] = s[p[k]] /\ p[k] \in I
    /\ \A i \in 1 .. n : i \in I => \E k \in 1 .. Len(e) : p[k] = i

LEMMA TakenPicks ==
    ASSUME NEW s, NEW I, NEW n \in Nat, NEW e, NEW p, Picks(e, s, I, n, p)
    PROVE  \E q : Picks(Taken(e, s, I, n + 1), s, I, n + 1, q)
<1>. DEFINE r == s[n + 1]
            m == Len(e)
<1>1. /\ IsSeq(e) /\ m \in Nat /\ p \in [1 .. m -> 1 .. n]
      /\ \A k, l \in 1 .. m : k < l => p[k] < p[l]
      /\ \A k \in 1 .. m : e[k] = s[p[k]] /\ p[k] \in I
      /\ \A i \in 1 .. n : i \in I => \E k \in 1 .. m : p[k] = i
  BY DEF Picks, IsSeq
<1>. HIDE DEF m
<1>2. \A i \in 1 .. n + 1 : i \in 1 .. n \/ i = n + 1 OBVIOUS
<1>3. CASE n + 1 \notin I
  <2>1. Taken(e, s, I, n + 1) = e BY <1>3 DEF Taken
  <2>2. p \in [1 .. m -> 1 .. n + 1] BY <1>1
  <2>3. \A i \in 1 .. n + 1 : i \in I => \E k \in 1 .. m : p[k] = i BY <1>1, <1>2, <1>3
  <2>4. Picks(e, s, I, n + 1, p) BY <1>1, <2>2, <2>3 DEF Picks, m
  <2>. QED BY <2>1, <2>4
<1>4. CASE n + 1 \in I
  <2>. DEFINE f == Append(e, r)
              q == [k \in 1 .. m + 1 |-> IF k = m + 1 THEN n + 1 ELSE p[k]]
  <2>1. /\ IsSeq(f) /\ Len(f) = m + 1 /\ f[m + 1] = r
        /\ \A k \in 1 .. m : f[k] = e[k]
    BY <1>1, Appended DEF m
  <2>2. \A k \in 1 .. m + 1 : k \in 1 .. m \/ k = m + 1 BY <1>1
  <2>3. q[m + 1] = n + 1 /\ \A k \in 1 .. m : k \in 1 .. m + 1 /\ q[k] = p[k] /\ p[k] \in 1 .. n
    BY <1>1
  <2>4. q \in [1 .. m + 1 -> 1 .. n + 1] BY <1>1, <2>2, <2>3
  <2>. HIDE DEF f, q
  <2>5. ASSUME NEW k \in 1 .. m + 1, NEW l \in 1 .. m + 1, k < l PROVE q[k] < q[l]
    <3>1. k \in 1 .. m /\ q[k] \in 1 .. n BY <1>1, <2>2, <2>3, <2>5
    <3>2. CASE l \in 1 .. m BY <1>1, <2>3, <2>5, <3>1, <3>2
    <3>3. CASE l = m + 1 BY <2>3, <3>1, <3>3
    <3>. QED BY <2>2, <3>2, <3>3
  <2>6. \A k \in 1 .. m + 1 : f[k] = s[q[k]] /\ q[k] \in I
    BY <1>1, <1>4, <2>1, <2>2, <2>3
  <2>7. ASSUME NEW i \in 1 .. n + 1, i \in I PROVE \E k \in 1 .. m + 1 : q[k] = i
    <3>1. CASE i \in 1 .. n
      <4>1. PICK k \in 1 .. m : p[k] = i BY <1>1, <2>7, <3>1
      <4>. QED BY <2>3, <4>1
    <3>2. CASE i = n + 1
      <4>1. m + 1 \in 1 .. m + 1 BY <1>1
      <4>. QED BY <2>3, <3>2, <4>1
    <3>. QED BY <1>2, <3>1, <3>2
  <2>8. Picks(f, s, I, n + 1, q) BY <2>1, <2>4, <2>5, <2>6, <2>7 DEF Picks
  <2>. QED BY <1>4, <2>8 DEF Taken, f
<1>. QED BY <1>3, <1>4

LEMMA KeptIs ==
    ASSUME NEW s, IsSeq(s), NEW I
    PROVE  \E p : Picks(KeptAt(s, I), s, I, Len(s), p)
<1>. DEFINE m == Len(s)
            Solves(f) == f = [n \in 0 .. m |-> IF n = 0 THEN <<>> ELSE Taken(f[n - 1], s, I, n)]
            kept == CHOOSE f : Solves(f)
<1>1. m \in Nat BY DEF IsSeq
<1>2. Solves(kept)
  <2>1. \E f : Filters(f, s, I, m)
    <3>. HIDE DEF m
    <3>. QED BY <1>1, KeptSolved
  <2>. QED BY <2>1 DEF Filters
<1>3. KeptAt(s, I) = kept[m] BY DEF KeptAt, Taken
<1>. HIDE DEF kept
<1>4. kept[0] = <<>> /\ \A n \in Nat : n + 1 <= m => kept[n + 1] = Taken(kept[n], s, I, n + 1)
  <2>1. 0 \in 0 .. m BY <1>1
  <2>2. kept[0] = <<>> BY <1>2, <2>1
  <2>3. ASSUME NEW n \in Nat, n + 1 <= m PROVE kept[n + 1] = Taken(kept[n], s, I, n + 1)
    <3>1. n + 1 \in 0 .. m /\ n + 1 # 0 /\ (n + 1) - 1 = n BY <1>1, <2>3
    <3>2. kept[n + 1] = Taken(kept[(n + 1) - 1], s, I, n + 1) BY <1>2, <3>1
    <3>. QED BY <3>1, <3>2
  <2>. QED BY <2>2, <2>3
<1>. HIDE DEF m
<1>. DEFINE S == {n \in Nat : n <= m => \E p : Picks(kept[n], s, I, n, p)}
<1>5. 0 \in S
  <2>1. IsSeq(<<>>) /\ Len(<<>>) = 0 BY NothingIsSeq
  <2>2. \A k \in 1 .. Len(<<>>) : FALSE BY <2>1
  <2>. DEFINE p == [k \in 1 .. Len(<<>>) |-> k]
  <2>3. p \in [1 .. Len(<<>>) -> 1 .. 0] BY <2>2
  <2>4. Picks(<<>>, s, I, 0, p) BY <2>1, <2>2, <2>3 DEF Picks
  <2>. QED BY <1>4, <2>4
<1>6. ASSUME NEW n \in Nat, n \in S PROVE n + 1 \in S
  <2>1. SUFFICES ASSUME n + 1 <= m PROVE \E p : Picks(kept[n + 1], s, I, n + 1, p) OBVIOUS
  <2>2. PICK p : Picks(kept[n], s, I, n, p) BY <1>1, <1>6, <2>1
  <2>3. \E q : Picks(Taken(kept[n], s, I, n + 1), s, I, n + 1, q) BY <2>2, TakenPicks
  <2>. QED BY <1>4, <2>1, <2>3
<1>7. m \in S
  <2>. HIDE DEF S
  <2>. QED BY <1>1, <1>5, <1>6, Induction
<1>. QED BY <1>1, <1>3, <1>7 DEF m

------------------------------------------------------------------------------
(* What a list of rules says of a connection *)

Speaks(s, x, i) == s[i].on /\ Matches(s[i].when, x)

Silent(s, x) == \A i \in 1 .. Len(s) : ~Speaks(s, x, i)

(* r is the first rule of s that is on and matches x.                      *)
Says(s, x, r) ==
    \E i \in 1 .. Len(s) : s[i] = r /\ Speaks(s, x, i) /\ \A j \in 1 .. i - 1 : ~Speaks(s, x, j)

LEMMA JoinedSays ==
    ASSUME NEW s, IsRules(s), NEW t, IsRules(t), NEW x
    PROVE  /\ IsRules(s \o t) /\ Len(s \o t) = Len(s) + Len(t)
           /\ \A r : Says(s, x, r) => Says(s \o t, x, r)
           /\ Silent(s, x) => \A r : Says(t, x, r) => Says(s \o t, x, r)
           /\ Silent(s, x) /\ Silent(t, x) => Silent(s \o t, x)
           /\ \A k \in 1 .. Len(s \o t) :
                \/ \E i \in 1 .. Len(s) : (s \o t)[k] = s[i]
                \/ \E i \in 1 .. Len(t) : (s \o t)[k] = t[i]
<1>. DEFINE m == Len(s)
            n == Len(t)
            u == s \o t
<1>1. /\ IsSeq(u) /\ Len(u) = m + n /\ m \in Nat /\ n \in Nat
      /\ \A i \in 1 .. m : u[i] = s[i]
      /\ \A i \in 1 .. n : u[m + i] = t[i]
  BY Joined DEF IsRules
<1>2. (\A i \in 1 .. m : IsRule(s[i])) /\ (\A i \in 1 .. n : IsRule(t[i])) BY DEF IsRules
<1>. HIDE DEF m, n, u
<1>3. \A k \in 1 .. m + n : k \in 1 .. m \/ (k - m \in 1 .. n /\ m + (k - m) = k /\ k = m + (k - m))
  BY <1>1
<1>4. \A k \in 1 .. m + n : \/ k \in 1 .. m /\ u[k] = s[k]
                            \/ k - m \in 1 .. n /\ u[k] = t[k - m]
  <2>1. TAKE k \in 1 .. m + n
  <2>2. CASE k \in 1 .. m BY <1>1, <2>2
  <2>3. CASE k - m \in 1 .. n /\ k = m + (k - m)
    <3>1. u[m + (k - m)] = t[k - m] BY <1>1, <2>3
    <3>. QED BY <2>3, <3>1
  <2>. QED BY <1>3, <2>2, <2>3
<1>5. IsRules(u) BY <1>1, <1>2, <1>4 DEF IsRules
<1>6. ASSUME NEW r, Says(s, x, r) PROVE Says(u, x, r)
  <2>1. PICK i \in 1 .. m :
          s[i] = r /\ Speaks(s, x, i) /\ \A j \in 1 .. i - 1 : ~Speaks(s, x, j)
    BY <1>6 DEF Says, m
  <2>2. i \in 1 .. m + n /\ \A j \in 1 .. i - 1 : j \in 1 .. m BY <1>1
  <2>3. u[i] = r /\ Speaks(u, x, i) /\ \A j \in 1 .. i - 1 : ~Speaks(u, x, j)
    BY <1>1, <2>1, <2>2 DEF Speaks
  <2>. QED BY <1>1, <2>2, <2>3 DEF Says
<1>7. ASSUME Silent(s, x), NEW r, Says(t, x, r) PROVE Says(u, x, r)
  <2>1. PICK i \in 1 .. n :
          t[i] = r /\ Speaks(t, x, i) /\ \A j \in 1 .. i - 1 : ~Speaks(t, x, j)
    BY <1>7 DEF Says, n
  <2>2. m + i \in 1 .. m + n /\ u[m + i] = t[i] BY <1>1
  <2>3. Speaks(u, x, m + i) BY <2>1, <2>2 DEF Speaks
  <2>4. ASSUME NEW j \in 1 .. (m + i) - 1 PROVE ~Speaks(u, x, j)
    <3>1. j \in 1 .. m + n BY <1>1
    <3>2. CASE j \in 1 .. m /\ u[j] = s[j] BY <1>7, <3>2 DEF Speaks, Silent, m
    <3>3. CASE j - m \in 1 .. n /\ u[j] = t[j - m]
      <4>1. j - m \in 1 .. i - 1 BY <1>1, <3>3
      <4>. QED BY <2>1, <3>3, <4>1 DEF Speaks
    <3>. QED BY <1>4, <3>1, <3>2, <3>3
  <2>. QED BY <1>1, <2>1, <2>2, <2>3, <2>4 DEF Says
<1>8. ASSUME Silent(s, x), Silent(t, x) PROVE Silent(u, x)
  <2>1. ASSUME NEW k \in 1 .. m + n PROVE ~Speaks(u, x, k)
    <3>1. CASE k \in 1 .. m /\ u[k] = s[k] BY <1>8, <3>1 DEF Speaks, Silent, m
    <3>2. CASE k - m \in 1 .. n /\ u[k] = t[k - m] BY <1>8, <3>2 DEF Speaks, Silent, n
    <3>. QED BY <1>4, <3>1, <3>2
  <2>. QED BY <1>1, <2>1 DEF Silent
<1>9. \A k \in 1 .. m + n : (\E i \in 1 .. m : u[k] = s[i]) \/ (\E i \in 1 .. n : u[k] = t[i])
  BY <1>4
<1>10. /\ IsRules(u) /\ Len(u) = m + n
       /\ \A r : Says(s, x, r) => Says(u, x, r)
       /\ Silent(s, x) => \A r : Says(t, x, r) => Says(u, x, r)
       /\ Silent(s, x) /\ Silent(t, x) => Silent(u, x)
       /\ \A k \in 1 .. Len(u) : (\E i \in 1 .. m : u[k] = s[i]) \/ (\E i \in 1 .. n : u[k] = t[i])
  BY <1>1, <1>5, <1>6, <1>7, <1>8, <1>9
<1>. QED BY <1>10 DEF m, n, u

LEMMA UniquifySays ==
    ASSUME NEW s, IsRules(s), NEW x
    PROVE  /\ IsRules(Uniquify(s))
           /\ \A r : Says(s, x, r) => \E q : Says(Uniquify(s), x, q) /\ Alike(q, r)
<1>. DEFINE u == Uniquify(s)
            m == Len(s)
<1>1. IsRules(u) /\ Len(u) = m /\ \A i \in 1 .. m : Alike(u[i], s[i])
  BY UniquifyIs DEF Unique
<1>2. m \in Nat BY DEF IsRules, IsSeq
<1>. HIDE DEF u
<1>3. \A i \in 1 .. m : Speaks(u, x, i) <=> Speaks(s, x, i) BY <1>1 DEF Speaks, Alike
<1>4. ASSUME NEW r, Says(s, x, r) PROVE \E q : Says(u, x, q) /\ Alike(q, r)
  <2>1. PICK i \in 1 .. m :
          s[i] = r /\ Speaks(s, x, i) /\ \A j \in 1 .. i - 1 : ~Speaks(s, x, j)
    BY <1>4 DEF Says
  <2>2. \A j \in 1 .. i - 1 : j \in 1 .. m BY <1>2
  <2>3. Says(u, x, u[i]) BY <1>1, <1>3, <2>1, <2>2 DEF Says
  <2>. QED BY <1>1, <2>1, <2>3
<1>. QED BY <1>1, <1>4 DEF u

------------------------------------------------------------------------------
(* What the core does *)

LEMMA RouteIs ==
    ASSUME NEW t, NEW n \in Nat, DOMAIN t = 1 .. n, NEW x, NEW k \in 1 .. n,
           Matches(t[k].when, x), \A l \in 1 .. k - 1 : ~Matches(t[l].when, x)
    PROVE  Route(t, x) = t[k].to
<1>. DEFINE hits == {i \in DOMAIN t : Matches(t[i].when, x)}
<1>1. k \in hits /\ hits \subseteq Nat OBVIOUS
<1>2. \A i \in hits : i \in Nat /\ i \notin 1 .. k - 1 OBVIOUS
<1>3. \A i \in hits : k <= i BY <1>2
<1>. HIDE DEF hits
<1>4. Least(hits) \in hits /\ \A i \in hits : Least(hits) <= i BY <1>1, LeastIs
<1>5. Least(hits) = k
  <2>. DEFINE w == Least(hits)
  <2>1. w \in Nat /\ w <= k /\ k <= w BY <1>1, <1>3, <1>4
  <2>. HIDE DEF w
  <2>2. w = k BY <2>1
  <2>. QED BY <2>2 DEF w
<1>6. hits # {} BY <1>1
<1>. QED BY <1>5, <1>6 DEF Route, hits

LEMMA RouteSome ==
    ASSUME NEW t, NEW n \in Nat, DOMAIN t = 1 .. n, NEW x
    PROVE  \/ Route(t, x) = FirstNode
           \/ \E i \in 1 .. n : Matches(t[i].when, x) /\ Route(t, x) = t[i].to
<1>. DEFINE hits == {i \in DOMAIN t : Matches(t[i].when, x)}
<1>1. CASE hits = {} BY <1>1 DEF Route
<1>2. CASE hits # {}
  <2>1. hits \subseteq Nat OBVIOUS
  <2>2. Least(hits) \in hits
    <3>. HIDE DEF hits
    <3>. QED BY <1>2, <2>1, LeastIs
  <2>3. Route(t, x) = t[Least(hits)].to BY <1>2 DEF Route
  <2>. QED BY <2>2, <2>3
<1>. QED BY <1>1, <1>2

(* The first rule that is on is the first of those that are on.            *)
LEMMA EnabledSays ==
    ASSUME NEW s, IsRules(s), NEW x
    PROVE  /\ IsRules(Enabled(s)) /\ \A k \in 1 .. Len(Enabled(s)) : Enabled(s)[k].on
           /\ \A k \in 1 .. Len(Enabled(s)) : \E i \in 1 .. Len(s) : Enabled(s)[k] = s[i]
           /\ \A r : Says(s, x, r) => Says(Enabled(s), x, r)
           /\ TagsDiffer(s) => TagsDiffer(Enabled(s))
<1>. DEFINE e == Enabled(s)
            m == Len(e)
            n == Len(s)
            I == {i \in DOMAIN s : s[i].on}
<1>0. IsSeq(s) /\ n \in Nat /\ DOMAIN s = 1 .. n /\ \A i \in 1 .. n : IsRule(s[i])
  BY DEF IsRules, IsSeq
<1>1. PICK p : Picks(e, s, I, n, p) BY <1>0, KeptIs DEF Enabled
<1>. HIDE DEF e
<1>2. /\ IsRules(e) /\ p \in [1 .. m -> 1 .. n] /\ m \in Nat /\ n \in Nat
      /\ \A k, l \in 1 .. m : k < l => p[k] < p[l]
      /\ \A k \in 1 .. m : e[k] = s[p[k]] /\ s[p[k]].on
      /\ \A i \in 1 .. n : s[i].on => \E k \in 1 .. m : p[k] = i
  <2>1. /\ IsSeq(e) /\ p \in [1 .. m -> 1 .. n] /\ m \in Nat
        /\ \A k, l \in 1 .. m : k < l => p[k] < p[l]
        /\ \A k \in 1 .. m : e[k] = s[p[k]] /\ p[k] \in I
        /\ \A i \in 1 .. n : i \in I => \E k \in 1 .. m : p[k] = i
    BY <1>1 DEF Picks, IsSeq
  <2>2. \A i \in 1 .. n : i \in I <=> s[i].on BY <1>0
  <2>3. IsRules(e) BY <1>0, <2>1 DEF IsRules
  <2>. HIDE DEF I, m, n
  <2>. QED BY <1>0, <2>1, <2>2, <2>3
<1>. HIDE DEF m, n
<1>3. \A k \in 1 .. m : p[k] \in 1 .. n /\ (Speaks(e, x, k) <=> Speaks(s, x, p[k]))
  BY <1>2 DEF Speaks
<1>4. ASSUME NEW r, Says(s, x, r) PROVE Says(e, x, r)
  <2>1. PICK i \in 1 .. n :
          s[i] = r /\ Speaks(s, x, i) /\ \A j \in 1 .. i - 1 : ~Speaks(s, x, j)
    BY <1>4 DEF Says, n
  <2>2. PICK k \in 1 .. m : p[k] = i BY <1>2, <2>1 DEF Speaks
  <2>3. e[k] = r /\ Speaks(e, x, k) BY <1>2, <1>3, <2>1, <2>2
  <2>4. ASSUME NEW l \in 1 .. k - 1 PROVE ~Speaks(e, x, l)
    <3>1. l \in 1 .. m /\ l < k BY <1>2
    <3>2. p[l] < p[k] /\ p[l] \in 1 .. n BY <1>2, <3>1
    <3>3. p[l] \in 1 .. i - 1 BY <1>2, <2>2, <3>2
    <3>. QED BY <1>3, <2>1, <3>1, <3>3
  <2>. QED BY <2>3, <2>4 DEF Says, m
<1>5. ASSUME TagsDiffer(s) PROVE TagsDiffer(e)
  <2>1. ASSUME NEW k \in 1 .. m, NEW l \in 1 .. m, e[k].tag = e[l].tag PROVE k = l
    <3>1. p[k] \in 1 .. n /\ p[l] \in 1 .. n /\ s[p[k]].tag = s[p[l]].tag BY <1>2, <2>1
    <3>2. p[k] = p[l] BY <1>5, <3>1 DEF TagsDiffer, n
    <3>3. ~(k < l) /\ ~(l < k) BY <1>2, <3>1, <3>2
    <3>. QED BY <1>2, <3>3
  <2>. QED BY <2>1 DEF TagsDiffer, m
<1>6. \A k \in 1 .. m : e[k].on /\ \E i \in 1 .. n : e[k] = s[i] BY <1>2
<1>. QED BY <1>2, <1>4, <1>5, <1>6 DEF e, m, n

------------------------------------------------------------------------------
(* What is generated from a list of rules *)

LEMMA MadeRules ==
    ASSUME NEW n \in Nat, NEW s, s = [i \in 1 .. n |-> s[i]], \A i \in 1 .. n : IsRule(s[i])
    PROVE  IsRules(s) /\ Len(s) = n
  BY ListIsSeq DEF IsRules

LEMMA Redirected ==
    ASSUME NEW r, IsRule(r), NEW to
    PROVE  /\ IsRule([r EXCEPT !.to = to]) /\ [r EXCEPT !.to = to].to = to
           /\ [r EXCEPT !.to = to].tag = r.tag /\ [r EXCEPT !.to = to].on = r.on
           /\ [r EXCEPT !.to = to].when = r.when
  BY DEF IsRule

(* Where a rule sends what it matches.                                     *)
Target(r, node) ==
    IF r.to = "block" /\ r.when.net = {"udp"} THEN "block-silent" ELSE Outbound(r.to, node)

LEMMA CompileIs ==
    ASSUME NEW s, IsRules(s), NEW node
    PROVE  /\ IsRules(Compile(s, node)) /\ Len(Compile(s, node)) = Len(Enabled(s))
           /\ \A k \in 1 .. Len(Enabled(s)) :
                /\ Compile(s, node)[k].to = Target(Enabled(s)[k], node)
                /\ Compile(s, node)[k].when = Enabled(s)[k].when
                /\ Compile(s, node)[k].on = Enabled(s)[k].on
<1>. DEFINE e == Enabled(s)
            n == Len(e)
            c == Compile(s, node)
<1>1. IsRules(e) BY EnabledSays
<1>. HIDE DEF e
<1>2. n \in Nat /\ DOMAIN e = 1 .. n /\ \A k \in 1 .. n : IsRule(e[k]) BY <1>1 DEF IsRules, IsSeq
<1>3. c = [i \in DOMAIN e |-> [e[i] EXCEPT !.to = IF @ = "block" /\ e[i].when.net = {"udp"}
                                                  THEN "block-silent" ELSE Outbound(@, node)]]
  BY DEF Compile, e
<1>. HIDE DEF c, n
<1>4. ASSUME NEW k \in 1 .. n
      PROVE  /\ IsRule(c[k]) /\ c[k].to = Target(e[k], node)
             /\ c[k].when = e[k].when /\ c[k].on = e[k].on
  <2>1. c[k] = [e[k] EXCEPT !.to = IF @ = "block" /\ e[k].when.net = {"udp"}
                                   THEN "block-silent" ELSE Outbound(@, node)]
    BY <1>2, <1>3
  <2>. DEFINE r == e[k]
              w == Target(e[k], node)
  <2>2. c[k] = [r EXCEPT !.to = w] BY <2>1 DEF Target
  <2>3. IsRule(r) BY <1>2
  <2>. HIDE DEF r, w
  <2>4. /\ IsRule([r EXCEPT !.to = w]) /\ [r EXCEPT !.to = w].to = w
        /\ [r EXCEPT !.to = w].when = r.when /\ [r EXCEPT !.to = w].on = r.on
    BY <2>3, Redirected
  <2>5. IsRule(c[k]) /\ c[k].to = w /\ c[k].when = r.when /\ c[k].on = r.on BY <2>2, <2>4
  <2>. QED BY <2>5 DEF r, w
<1>5. c = [k \in 1 .. n |-> c[k]] BY <1>2, <1>3
<1>6. IsRules(c) /\ Len(c) = n BY <1>2, <1>4, <1>5, MadeRules
<1>. QED BY <1>4, <1>6 DEF e, n, c

LEMMA ToApiRulesAre ==
    ASSUME NEW s, IsRules(s), NEW node
    PROVE  /\ IsRules(ToApiRules(s, node)) /\ Len(ToApiRules(s, node)) = Len(Enabled(s))
           /\ \A k \in 1 .. Len(Enabled(s)) :
                /\ ToApiRules(s, node)[k].to = Outbound(Enabled(s)[k].to, node)
                /\ ToApiRules(s, node)[k].when = Enabled(s)[k].when
                /\ ToApiRules(s, node)[k].tag = Enabled(s)[k].tag
<1>. DEFINE e == Enabled(s)
            n == Len(e)
            c == ToApiRules(s, node)
<1>1. IsRules(e) BY EnabledSays
<1>. HIDE DEF e
<1>2. n \in Nat /\ DOMAIN e = 1 .. n /\ \A k \in 1 .. n : IsRule(e[k]) BY <1>1 DEF IsRules, IsSeq
<1>3. c = [i \in DOMAIN e |-> [e[i] EXCEPT !.to = Outbound(@, node)]] BY DEF ToApiRules, e
<1>. HIDE DEF c, n
<1>4. ASSUME NEW k \in 1 .. n
      PROVE  /\ IsRule(c[k]) /\ c[k].to = Outbound(e[k].to, node)
             /\ c[k].when = e[k].when /\ c[k].tag = e[k].tag
  <2>1. c[k] = [e[k] EXCEPT !.to = Outbound(@, node)] BY <1>2, <1>3
  <2>. DEFINE r == e[k]
              w == Outbound(r.to, node)
  <2>2. c[k] = [r EXCEPT !.to = w] BY <2>1
  <2>3. IsRule(r) BY <1>2
  <2>. HIDE DEF r, w
  <2>4. /\ IsRule([r EXCEPT !.to = w]) /\ [r EXCEPT !.to = w].to = w
        /\ [r EXCEPT !.to = w].when = r.when /\ [r EXCEPT !.to = w].tag = r.tag
    BY <2>3, Redirected
  <2>5. IsRule(c[k]) /\ c[k].to = w /\ c[k].when = r.when /\ c[k].tag = r.tag BY <2>2, <2>4
  <2>. QED BY <2>5 DEF r, w
<1>5. c = [k \in 1 .. n |-> c[k]] BY <1>2, <1>3
<1>6. IsRules(c) /\ Len(c) = n BY <1>2, <1>4, <1>5, MadeRules
<1>. QED BY <1>4, <1>6 DEF e, n, c

LEMMA AlwaysIs == Always \in When
  BY DEF Always, When

LEMMA OneRule ==
    ASSUME NEW name, NEW when \in When, NEW to
    PROVE  /\ IsRule(Rule(name, when, to)) /\ Rule(name, when, to).tag = <<name>>
           /\ Rule(name, when, to).on /\ Rule(name, when, to).when = when
           /\ Rule(name, when, to).to = to
<1>1. IsSeq(<<name>>)
  <2>1. <<name>> \in Seq({name}) OBVIOUS
  <2>. QED BY <2>1, FromSeq
<1>. QED BY <1>1 DEF Rule, IsRule

LEMMA SingleRule ==
    ASSUME NEW r, IsRule(r)
    PROVE  IsRules(<<r>>) /\ Len(<<r>>) = 1 /\ <<r>>[1] = r
<1>1. <<r>> \in Seq({r}) /\ Len(<<r>>) = 1 /\ <<r>>[1] = r OBVIOUS
<1>2. IsSeq(<<r>>) BY <1>1, FromSeq
<1>3. \A i \in 1 .. 1 : i = 1 OBVIOUS
<1>. QED BY <1>1, <1>2, <1>3 DEF IsRules

LEMMA TwoRules ==
    ASSUME NEW r, IsRule(r), NEW q, IsRule(q)
    PROVE  IsRules(<<r, q>>) /\ Len(<<r, q>>) = 2 /\ <<r, q>>[1] = r /\ <<r, q>>[2] = q
<1>1. <<r, q>> \in Seq({r, q}) /\ Len(<<r, q>>) = 2 /\ <<r, q>>[1] = r /\ <<r, q>>[2] = q OBVIOUS
<1>2. IsSeq(<<r, q>>) BY <1>1, FromSeq
<1>3. \A i \in 1 .. 2 : i = 1 \/ i = 2 OBVIOUS
<1>. QED BY <1>1, <1>2, <1>3 DEF IsRules

(* The table before its tags are made unique.                              *)
LEMMA GeneratedIs ==
    ASSUME NEW s, IsRules(s), NEW node
    PROVE  LET raw == <<Internal(node).hijack, Internal(node).api>>
                        \o Compile(s, node) \o <<Internal(node).fallback>>
               n   == Len(Compile(s, node))
           IN  /\ IsRules(raw) /\ Len(raw) = n + 3 /\ n \in Nat
               /\ raw[1] = Internal(node).hijack /\ raw[2] = Internal(node).api
               /\ \A k \in 1 .. n : raw[k + 2] = Compile(s, node)[k]
               /\ raw[n + 3] = Internal(node).fallback
               /\ Uniquify(raw) = BuildRouting(s, node)
<1>. DEFINE h == Internal(node).hijack
            a == Internal(node).api
            f == Internal(node).fallback
            c == Compile(s, node)
            n == Len(c)
            two == <<h, a>> \o c
            raw == two \o <<f>>
<1>1. IsRule(h) /\ IsRule(a) /\ IsRule(f)
  <2>1. [Always EXCEPT !.dns = {TRUE}] \in When /\ [Always EXCEPT !.entry = {"api"}] \in When
    BY DEF Always, When, Entry
  <2>. QED BY <2>1, AlwaysIs, OneRule DEF Internal
<1>2. IsRules(c) /\ n \in Nat BY CompileIs DEF IsRules, IsSeq
<1>3. Uniquify(raw) = BuildRouting(s, node) BY DEF BuildRouting
<1>. HIDE DEF h, a, f, c
<1>4. /\ IsRules(<<h, a>>) /\ Len(<<h, a>>) = 2 /\ <<h, a>>[1] = h /\ <<h, a>>[2] = a
      /\ IsRules(<<f>>) /\ Len(<<f>>) = 1 /\ <<f>>[1] = f
  BY <1>1, TwoRules, SingleRule
<1>5. /\ IsRules(two) /\ Len(two) = 2 + n
      /\ two[1] = h /\ two[2] = a /\ \A k \in 1 .. n : two[2 + k] = c[k]
  <2>1. 1 \in 1 .. 2 /\ 2 \in 1 .. 2 OBVIOUS
  <2>2. IsRules(two) BY <1>2, <1>4, JoinedSays
  <2>. DEFINE ha == <<h, a>>
  <2>3. IsSeq(ha) /\ IsSeq(c) /\ Len(ha) = 2 BY <1>2, <1>4 DEF IsRules
  <2>. HIDE DEF ha
  <2>4. /\ Len(ha \o c) = Len(ha) + Len(c)
        /\ \A i \in 1 .. Len(ha) : (ha \o c)[i] = ha[i]
        /\ \A k \in 1 .. Len(c) : (ha \o c)[Len(ha) + k] = c[k]
    <3>. HIDE DEF n, two, raw
    <3>1. IsSeq(ha) BY <2>3
    <3>2. IsSeq(c) BY <2>3
    <3>3. ASSUME NEW q, IsSeq(q) PROVE Len(ha \o q) = Len(ha) + Len(q) BY <3>1, <3>3, Joined
    <3>4. ASSUME NEW q, IsSeq(q), NEW i \in 1 .. Len(ha) PROVE (ha \o q)[i] = ha[i] BY <3>1, <3>4, Joined
    <3>5. ASSUME NEW q, IsSeq(q), NEW k \in 1 .. Len(q) PROVE (ha \o q)[Len(ha) + k] = q[k] BY <3>1, <3>5, Joined
    <3>. QED BY <3>2, <3>3, <3>4, <3>5
  <2>5. /\ Len(ha \o c) = 2 + n /\ (\A i \in 1 .. 2 : (ha \o c)[i] = ha[i])
        /\ \A k \in 1 .. n : (ha \o c)[2 + k] = c[k]
    BY <2>3, <2>4
  <2>. QED BY <1>4, <2>1, <2>2, <2>5 DEF ha
<1>. HIDE DEF two
<1>6. /\ Len(raw) = (2 + n) + 1 /\ (\A i \in 1 .. 2 + n : raw[i] = two[i])
      /\ \A i \in 1 .. 1 : raw[(2 + n) + i] = <<f>>[i]
  <2>. DEFINE last == <<f>>
  <2>1. IsSeq(last) /\ IsSeq(two) /\ Len(last) = 1 /\ Len(two) = 2 + n
    BY <1>4, <1>5 DEF IsRules
  <2>. HIDE DEF last
  <2>2. /\ Len(two \o last) = Len(two) + Len(last)
        /\ \A i \in 1 .. Len(two) : (two \o last)[i] = two[i]
        /\ \A i \in 1 .. Len(last) : (two \o last)[Len(two) + i] = last[i]
    <3>. HIDE DEF n, raw
    <3>1. IsSeq(two) BY <2>1
    <3>2. IsSeq(last) BY <2>1
    <3>3. ASSUME NEW q, IsSeq(q) PROVE Len(two \o q) = Len(two) + Len(q) BY <3>1, <3>3, Joined
    <3>4. ASSUME NEW q, IsSeq(q), NEW i \in 1 .. Len(two) PROVE (two \o q)[i] = two[i]
      BY <3>1, <3>4, Joined
    <3>5. ASSUME NEW q, IsSeq(q), NEW i \in 1 .. Len(q) PROVE (two \o q)[Len(two) + i] = q[i]
      BY <3>1, <3>5, Joined
    <3>. QED BY <3>2, <3>3, <3>4, <3>5
  <2>3. /\ Len(two \o last) = (2 + n) + 1
        /\ \A i \in 1 .. 2 + n : (two \o last)[i] = two[i]
        /\ \A i \in 1 .. 1 : (two \o last)[(2 + n) + i] = last[i]
    BY <2>1, <2>2
  <2>. QED BY <2>3 DEF last
<1>7. IsRules(raw) BY <1>4, <1>5, JoinedSays
<1>. HIDE DEF raw, n
<1>8. Len(raw) = n + 3 /\ raw[1] = h /\ raw[2] = a /\ raw[n + 3] = f
  <2>1. 1 \in 1 .. 2 + n /\ 2 \in 1 .. 2 + n /\ 1 \in 1 .. 1 /\ (2 + n) + 1 = n + 3 BY <1>2
  <2>. QED BY <1>4, <1>5, <1>6, <2>1
<1>9. ASSUME NEW k \in 1 .. n PROVE raw[k + 2] = c[k]
  <2>1. 2 + k \in 1 .. 2 + n /\ k + 2 = 2 + k BY <1>2
  <2>. QED BY <1>5, <1>6, <2>1
<1>. QED BY <1>2, <1>3, <1>7, <1>8, <1>9 DEF raw, n, two, h, a, f, c

------------------------------------------------------------------------------
(* The table the core is given *)

OwnsTags(t) == \A i, j \in DOMAIN t : t[i].tag = t[j].tag => i = j

(* The table the core is started with, rule by rule, n of them the app's.   *)
Built(t, e, n, node) ==
    /\ n \in Nat /\ DOMAIN t = 1 .. n + 3 /\ OwnsTags(t)
    /\ t[1].when = [Always EXCEPT !.dns = {TRUE}] /\ t[1].to = "dns-out"
    /\ t[2].when = [Always EXCEPT !.entry = {"api"}] /\ t[2].to = "api"
    /\ \A k \in 1 .. n : t[k + 2].when = e[k].when /\ t[k + 2].to = Target(e[k], node)
    /\ t[n + 3].when = Always /\ t[n + 3].to = node

LEMMA BuiltIs ==
    ASSUME NEW s, IsRules(s), NEW node
    PROVE  Built(BuildRouting(s, node), Enabled(s), Len(Enabled(s)), node)
<1>. DEFINE t == BuildRouting(s, node)
            e == Enabled(s)
            n == Len(Enabled(s))
            c == Compile(s, node)
            raw == <<Internal(node).hijack, Internal(node).api>> \o c \o <<Internal(node).fallback>>
<1>1. /\ Len(c) = n /\ n \in Nat
      /\ \A k \in 1 .. n : c[k].to = Target(e[k], node) /\ c[k].when = e[k].when
  <2>1. Len(c) = n /\ \A k \in 1 .. n : c[k].to = Target(e[k], node) /\ c[k].when = e[k].when
    BY CompileIs
  <2>2. IsRules(e) BY EnabledSays
  <2>. QED BY <2>1, <2>2 DEF IsRules, IsSeq
<1>2. /\ IsRules(raw) /\ Len(raw) = Len(c) + 3
      /\ raw[1] = Internal(node).hijack /\ raw[2] = Internal(node).api
      /\ \A k \in 1 .. Len(c) : raw[k + 2] = c[k]
      /\ raw[Len(c) + 3] = Internal(node).fallback
      /\ Uniquify(raw) = t
  BY GeneratedIs
<1>. HIDE DEF raw, t, c, e, n
<1>3. /\ raw[1] = Internal(node).hijack /\ raw[2] = Internal(node).api
      /\ raw[n + 3] = Internal(node).fallback
      /\ \A k \in 1 .. n : raw[k + 2] = c[k]
  BY <1>1, <1>2
<1>4. /\ IsRules(t) /\ Len(t) = n + 3 /\ TagsDiffer(t)
      /\ \A i \in 1 .. n + 3 : t[i].when = raw[i].when /\ t[i].to = raw[i].to
  <2>1. Unique(t, raw, Len(raw)) BY <1>2, UniquifyIs
  <2>. QED BY <1>1, <1>2, <2>1 DEF Unique, Alike
<1>5. DOMAIN t = 1 .. n + 3 BY <1>4 DEF IsRules, IsSeq
<1>6. OwnsTags(t) BY <1>4, <1>5 DEF OwnsTags, TagsDiffer
<1>7. /\ raw[1].when = [Always EXCEPT !.dns = {TRUE}] /\ raw[1].to = "dns-out"
      /\ raw[2].when = [Always EXCEPT !.entry = {"api"}] /\ raw[2].to = "api"
      /\ raw[n + 3].when = Always /\ raw[n + 3].to = node
  <2>1. /\ Internal(node).hijack.when = [Always EXCEPT !.dns = {TRUE}]
        /\ Internal(node).hijack.to = "dns-out"
        /\ Internal(node).api.when = [Always EXCEPT !.entry = {"api"}]
        /\ Internal(node).api.to = "api"
        /\ Internal(node).fallback.when = Always /\ Internal(node).fallback.to = node
    BY DEF Internal, Rule
  <2>. QED BY <1>3, <2>1
<1>8. 1 \in 1 .. n + 3 /\ 2 \in 1 .. n + 3 /\ n + 3 \in 1 .. n + 3
  BY <1>1
<1>9. ASSUME NEW k \in 1 .. n
      PROVE  t[k + 2].when = e[k].when /\ t[k + 2].to = Target(e[k], node)
  <2>1. k + 2 \in 1 .. n + 3 BY <1>1
  <2>2. t[k + 2].when = raw[k + 2].when /\ t[k + 2].to = raw[k + 2].to BY <1>4, <2>1
  <2>3. raw[k + 2] = c[k] BY <1>3
  <2>. QED BY <1>1, <2>2, <2>3
<1>10. /\ t[1].when = raw[1].when /\ t[1].to = raw[1].to
       /\ t[2].when = raw[2].when /\ t[2].to = raw[2].to
       /\ t[n + 3].when = raw[n + 3].when /\ t[n + 3].to = raw[n + 3].to
  BY <1>4, <1>8
<1>11. Built(t, e, n, node)
  BY <1>1, <1>5, <1>6, <1>7, <1>9, <1>10 DEF Built
<1>. QED BY <1>11 DEF t, e, n

(* The rules of the app decide of what enters by neither the DNS port nor  *)
(* the interface of the core.                                              *)
LEMMA StartedRoute ==
    ASSUME NEW s, IsRules(s), NEW node, NEW x \in Connection, ~x.dns, x.entry # "api"
    PROVE  \A r : Says(s, x, r) => Route(BuildRouting(s, node), x) = Target(r, node)
<1>. DEFINE t == BuildRouting(s, node)
            e == Enabled(s)
            n == Len(Enabled(s))
<1>1. Built(t, e, n, node) BY BuiltIs
<1>. HIDE DEF t, n, e
<1>2. /\ n \in Nat /\ DOMAIN t = 1 .. n + 3
      /\ \A k \in 1 .. n : t[k + 2].when = e[k].when /\ t[k + 2].to = Target(e[k], node)
      /\ t[n + 3].when = Always /\ t[n + 3].to = node
  BY <1>1 DEF Built
<1>3. ~Matches(t[1].when, x) /\ ~Matches(t[2].when, x)
  <2>1. [Always EXCEPT !.dns = {TRUE}].dns = {TRUE} /\ [Always EXCEPT !.entry = {"api"}].entry = {"api"}
    BY DEF Always
  <2>2. t[1].when.dns = {TRUE} /\ t[2].when.entry = {"api"} BY <1>1, <2>1 DEF Built
  <2>3. x.dns \notin {TRUE} /\ x.entry \notin {"api"} OBVIOUS
  <2>. QED BY <2>2, <2>3 DEF Matches
<1>4. ASSUME NEW r, Says(s, x, r) PROVE Route(t, x) = Target(r, node)
  <2>1. Says(e, x, r) BY <1>4, EnabledSays DEF e
  <2>2. PICK k \in 1 .. n :
          e[k] = r /\ Speaks(e, x, k) /\ \A j \in 1 .. k - 1 : ~Speaks(e, x, j)
    BY <2>1 DEF Says, n, e
  <2>3. \A j \in 1 .. n : e[j].on BY EnabledSays DEF e, n
  <2>4. k + 2 \in 1 .. n + 3 /\ Matches(t[k + 2].when, x) /\ t[k + 2].to = Target(r, node)
    BY <1>2, <2>2 DEF Speaks
  <2>5. ASSUME NEW l \in 1 .. (k + 2) - 1 PROVE ~Matches(t[l].when, x)
    <3>1. CASE l = 1 \/ l = 2 BY <1>3, <3>1
    <3>2. CASE l > 2
      <4>1. l - 2 \in 1 .. k - 1 /\ l - 2 \in 1 .. n /\ (l - 2) + 2 = l BY <1>2, <3>2
      <4>2. ~Matches(e[l - 2].when, x) BY <2>2, <2>3, <4>1 DEF Speaks
      <4>3. t[(l - 2) + 2].when = e[l - 2].when BY <1>2, <4>1
      <4>. QED BY <4>1, <4>2, <4>3
    <3>. QED BY <1>2, <3>1, <3>2
  <2>6. n + 3 \in Nat BY <1>2
  <2>. QED BY <1>2, <2>4, <2>5, <2>6, RouteIs
<1>. QED BY <1>4 DEF t

LEMMA PushedRoute ==
    ASSUME NEW s, IsRules(s), NEW node, NEW x
    PROVE  /\ \A r : Says(s, x, r) => Route(ToApiRules(s, node), x) = Outbound(r.to, node)
           /\ TagsDiffer(s) => OwnsTags(ToApiRules(s, node))
<1>. DEFINE t == ToApiRules(s, node)
            e == Enabled(s)
            n == Len(Enabled(s))
<1>1. /\ IsRules(t) /\ Len(t) = n
      /\ \A k \in 1 .. n : /\ t[k].to = Outbound(e[k].to, node)
                           /\ t[k].when = e[k].when /\ t[k].tag = e[k].tag
  BY ToApiRulesAre
<1>2. n \in Nat /\ DOMAIN t = 1 .. n BY <1>1 DEF IsRules, IsSeq
<1>. HIDE DEF t, n
<1>3. ASSUME NEW r, Says(s, x, r) PROVE Route(t, x) = Outbound(r.to, node)
  <2>1. Says(e, x, r) BY <1>3, EnabledSays
  <2>2. PICK k \in 1 .. n :
          e[k] = r /\ Speaks(e, x, k) /\ \A j \in 1 .. k - 1 : ~Speaks(e, x, j)
    BY <2>1 DEF Says, n
  <2>3. \A j \in 1 .. n : e[j].on BY EnabledSays DEF n
  <2>. HIDE DEF e
  <2>4. Matches(t[k].when, x) /\ t[k].to = Outbound(r.to, node) BY <1>1, <2>2 DEF Speaks
  <2>5. ASSUME NEW l \in 1 .. k - 1 PROVE ~Matches(t[l].when, x)
    <3>1. l \in 1 .. n BY <1>2
    <3>. QED BY <1>1, <2>2, <2>3, <3>1 DEF Speaks
  <2>. QED BY <1>2, <2>4, <2>5, RouteIs
<1>4. ASSUME TagsDiffer(s) PROVE OwnsTags(t)
  <2>1. TagsDiffer(e) BY <1>4, EnabledSays
  <2>. QED BY <1>1, <1>2, <2>1 DEF OwnsTags, TagsDiffer, n
<1>. QED BY <1>3, <1>4 DEF t

(* A table is asked of as its rules are.                                   *)
LEMMA TableSays ==
    ASSUME NEW s, IsRules(s), NEW node, NEW x \in Connection, FromApp(x), NEW r, Says(s, x, r),
           NEW t, t = ToApiRules(s, node) \/ t = BuildRouting(s, node)
    PROVE  \/ Route(t, x) = Outbound(r.to, node)
           \/ r.to = "block" /\ r.when.net = {"udp"} /\ Route(t, x) = "block-silent"
<1>1. ~x.dns /\ x.entry # "api" BY DEF FromApp, Apps
<1>2. CASE t = ToApiRules(s, node) BY <1>2, PushedRoute
<1>3. CASE t = BuildRouting(s, node)
  <2>1. Route(t, x) = Target(r, node) BY <1>1, <1>3, StartedRoute
  <2>. QED BY <2>1 DEF Target
<1>. QED BY <1>2, <1>3

------------------------------------------------------------------------------
(* The bands *)

(* A rule of s speaks of x: then one of them does so first.                *)
LEMMA FirstSays ==
    ASSUME NEW s, IsRules(s), NEW x, NEW i \in 1 .. Len(s), Speaks(s, x, i)
    PROVE  \E k \in 1 .. Len(s) : Says(s, x, s[k]) /\ Speaks(s, x, k)
<1>. DEFINE S == {k \in 1 .. Len(s) : Speaks(s, x, k)}
<1>1. Len(s) \in Nat BY DEF IsRules, IsSeq
<1>2. S \subseteq Nat /\ S # {} OBVIOUS
<1>3. PICK k \in S : \A l \in S : k <= l
  <2>. HIDE DEF S
  <2>. QED BY <1>2, Smallest
<1>4. ASSUME NEW j \in 1 .. k - 1 PROVE ~Speaks(s, x, j)
  <2>1. j \in 1 .. Len(s) /\ ~(k <= j) BY <1>1
  <2>. QED BY <1>3, <2>1
<1>. QED BY <1>4 DEF Says

LEMMA HostsListed ==
    ASSUME NEW S, IsFiniteSet(S)
    PROVE  /\ SetToSeq(S) \in [1 .. Cardinality(S) -> S] /\ Cardinality(S) \in Nat
           /\ \A h \in S : \E i \in 1 .. Cardinality(S) : SetToSeq(S)[i] = h
<1>. DEFINE n == Cardinality(S)
            l == SetToSeq(S)
            ns == 1 .. n
<1>1. n \in Nat /\ ExistsBijection(ns, S) BY FS_CardinalityType
<1>. HIDE DEF n
<1>2. \E f \in [ns -> S] : IsInjective(f)
  BY <1>1 DEF ExistsBijection, Bijection, Injection
<1>3. l \in [ns -> S] /\ IsInjective(l) BY <1>2 DEF SetToSeq, n
<1>. HIDE DEF l
<1>4. l \in Injection(ns, S) BY <1>3 DEF Injection
<1>5. Cardinality(ns) = n
  <2>. HIDE DEF ns
  <2>. QED BY <1>1, FS_CountingElements, FS_Interval DEF ns
<1>6. l \in Surjection(ns, S)
  <2>. HIDE DEF ns
  <2>. QED BY <1>4, <1>5, FS_Injection DEF n
<1>. QED BY <1>1, <1>3, <1>6 DEF Surjection, l, n

(* A band has a rule for each host of a set and speaks of no other.        *)
Band(b, S, to) ==
    /\ IsRules(b)
    /\ \A k \in 1 .. Len(b) : \E h \in S : b[k].when = Full(h) /\ b[k].to = to[h] /\ b[k].on
    /\ \A h \in S : \E k \in 1 .. Len(b) : b[k].when = Full(h)

LEMMA FullIs ==
    ASSUME NEW h \in Name
    PROVE  /\ Full(h) \in When /\ Full(h).net # {"udp"}
           /\ \A x \in Connection : Matches(Full(h), x) => x.host = h
           /\ \A x \in Connection : FromApp(x) /\ x.host = h => Matches(Full(h), x)
<1>1. Full(h) = [entry |-> Apps, host |-> {h}, ip |-> Ip, net |-> Net, dns |-> BOOLEAN]
  <2>1. Full(h) = [[Always EXCEPT !.host = {h}] EXCEPT !.entry = Apps] BY DEF Full
  <2>2. [Always EXCEPT !.host = {h}] = [entry |-> Entry, host |-> {h}, ip |-> Ip, net |-> Net, dns |-> BOOLEAN]
    BY DEF Always
  <2>. QED BY <2>1, <2>2
<1>2. Apps \in SUBSET Entry /\ {h} \in SUBSET (Name \cup {NoName}) BY DEF Apps, Entry
<1>3. Net # {"udp"} BY DEF Net
<1>. QED BY <1>1, <1>2, <1>3, ConnectionAssumption DEF Matches, FromApp, When

LEMMA BandSays ==
    ASSUME NEW b, NEW S, S \subseteq Name, NEW to, Band(b, S, to), NEW x \in Connection
    PROVE  /\ FromApp(x) /\ x.host \in S =>
                \E r : Says(b, x, r) /\ r.to = to[x.host] /\ r.when.net # {"udp"}
           /\ x.host \notin S => Silent(b, x)
<1>1. IsRules(b) BY DEF Band
<1>2. ASSUME NEW k \in 1 .. Len(b), Speaks(b, x, k)
      PROVE  x.host \in S /\ b[k].to = to[x.host] /\ b[k].when.net # {"udp"}
  <2>1. PICK h \in S : b[k].when = Full(h) /\ b[k].to = to[h] BY DEF Band
  <2>2. Matches(Full(h), x) BY <1>2, <2>1 DEF Speaks
  <2>3. x.host = h /\ Full(h).net # {"udp"} BY <2>2, FullIs
  <2>. QED BY <2>1, <2>3
<1>3. ASSUME FromApp(x), x.host \in S
      PROVE  \E r : Says(b, x, r) /\ r.to = to[x.host] /\ r.when.net # {"udp"}
  <2>1. PICK k \in 1 .. Len(b) : b[k].when = Full(x.host) BY <1>3 DEF Band
  <2>2. Matches(Full(x.host), x) BY <1>3, FullIs
  <2>3. b[k].on BY DEF Band
  <2>4. Speaks(b, x, k) BY <2>1, <2>2, <2>3 DEF Speaks
  <2>5. PICK l \in 1 .. Len(b) : Says(b, x, b[l]) /\ Speaks(b, x, l) BY <1>1, <2>4, FirstSays
  <2>. QED BY <1>2, <2>5
<1>4. x.host \notin S => Silent(b, x) BY <1>2 DEF Silent
<1>. QED BY <1>3, <1>4

LEMMA HostRule ==
    ASSUME NEW name, NEW h \in Name, NEW to
    PROVE  LET r == [Rule(name, Full(h), to) EXCEPT !.tag = Append(@, h)]
           IN  IsRule(r) /\ r.when = Full(h) /\ r.to = to /\ r.on
<1>. DEFINE q == Rule(name, Full(h), to)
            t == Append(q.tag, h)
            r == [q EXCEPT !.tag = t]
<1>1. /\ IsRule(q) /\ q.tag = <<name>> /\ q.on /\ q.when = Full(h) /\ q.to = to
  BY FullIs, OneRule
<1>2. IsSeq(t) BY <1>1, Appended DEF IsRule
<1>. HIDE DEF q, t
<1>3. IsRule(r) /\ r.when = Full(h) /\ r.to = to /\ r.on BY <1>1, <1>2 DEF IsRule
<1>. QED BY <1>3 DEF r, t, q

LEMMA BandIs ==
    ASSUME NEW S, S \subseteq Name, IsFiniteSet(S), NEW to, NEW name, NEW b,
           b = [i \in DOMAIN SetToSeq(S) |->
                  [Rule(name, Full(SetToSeq(S)[i]), to[SetToSeq(S)[i]])
                     EXCEPT !.tag = Append(@, SetToSeq(S)[i])]]
    PROVE  Band(b, S, to)
<1>. DEFINE l == SetToSeq(S)
            n == Cardinality(S)
<1>1. l \in [1 .. n -> S] /\ n \in Nat /\ \A h \in S : \E i \in 1 .. n : l[i] = h BY HostsListed
<1>. HIDE DEF l, n
<1>2. b = [i \in DOMAIN l |-> [Rule(name, Full(l[i]), to[l[i]]) EXCEPT !.tag = Append(@, l[i])]]
  BY DEF l
<1>3. ASSUME NEW i \in 1 .. n
      PROVE  /\ l[i] \in S /\ IsRule(b[i])
             /\ b[i].when = Full(l[i]) /\ b[i].to = to[l[i]] /\ b[i].on
  <2>1. l[i] \in S /\ l[i] \in Name BY <1>1
  <2>. DEFINE h == l[i]
              w == to[h]
              r == [Rule(name, Full(h), w) EXCEPT !.tag = Append(@, h)]
  <2>2. b[i] = r BY <1>1, <1>2
  <2>. HIDE DEF h, w
  <2>3. h \in Name BY <2>1 DEF h
  <2>4. IsRule(r) /\ r.when = Full(h) /\ r.to = w /\ r.on BY <2>3, HostRule
  <2>. HIDE DEF r
  <2>5. IsRule(b[i]) /\ b[i].when = Full(h) /\ b[i].to = w /\ b[i].on BY <2>2, <2>4
  <2>. QED BY <2>1, <2>5 DEF h, w
<1>4. b = [i \in 1 .. n |-> b[i]] BY <1>1, <1>2
<1>5. IsRules(b) /\ Len(b) = n BY <1>1, <1>3, <1>4, MadeRules
<1>6. \A k \in 1 .. n : \E h \in S : b[k].when = Full(h) /\ b[k].to = to[h] /\ b[k].on BY <1>3
<1>7. ASSUME NEW h \in S PROVE \E k \in 1 .. n : b[k].when = Full(h)
  <2>1. PICK k \in 1 .. n : l[k] = h BY <1>1
  <2>. QED BY <1>3, <2>1
<1>. QED BY <1>5, <1>6, <1>7 DEF Band

------------------------------------------------------------------------------
(* merge_rules_with_intent *)

(* A rule that steers into MITM is there because MITM is on, and is for    *)
(* what comes from apps.                                                   *)
SteersApps(r, m) == r.to = "mitm-out" => m # "off" /\ r.when.entry \subseteq Apps

Steered(s, m) == \A i \in 1 .. Len(s) : SteersApps(s[i], m)

LEMMA SomeRules ==
    ASSUME NEW P, \A r \in P : IsRule(r), NEW s \in Seq(P)
    PROVE  IsRules(s) /\ \A i \in 1 .. Len(s) : s[i] \in P
<1>1. IsSeq(s) /\ DOMAIN s = 1 .. Len(s) BY FromSeq
<1>2. \A i \in 1 .. Len(s) : s[i] \in P BY <1>1
<1>. QED BY <1>1, <1>2 DEF IsRules

LEMMA NamedIs ==
    ASSUME NEW l
    PROVE  Named(l) \in When /\ [Named(l) EXCEPT !.ip = {"private"}] \in When
<1>1. \E S \in SUBSET Name : Named(l) = [Always EXCEPT !.host = S] BY DEF Named
<1>. QED BY <1>1 DEF Always, When, Ip

LEMMA PresetIs ==
    ASSUME NEW p
    PROVE  \E P : Preset(p) \in Seq(P) /\ \A r \in P : IsRule(r) /\ r.on /\ r.to # "mitm-out"
<1>1. ASSUME NEW name, NEW when \in When, NEW to, to # "mitm-out"
      PROVE  LET r == Rule(name, when, to) IN IsRule(r) /\ r.on /\ r.to # "mitm-out"
  BY <1>1, OneRule
<1>2. At("cn") \in When /\ At("private") \in When BY DEF At, Always, When, Ip
<1>3. CASE p = "bypass"
  <2>. DEFINE a == Rule("preset-private", [Named("private") EXCEPT !.ip = {"private"}], "direct")
              b == Rule("preset-ads", Named("ads"), "block")
              c == Rule("preset-proxy-google", Named("google"), "selected")
              d == Rule("preset-cn-domain", Named("cn"), "direct")
              e == Rule("preset-cn-ip", At("cn"), "direct")
              P == {a, b, c, d, e}
  <2>1. Preset(p) = <<a, b, c, d, e>> BY <1>3 DEF Preset
  <2>2. /\ IsRule(a) /\ a.on /\ a.to # "mitm-out"
        /\ IsRule(b) /\ b.on /\ b.to # "mitm-out"
        /\ IsRule(c) /\ c.on /\ c.to # "mitm-out"
        /\ IsRule(d) /\ d.on /\ d.to # "mitm-out"
        /\ IsRule(e) /\ e.on /\ e.to # "mitm-out"
    BY <1>1, <1>2, NamedIs
  <2>. HIDE DEF a, b, c, d, e
  <2>3. <<a, b, c, d, e>> \in Seq(P) OBVIOUS
  <2>4. \A r \in P : IsRule(r) /\ r.on /\ r.to # "mitm-out" BY <2>2
  <2>5. Preset(p) \in Seq(P) BY <2>1, <2>3
  <2>. HIDE DEF P
  <2>. QED BY <2>4, <2>5
<1>4. CASE p = "whitelist"
  <2>. DEFINE a == Rule("preset-private", At("private"), "direct")
              b == Rule("preset-proxy-list", Named("foreign"), "selected")
              c == Rule("preset-fallback-direct", Always, "direct")
              P == {a, b, c}
  <2>1. Preset(p) = <<a, b, c>> BY <1>4 DEF Preset
  <2>2. /\ IsRule(a) /\ a.on /\ a.to # "mitm-out"
        /\ IsRule(b) /\ b.on /\ b.to # "mitm-out"
        /\ IsRule(c) /\ c.on /\ c.to # "mitm-out"
    BY <1>1, <1>2, NamedIs, AlwaysIs
  <2>. HIDE DEF a, b, c
  <2>3. <<a, b, c>> \in Seq(P) OBVIOUS
  <2>4. \A r \in P : IsRule(r) /\ r.on /\ r.to # "mitm-out" BY <2>2
  <2>5. Preset(p) \in Seq(P) BY <2>1, <2>3
  <2>. HIDE DEF P
  <2>. QED BY <2>4, <2>5
<1>5. CASE p = "direct"
  <2>. DEFINE a == Rule("preset-direct-all", Always, "direct")
              P == {a}
  <2>1. Preset(p) = <<a>> BY <1>5 DEF Preset
  <2>2. IsRule(a) /\ a.on /\ a.to # "mitm-out" BY <1>1, AlwaysIs
  <2>. HIDE DEF a
  <2>3. <<a>> \in Seq(P) OBVIOUS
  <2>4. \A r \in P : IsRule(r) /\ r.on /\ r.to # "mitm-out" BY <2>2
  <2>5. Preset(p) \in Seq(P) BY <2>1, <2>3
  <2>. HIDE DEF P
  <2>. QED BY <2>4, <2>5
<1>6. CASE p \notin {"bypass", "whitelist", "direct"}
  <2>1. Preset(p) = <<>> BY <1>6 DEF Preset
  <2>2. <<>> \in Seq({}) OBVIOUS
  <2>. QED BY <2>1, <2>2
<1>. QED BY <1>3, <1>4, <1>5, <1>6

LEMMA SteerBandIs ==
    ASSUME NEW m
    PROVE  IsRules(SteerBand(m)) /\ Steered(SteerBand(m), m)
<1>. DEFINE steered == [Always EXCEPT !.host = Optin, !.entry = Apps]
            quic    == [steered EXCEPT !.entry = {"tun"}, !.net = {"udp"}]
            a == Rule("mitm-steer", steered, "mitm-out")
            b == Rule("mitm-quic-fallback", quic, "block")
            P == {a, b}
<1>1. CASE m = "off"
  <2>1. SteerBand(m) = <<>> BY <1>1 DEF SteerBand
  <2>2. IsSeq(SteerBand(m)) /\ Len(SteerBand(m)) = 0 BY <2>1, NothingIsSeq
  <2>3. \A i \in 1 .. 0 : FALSE OBVIOUS
  <2>. QED BY <2>2, <2>3 DEF IsRules, Steered
<1>2. CASE m # "off"
  <2>1. steered \in When /\ steered.entry = Apps /\ quic \in When
    <3>1. steered = [entry |-> Apps, host |-> Optin, ip |-> Ip, net |-> Net, dns |-> BOOLEAN]
      <4>. DEFINE g == [Always EXCEPT !.host = Optin]
      <4>1. g = [entry |-> Entry, host |-> Optin, ip |-> Ip, net |-> Net, dns |-> BOOLEAN]
        BY DEF Always
      <4>2. steered = [g EXCEPT !.entry = Apps] OBVIOUS
      <4>. HIDE DEF g, steered
      <4>. QED BY <4>1, <4>2
    <3>2. Apps \in SUBSET Entry /\ Optin \in SUBSET (Name \cup {NoName})
          /\ {"tun"} \in SUBSET Entry /\ {"udp"} \in SUBSET Net
      BY NameAssumption DEF Apps, Entry, Net
    <3>3. quic = [[steered EXCEPT !.entry = {"tun"}] EXCEPT !.net = {"udp"}] OBVIOUS
    <3>. HIDE DEF steered, quic
    <3>4. quic = [entry |-> {"tun"}, host |-> Optin, ip |-> Ip, net |-> {"udp"}, dns |-> BOOLEAN]
      BY <3>1, <3>3
    <3>. QED BY <3>1, <3>2, <3>4 DEF When
  <2>2. SteerBand(m) = <<a>> \o (IF m = "quic" THEN <<b>> ELSE <<>>) BY <1>2 DEF SteerBand
  <2>. HIDE DEF steered, quic
  <2>3. /\ IsRule(a) /\ a.to = "mitm-out" /\ a.when.entry = Apps
        /\ IsRule(b) /\ b.to = "block"
    BY <2>1, OneRule
  <2>. HIDE DEF a, b
  <2>4. (<<a>> \o (IF m = "quic" THEN <<b>> ELSE <<>>)) \in Seq(P)
    <3>1. <<a>> \in Seq(P) /\ <<b>> \in Seq(P) /\ <<>> \in Seq(P) OBVIOUS
    <3>. HIDE DEF P
    <3>2. ASSUME NEW q \in Seq(P) PROVE (<<a>> \o q) \in Seq(P) BY <3>1
    <3>. QED BY <3>1, <3>2
  <2>5. SteerBand(m) \in Seq(P) BY <2>2, <2>4
  <2>6. (\A r \in P : IsRule(r)) /\ \A r \in P : SteersApps(r, m) BY <1>2, <2>3 DEF SteersApps
  <2>7. IsRules(SteerBand(m)) /\ \A i \in 1 .. Len(SteerBand(m)) : SteerBand(m)[i] \in P
    <3>. HIDE DEF P
    <3>. QED BY <2>5, <2>6, SomeRules
  <2>. QED BY <2>6, <2>7 DEF Steered
<1>. QED BY <1>1, <1>2

Split(s) ==
    IF Preset(s.preset) # <<>> /\ Preset(s.preset)[1].tag = <<"preset-private">> THEN 1 ELSE 0

PresetHead(s) == SubSeq(Preset(s.preset), 1, Split(s))

PresetTail(s) == SubSeq(Preset(s.preset), Split(s) + 1, Len(Preset(s.preset)))

(* What comes before the user's rules, and what after.                     *)
Before(s, allow) == PresetHead(s) \o AllowBand(allow)

ByUser(s, allow) == Before(s, allow) \o s.custom

Guessed(s, allow, block) == ByUser(s, allow) \o BlockBand(block)

Raw(s, allow, block) == Guessed(s, allow, block) \o SteerBand(s.mitm) \o PresetTail(s)

HostSet(S) == S \subseteq Name /\ IsFiniteSet(S)

LEMMA PresetParts ==
    ASSUME NEW s
    PROVE  /\ IsRules(PresetHead(s)) /\ Steered(PresetHead(s), s.mitm)
           /\ IsRules(PresetTail(s)) /\ Steered(PresetTail(s), s.mitm)
           /\ \A x : ~Private(s, x) => Silent(PresetHead(s), x)
<1>. DEFINE p == Preset(s.preset)
            n == Len(p)
            k == Split(s)
            h == PresetHead(s)
            t == PresetTail(s)
<1>1. PICK P : p \in Seq(P) /\ \A r \in P : IsRule(r) /\ r.on /\ r.to # "mitm-out" BY PresetIs
<1>2. n \in Nat /\ IsSeq(p) /\ \A i \in 1 .. n : p[i] \in P
  <2>. HIDE DEF p
  <2>1. \A r \in P : IsRule(r) BY <1>1
  <2>2. n \in Nat BY <1>1, FromSeq DEF IsSeq
  <2>. QED BY <1>1, <2>1, <2>2, SomeRules, FromSeq
<1>3. k \in {0, 1} /\ (k = 1 => n >= 1)
  <2>1. n = 0 => p = <<>>
    <3>. HIDE DEF p
    <3>. QED BY <1>1
  <2>. QED BY <1>2, <2>1 DEF Split
<1>. HIDE DEF k
<1>4. /\ h \in Seq(P) /\ Len(h) = k /\ \A i \in 1 .. k : h[i] = p[i]
  <2>1. h = SubSeq(p, 1, k) BY DEF PresetHead, k
  <2>2. \A i \in 1 .. k : p[i] \in P BY <1>2, <1>3
  <2>. HIDE DEF p, h
  <2>3. 1 \in Int /\ k \in Int BY <1>3
  <2>4. /\ SubSeq(p, 1, k) \in Seq(P)
        /\ Len(SubSeq(p, 1, k)) = IF 1 <= k THEN k - 1 + 1 ELSE 0
        /\ \A i \in 1 .. k - 1 + 1 : SubSeq(p, 1, k)[i] = p[1 + i - 1]
    BY <2>2, <2>3, SubSeqProperties
  <2>. QED BY <1>3, <2>1, <2>4
<1>5. t \in Seq(P)
  <2>1. t = SubSeq(p, k + 1, n) BY DEF PresetTail, k
  <2>. HIDE DEF p, t, n
  <2>2. \A i \in k + 1 .. n : p[i] \in P BY <1>2, <1>3
  <2>3. k + 1 \in Int /\ n \in Int BY <1>2, <1>3
  <2>4. SubSeq(p, k + 1, n) \in Seq(P) BY <2>2, <2>3, SubSeqProperties
  <2>. QED BY <2>1, <2>4
<1>6. ASSUME NEW q \in Seq(P) PROVE IsRules(q) /\ Steered(q, s.mitm)
  <2>1. IsRules(q) /\ \A i \in 1 .. Len(q) : q[i] \in P BY <1>1, SomeRules
  <2>. QED BY <1>1, <2>1 DEF Steered, SteersApps
<1>7. ASSUME NEW x, ~Private(s, x) PROVE Silent(h, x)
  <2>1. CASE k = 0
    <3>1. \A i \in 1 .. Len(h) : FALSE
      <4>. HIDE DEF h
      <4>. QED BY <1>4, <2>1
    <3>. QED BY <3>1 DEF Silent
  <2>2. CASE k = 1
    <3>1. p # <<>> /\ p[1].tag = <<"preset-private">> BY <2>2 DEF k, Split
    <3>2. ~Matches(p[1].when, x) BY <1>7, <3>1 DEF Private
    <3>. HIDE DEF h, p
    <3>3. Len(h) = 1 /\ h[1] = p[1] /\ \A i \in 1 .. 1 : i = 1 BY <1>4, <2>2
    <3>. QED BY <3>2, <3>3 DEF Silent, Speaks
  <2>. QED BY <1>3, <2>1, <2>2
<1>. HIDE DEF h, t
<1>8. IsRules(h) /\ Steered(h, s.mitm) /\ IsRules(t) /\ Steered(t, s.mitm) BY <1>4, <1>5, <1>6
<1>. QED BY <1>7, <1>8 DEF h, t

LEMMA AllowBandIs ==
    ASSUME NEW allow, HostSet(DOMAIN allow)
    PROVE  Band(AllowBand(allow), DOMAIN allow, allow)
<1>. DEFINE S == DOMAIN allow
            b == AllowBand(allow)
<1>1. b = [i \in DOMAIN SetToSeq(S) |->
             [Rule("intent-allow", Full(SetToSeq(S)[i]), allow[SetToSeq(S)[i]])
                EXCEPT !.tag = Append(@, SetToSeq(S)[i])]]
  BY DEF AllowBand
<1>2. S \subseteq Name /\ IsFiniteSet(S) BY DEF HostSet
<1>. HIDE DEF b, S
<1>3. Band(b, S, allow) BY <1>1, <1>2, BandIs
<1>. QED BY <1>3 DEF b, S

Blocked(block) == [h \in block |-> "block"]

LEMMA BlockBandIs ==
    ASSUME NEW block, HostSet(block)
    PROVE  Band(BlockBand(block), block, Blocked(block))
<1>. DEFINE b  == BlockBand(block)
            l  == SetToSeq(block)
            to == Blocked(block)
<1>1. b = [i \in DOMAIN l |->
             [Rule("intent-block", Full(l[i]), "block") EXCEPT !.tag = Append(@, l[i])]]
  BY DEF BlockBand
<1>2. block \subseteq Name /\ IsFiniteSet(block) BY DEF HostSet
<1>3. \A i \in DOMAIN l : to[l[i]] = "block"
  <2>1. l \in [1 .. Cardinality(block) -> block] BY <1>2, HostsListed
  <2>. HIDE DEF l
  <2>. QED BY <2>1 DEF Blocked
<1>. HIDE DEF b, l, to
<1>4. b = [i \in DOMAIN l |->
             [Rule("intent-block", Full(l[i]), to[l[i]]) EXCEPT !.tag = Append(@, l[i])]]
  BY <1>1, <1>3
<1>5. Band(b, block, to) BY <1>2, <1>4, BandIs DEF l
<1>. QED BY <1>5 DEF b, to

LEMMA BandSteers ==
    ASSUME NEW b, NEW S, NEW to, Band(b, S, to), \A h \in S : to[h] # "mitm-out", NEW m
    PROVE  Steered(b, m)
  BY DEF Band, Steered, SteersApps

LEMMA JoinedSteers ==
    ASSUME NEW s, IsRules(s), NEW t, IsRules(t), NEW m, Steered(s, m), Steered(t, m)
    PROVE  Steered(s \o t, m)
<1>. DEFINE u == s \o t
<1>1. \A k \in 1 .. Len(u) : (\E i \in 1 .. Len(s) : u[k] = s[i]) \/ (\E i \in 1 .. Len(t) : u[k] = t[i])
  BY JoinedSays
<1>. HIDE DEF u
<1>2. Steered(u, m) BY <1>1 DEF Steered
<1>. QED BY <1>2 DEF u

GoodAllow(allow) == HostSet(DOMAIN allow) /\ \A h \in DOMAIN allow : allow[h] \in {"direct", "selected"}

(* What a table is generated from.                                         *)
Sound(s, allow, block) ==
    /\ IsRules(s.custom) /\ Steered(s.custom, s.mitm) /\ GoodAllow(allow) /\ HostSet(block)

LEMMA MergeIs ==
    ASSUME NEW s, NEW allow, NEW block
    PROVE  Merge(s, allow, block) = Uniquify(Raw(s, allow, block))
  BY DEF Merge, Raw, Guessed, ByUser, Before, PresetHead, PresetTail, Split

(* The bands of a table, each after those before it.                       *)
LEMMA RawIs ==
    ASSUME NEW s, NEW allow, NEW block, Sound(s, allow, block)
    PROVE  /\ IsRules(Before(s, allow)) /\ IsRules(ByUser(s, allow))
           /\ IsRules(Guessed(s, allow, block)) /\ IsRules(Raw(s, allow, block))
           /\ Steered(Raw(s, allow, block), s.mitm)
<1>. DEFINE h == PresetHead(s)
            a == AllowBand(allow)
            b == BlockBand(block)
            v == SteerBand(s.mitm)
            t == PresetTail(s)
            c == s.custom
            m == s.mitm
<1>1. IsRules(h) /\ Steered(h, m) /\ IsRules(t) /\ Steered(t, m) BY PresetParts
<1>2. IsRules(a) /\ Steered(a, m)
  <2>1. Band(a, DOMAIN allow, allow) BY AllowBandIs DEF Sound, GoodAllow
  <2>2. \A g \in DOMAIN allow : allow[g] # "mitm-out" BY DEF Sound, GoodAllow
  <2>. QED BY <2>1, <2>2, BandSteers DEF Band
<1>3. IsRules(b) /\ Steered(b, m)
  <2>1. Band(b, block, Blocked(block)) BY BlockBandIs DEF Sound
  <2>2. \A g \in block : Blocked(block)[g] # "mitm-out" BY DEF Blocked
  <2>. QED BY <2>1, <2>2, BandSteers DEF Band
<1>4. IsRules(v) /\ Steered(v, m) BY SteerBandIs
<1>5. IsRules(c) /\ Steered(c, m) BY DEF Sound
<1>. HIDE DEF h, a, b, v, t, c, m
<1>6. ASSUME NEW p, IsRules(p), Steered(p, m), NEW q, IsRules(q), Steered(q, m)
      PROVE  IsRules(p \o q) /\ Steered(p \o q, m)
  BY <1>6, JoinedSays, JoinedSteers
<1>. DEFINE u1 == h \o a
            u2 == u1 \o c
            u3 == u2 \o b
            u4 == u3 \o v
            u5 == u4 \o t
<1>7. IsRules(u1) /\ Steered(u1, m) BY <1>1, <1>2, <1>6
<1>8. IsRules(u2) /\ Steered(u2, m)
  <2>. HIDE DEF u1
  <2>. QED BY <1>5, <1>6, <1>7
<1>9. IsRules(u3) /\ Steered(u3, m)
  <2>. HIDE DEF u2
  <2>. QED BY <1>3, <1>6, <1>8
<1>10. IsRules(u4) /\ Steered(u4, m)
  <2>. HIDE DEF u3
  <2>. QED BY <1>4, <1>6, <1>9
<1>11. IsRules(u5) /\ Steered(u5, m)
  <2>. HIDE DEF u4
  <2>. QED BY <1>1, <1>6, <1>10
<1>12. Before(s, allow) = u1 BY DEF Before, h, a
<1>13. ByUser(s, allow) = u2 BY <1>12 DEF ByUser, c
<1>14. Guessed(s, allow, block) = u3 BY <1>13 DEF Guessed, b
<1>15. Raw(s, allow, block) = u5 BY <1>14 DEF Raw, v, t
<1>. HIDE DEF u1, u2, u3, u4, u5
<1>. QED BY <1>7, <1>8, <1>9, <1>11, <1>12, <1>13, <1>14, <1>15 DEF m

(* What the bands up to the verdicts say is what the table says.           *)
LEMMA GuessedSays ==
    ASSUME NEW s, NEW allow, NEW block, Sound(s, allow, block), NEW x,
           NEW r, Says(Guessed(s, allow, block), x, r)
    PROVE  \E q : Says(Merge(s, allow, block), x, q) /\ Alike(q, r)
<1>. DEFINE g == Guessed(s, allow, block)
            v == SteerBand(s.mitm)
            t == PresetTail(s)
            w == g \o v
            u == w \o t
<1>1. IsRules(g) /\ IsRules(u) /\ u = Raw(s, allow, block) BY RawIs DEF Raw
<1>2. IsRules(v) /\ IsRules(t) BY SteerBandIs, PresetParts
<1>3. Says(g, x, r) OBVIOUS
<1>. HIDE DEF g, v, t
<1>4. IsRules(w) /\ Says(w, x, r) BY <1>1, <1>2, <1>3, JoinedSays
<1>. HIDE DEF w
<1>5. Says(u, x, r) BY <1>2, <1>4, JoinedSays
<1>. HIDE DEF u
<1>6. \E q : Says(Uniquify(u), x, q) /\ Alike(q, r) BY <1>1, <1>5, UniquifySays
<1>. QED BY <1>1, <1>6, MergeIs

LEMMA CorrectedSays ==
    ASSUME NEW s, NEW allow, NEW block, Sound(s, allow, block),
           NEW x \in Connection, FromApp(x), ~Private(s, x), x.host \in DOMAIN allow
    PROVE  \E q : Says(Merge(s, allow, block), x, q) /\ q.to = allow[x.host]
<1>. DEFINE h == PresetHead(s)
            a == AllowBand(allow)
            b == BlockBand(block)
            c == s.custom
            u1 == h \o a
            u2 == u1 \o c
            u3 == u2 \o b
<1>1. Band(a, DOMAIN allow, allow) /\ DOMAIN allow \subseteq Name
  BY AllowBandIs DEF Sound, GoodAllow, HostSet
<1>2. PICK r : Says(a, x, r) /\ r.to = allow[x.host] BY <1>1, BandSays
<1>3. IsRules(h) /\ Silent(h, x) BY PresetParts
<1>4. IsRules(a) /\ IsRules(b) /\ IsRules(c)
  BY <1>1, BlockBandIs DEF Sound, Band
<1>5. IsRules(u1) /\ IsRules(u2) BY RawIs DEF Before, ByUser
<1>6. Guessed(s, allow, block) = u3 BY DEF Guessed, ByUser, Before
<1>. HIDE DEF h, a, b, c
<1>7. Says(u1, x, r) BY <1>2, <1>3, <1>4, JoinedSays
<1>. HIDE DEF u1
<1>8. Says(u2, x, r) BY <1>4, <1>5, <1>7, JoinedSays
<1>. HIDE DEF u2
<1>9. Says(u3, x, r) BY <1>4, <1>5, <1>8, JoinedSays
<1>. HIDE DEF u3
<1>10. \E q : Says(Merge(s, allow, block), x, q) /\ Alike(q, r) BY <1>6, <1>9, GuessedSays
<1>. QED BY <1>2, <1>10 DEF Alike

LEMMA UserSays ==
    ASSUME NEW s, NEW allow, NEW block, Sound(s, allow, block),
           NEW x \in Connection, FromApp(x), ~Private(s, x), x.host \notin DOMAIN allow
    PROVE  /\ \A r : Says(s.custom, x, r) =>
                \E q : Says(Merge(s, allow, block), x, q) /\ q.to = r.to
           /\ Silent(s.custom, x) /\ x.host \in block =>
                \E q : /\ Says(Merge(s, allow, block), x, q)
                       /\ q.to = "block" /\ q.when.net # {"udp"}
<1>. DEFINE h == PresetHead(s)
            a == AllowBand(allow)
            b == BlockBand(block)
            c == s.custom
            u1 == h \o a
            u2 == u1 \o c
            u3 == u2 \o b
<1>1. Band(a, DOMAIN allow, allow) /\ DOMAIN allow \subseteq Name
      /\ Band(b, block, Blocked(block)) /\ block \subseteq Name
  BY AllowBandIs, BlockBandIs DEF Sound, GoodAllow, HostSet
<1>2. IsRules(a) /\ Silent(a, x) BY <1>1, BandSays DEF Band
<1>3. IsRules(h) /\ Silent(h, x) BY PresetParts
<1>4. IsRules(b) /\ IsRules(c) BY <1>1 DEF Sound, Band
<1>5. IsRules(u1) /\ IsRules(u2) BY RawIs DEF Before, ByUser
<1>6. Guessed(s, allow, block) = u3 BY DEF Guessed, ByUser, Before
<1>7. ASSUME x.host \in block
      PROVE  \E r : Says(b, x, r) /\ r.to = "block" /\ r.when.net # {"udp"}
  <2>1. PICK r : Says(b, x, r) /\ r.to = Blocked(block)[x.host] /\ r.when.net # {"udp"}
    BY <1>1, <1>7, BandSays
  <2>. QED BY <1>7, <2>1 DEF Blocked
<1>. HIDE DEF h, a, b, c
<1>8. Silent(u1, x) BY <1>2, <1>3, JoinedSays
<1>. HIDE DEF u1
<1>9. ASSUME NEW r, Says(c, x, r)
      PROVE  \E q : Says(Merge(s, allow, block), x, q) /\ q.to = r.to
  <2>1. Says(u2, x, r) BY <1>4, <1>5, <1>8, <1>9, JoinedSays
  <2>2. Says(u3, x, r)
    <3>. HIDE DEF u2
    <3>. QED BY <1>4, <1>5, <2>1, JoinedSays
  <2>. HIDE DEF u3
  <2>3. \E q : Says(Merge(s, allow, block), x, q) /\ Alike(q, r) BY <1>6, <2>2, GuessedSays
  <2>. QED BY <2>3 DEF Alike
<1>10. ASSUME Silent(c, x), x.host \in block
       PROVE  \E q : /\ Says(Merge(s, allow, block), x, q)
                     /\ q.to = "block" /\ q.when.net # {"udp"}
  <2>1. PICK r : Says(b, x, r) /\ r.to = "block" /\ r.when.net # {"udp"} BY <1>7, <1>10
  <2>2. Silent(u2, x) BY <1>4, <1>5, <1>8, <1>10, JoinedSays
  <2>3. Says(u3, x, r)
    <3>. HIDE DEF u2
    <3>. QED BY <1>4, <1>5, <2>1, <2>2, JoinedSays
  <2>. HIDE DEF u3
  <2>4. \E q : Says(Merge(s, allow, block), x, q) /\ Alike(q, r) BY <1>6, <2>3, GuessedSays
  <2>. QED BY <2>1, <2>4 DEF Alike
<1>. QED BY <1>9, <1>10 DEF c

LEMMA MergeKeeps ==
    ASSUME NEW s, NEW allow, NEW block, Sound(s, allow, block)
    PROVE  LET m == Merge(s, allow, block)
           IN  IsRules(m) /\ TagsDiffer(m) /\ Steered(m, s.mitm)
<1>. DEFINE raw == Raw(s, allow, block)
            m == Merge(s, allow, block)
<1>1. IsRules(raw) /\ Steered(raw, s.mitm) BY RawIs
<1>2. Unique(m, raw, Len(raw)) BY <1>1, MergeIs, UniquifyIs
<1>. HIDE DEF raw, m
<1>3. IsRules(m) /\ TagsDiffer(m) BY <1>2 DEF Unique
<1>4. Steered(m, s.mitm) BY <1>1, <1>2 DEF Unique, Alike, Steered, SteersApps
<1>. QED BY <1>3, <1>4 DEF m

------------------------------------------------------------------------------
(* Whatever is changed meanwhile, what the core is given is settings of    *)
(* the app and hosts.                                                      *)

GoodSettings(s) ==
    /\ s \in [preset : {s.preset}, custom : {s.custom}, mitm : {s.mitm},
              selected : {s.selected}, allow : {s.allow}]
    /\ s.selected \in Node /\ GoodAllow(s.allow)
    /\ IsRules(s.custom) /\ \A i \in 1 .. Len(s.custom) : s.custom[i].to # "mitm-out"

GoodIntent == intent \in [mode : {intent.mode}, block : {intent.block}] /\ HostSet(intent.block)

GoodCore(c) == GoodSettings(c.settings) /\ GoodAllow(c.allow) /\ HostSet(c.block) /\ c.node \in Node

GoodStart(j) ==
    GoodSettings(j.settings) /\ \A r \in j.handed : GoodAllow(r.allow) /\ HostSet(r.block)

TablesInv ==
    /\ GoodSettings(settings) /\ GoodIntent
    /\ \A c \in core : GoodCore(c)
    /\ \A p \in push : GoodCore(p)
    /\ \A j \in start : GoodStart(j)

LEMMA FewerHosts ==
    ASSUME NEW S, HostSet(S), NEW h
    PROVE  /\ HostSet(S \ {h}) /\ (h \in Name => HostSet(S \cup {h}))
           /\ \A T : HostSet(S \ T)
  BY FS_AddElement, FS_RemoveElement, FS_Subset DEF HostSet

LEMMA GoodProfile == ASSUME NEW s \in Profile PROVE GoodSettings(s)
<1>1. /\ s \in [preset : {"bypass", "whitelist", "direct", "global"}, custom : {s.custom},
                mitm : {"off", "on", "quic"}, selected : Node, allow : {s.allow}]
      /\ IsSeq(s.custom) /\ \A i \in DOMAIN s.custom : Written(s.custom[i])
      /\ DOMAIN s.allow \subseteq Name /\ IsFiniteSet(DOMAIN s.allow)
      /\ s.allow \in [DOMAIN s.allow -> {"direct", "selected"}]
  BY ProfileAssumption
<1>2. GoodAllow(s.allow) BY <1>1 DEF GoodAllow, HostSet
<1>3. ASSUME NEW i \in 1 .. Len(s.custom)
      PROVE  IsRule(s.custom[i]) /\ s.custom[i].to # "mitm-out"
  <2>. DEFINE r == s.custom[i]
  <2>1. Written(r) BY <1>1 DEF IsSeq
  <2>. HIDE DEF r
  <2>2. IsRule(r) /\ r.to # "mitm-out" BY <2>1, NodeAssumption DEF Written, IsRule
  <2>. QED BY <2>2 DEF r
<1>4. /\ s \in [preset : {s.preset}, custom : {s.custom}, mitm : {s.mitm},
                selected : {s.selected}, allow : {s.allow}]
      /\ s.selected \in Node
  BY <1>1
<1>. QED BY <1>1, <1>2, <1>3, <1>4 DEF GoodSettings, IsRules

LEMMA GoodExcept ==
    ASSUME NEW s, GoodSettings(s), NEW v
    PROVE  /\ GoodSettings([s EXCEPT !.mitm = v])
           /\ v \in Node => \A m : GoodSettings([s EXCEPT !.selected = v, !.mitm = m])
           /\ GoodAllow(v) => GoodSettings([s EXCEPT !.allow = v])
<1>1. s = [preset |-> s.preset, custom |-> s.custom, mitm |-> s.mitm,
           selected |-> s.selected, allow |-> s.allow]
  BY DEF GoodSettings
<1>2. /\ s.selected \in Node /\ GoodAllow(s.allow) /\ IsRules(s.custom)
      /\ \A i \in 1 .. Len(s.custom) : s.custom[i].to # "mitm-out"
  BY DEF GoodSettings
<1>3. ASSUME NEW m, NEW n \in Node, NEW a, GoodAllow(a)
      PROVE  GoodSettings([preset |-> s.preset, custom |-> s.custom, mitm |-> m,
                           selected |-> n, allow |-> a])
  BY <1>2, <1>3 DEF GoodSettings
<1>4. [s EXCEPT !.mitm = v] = [preset |-> s.preset, custom |-> s.custom, mitm |-> v,
                               selected |-> s.selected, allow |-> s.allow]
  BY <1>1
<1>5. ASSUME NEW m
      PROVE  [s EXCEPT !.selected = v, !.mitm = m]
                = [preset |-> s.preset, custom |-> s.custom, mitm |-> m,
                   selected |-> v, allow |-> s.allow]
  <2>. DEFINE q == [s EXCEPT !.selected = v]
  <2>1. q = [preset |-> s.preset, custom |-> s.custom, mitm |-> s.mitm,
             selected |-> v, allow |-> s.allow]
    BY <1>1
  <2>2. [s EXCEPT !.selected = v, !.mitm = m] = [q EXCEPT !.mitm = m] OBVIOUS
  <2>. HIDE DEF q
  <2>3. [q EXCEPT !.mitm = m] = [preset |-> s.preset, custom |-> s.custom, mitm |-> m,
                                 selected |-> v, allow |-> s.allow]
    BY <2>1
  <2>. QED BY <2>2, <2>3
<1>6. [s EXCEPT !.allow = v] = [preset |-> s.preset, custom |-> s.custom, mitm |-> s.mitm,
                                selected |-> s.selected, allow |-> v]
  BY <1>1
<1>7. GoodSettings([s EXCEPT !.mitm = v]) BY <1>2, <1>3, <1>4
<1>8. ASSUME v \in Node, NEW m PROVE GoodSettings([s EXCEPT !.selected = v, !.mitm = m])
  <2>1. GoodSettings([preset |-> s.preset, custom |-> s.custom, mitm |-> m,
                      selected |-> v, allow |-> s.allow])
    BY <1>2, <1>3, <1>8
  <2>. QED BY <1>5, <2>1
<1>9. GoodAllow(v) => GoodSettings([s EXCEPT !.allow = v]) BY <1>2, <1>3, <1>6
<1>. QED BY <1>7, <1>8, <1>9

LEMMA TablesInit == TableInit => TablesInv
<1>1. SUFFICES ASSUME TableInit PROVE TablesInv OBVIOUS
<1>2. HostSet({}) BY FS_EmptySet DEF HostSet
<1>3. GoodSettings(settings) BY <1>1, GoodProfile DEF TableInit
<1>4. GoodIntent BY <1>1, <1>2 DEF TableInit, GoodIntent
<1>. QED BY <1>1, <1>3, <1>4 DEF TableInit, TablesInv

LEMMA NowIsGood ==
    ASSUME GoodSettings(settings), GoodIntent
    PROVE  GoodAllow(AllowNow) /\ HostSet(BlockNow)
<1>1. HostSet({}) BY FS_EmptySet DEF HostSet
<1>2. GoodAllow([h \in {} |-> "direct"]) BY <1>1 DEF GoodAllow
<1>3. GoodAllow(AllowNow) BY <1>2 DEF AllowNow, GoodSettings
<1>4. HostSet(BlockNow) BY <1>1, FewerHosts DEF BlockNow, GoodIntent
<1>. QED BY <1>3, <1>4

LEMMA TablesStep == TablesInv /\ [TableNext]_tableVars => TablesInv'
<1>1. SUFFICES ASSUME TablesInv, [TableNext]_tableVars PROVE TablesInv'
  OBVIOUS
<1>2. GoodSettings(settings) /\ GoodIntent BY <1>1 DEF TablesInv
<1>3. CASE UNCHANGED tableVars
  BY <1>1, <1>3 DEF tableVars, TablesInv, GoodIntent
<1>4. ASSUME GoodSettings(settings)', GoodIntent', UNCHANGED <<core, push, start>>
      PROVE  TablesInv'
  BY <1>1, <1>4 DEF TablesInv
<1>5. ASSUME NEW h \in Name, Judge(h) PROVE TablesInv'
  <2>1. settings' = settings /\ UNCHANGED <<core, push, start>>
        /\ intent' = [intent EXCEPT !.block = IF h \in @ THEN @ \ {h} ELSE @ \cup {h}]
    BY <1>5 DEF Judge, Edit
  <2>2. HostSet(intent.block \ {h}) /\ HostSet(intent.block \cup {h})
    BY <1>2, FewerHosts DEF GoodIntent
  <2>3. GoodIntent' BY <1>2, <2>1, <2>2 DEF GoodIntent
  <2>4. GoodSettings(settings') BY <1>2, <2>1
  <2>. QED BY <1>4, <2>1, <2>3, <2>4
<1>6. ASSUME NEW h \in Name, NEW way \in {"direct", "selected"}, Correct(h, way)
      PROVE  TablesInv'
  <2>1. /\ settings' = [settings EXCEPT !.allow = Corrected(h, way)]
        /\ intent' = [intent EXCEPT !.block = @ \ {h}] /\ UNCHANGED <<core, push, start>>
    BY <1>6 DEF Correct, Edit
  <2>2. GoodAllow(Corrected(h, way))
    BY <1>2, FewerHosts DEF Corrected, GoodAllow, GoodSettings
  <2>3. GoodSettings(settings') BY <1>2, <2>1, <2>2, GoodExcept
  <2>4. HostSet(intent.block \ {h}) BY <1>2, FewerHosts DEF GoodIntent
  <2>5. GoodIntent' BY <1>2, <2>1, <2>4 DEF GoodIntent
  <2>. QED BY <1>4, <2>1, <2>3, <2>5
<1>7. CASE SaveSettings
  <2>1. PICK n \in Node, m \in {"off", "on"}, mode \in {"off", "drill", "on"} :
          /\ settings' = [settings EXCEPT !.selected = n, !.mitm = m]
          /\ intent' = [mode |-> mode, block |-> IF mode = "off" THEN {} ELSE intent.block]
    BY <1>7 DEF SaveSettings
  <2>2. UNCHANGED <<core, push, start>> BY <1>7 DEF SaveSettings, Edit
  <2>3. GoodSettings(settings') BY <1>2, <2>1, GoodExcept
  <2>4. HostSet({}) BY FS_EmptySet DEF HostSet
  <2>5. GoodIntent' BY <1>2, <2>1, <2>4 DEF GoodIntent
  <2>. QED BY <1>4, <2>2, <2>3, <2>5
<1>8. CASE StartCore
  <2>1. /\ start' = {[settings |-> settings, handed |-> {}]}
        /\ UNCHANGED <<settings, intent, core, push>>
    BY <1>8 DEF StartCore
  <2>2. \A j \in start' : GoodStart(j) BY <1>2, <2>1 DEF GoodStart
  <2>. QED BY <1>1, <2>1, <2>2 DEF TablesInv, GoodIntent
<1>9. CASE HandRules
  <2>1. PICK j \in start, trusted \in BOOLEAN :
          start' = {[settings |-> Effective(j.settings, trusted),
                     handed |-> {[allow |-> AllowNow, block |-> BlockNow]}]}
    BY <1>9 DEF HandRules
  <2>2. UNCHANGED <<settings, intent, core, push>> BY <1>9 DEF HandRules
  <2>3. GoodSettings(Effective(j.settings, trusted))
    <3>1. GoodSettings(j.settings) BY <1>1 DEF TablesInv, GoodStart
    <3>2. GoodSettings([j.settings EXCEPT !.mitm = "off"]) BY <3>1, GoodExcept
    <3>. QED BY <3>1, <3>2 DEF Effective
  <2>4. \A q \in start' : GoodStart(q) BY <1>2, <2>1, <2>3, NowIsGood DEF GoodStart
  <2>. QED BY <1>1, <2>2, <2>4 DEF TablesInv, GoodIntent
<1>10. CASE CoreUp
  <2>1. PICK j \in start : \E r \in j.handed, n \in Node :
          core' = {[settings |-> j.settings, allow |-> r.allow, block |-> r.block,
                    node |-> n, pushed |-> FALSE]}
    BY <1>10 DEF CoreUp
  <2>2. PICK r \in j.handed, n \in Node :
          core' = {[settings |-> j.settings, allow |-> r.allow, block |-> r.block,
                    node |-> n, pushed |-> FALSE]}
    BY <2>1
  <2>3. start' = {} /\ UNCHANGED <<settings, intent, push>> BY <1>10 DEF CoreUp
  <2>4. GoodStart(j) BY <1>1 DEF TablesInv
  <2>5. \A c \in core' : GoodCore(c) BY <2>2, <2>4 DEF GoodCore, GoodStart
  <2>. QED BY <1>1, <2>3, <2>5 DEF TablesInv, GoodIntent
<1>11. CASE CoreNotUp BY <1>1, <1>11 DEF CoreNotUp, TablesInv, GoodIntent
<1>12. CASE CoreEnds BY <1>1, <1>12 DEF CoreEnds, TablesInv, GoodIntent
<1>13. CASE ApplyAsked
  <2>1. UNCHANGED <<settings, intent, core, start>> BY <1>13 DEF ApplyAsked
  <2>2. \/ push' = push
        \/ push' = {[settings |-> settings, allow |-> AllowNow, block |-> BlockNow,
                     node |-> settings.selected, pushed |-> TRUE]}
    BY <1>13 DEF ApplyAsked
  <2>3. \A p \in push' : GoodCore(p)
    BY <1>1, <1>2, <2>2, NowIsGood DEF TablesInv, GoodCore, GoodSettings
  <2>. QED BY <1>1, <2>1, <2>3 DEF TablesInv, GoodIntent
<1>14. CASE PushTaken BY <1>1, <1>14 DEF PushTaken, TablesInv, GoodIntent
<1>15. CASE PushFails
  <2>1. /\ push' = {} /\ core' = {} /\ start' = {[settings |-> settings, handed |-> {}]}
        /\ UNCHANGED <<settings, intent>>
    BY <1>15 DEF PushFails
  <2>2. \A j \in start' : GoodStart(j) BY <1>2, <2>1 DEF GoodStart
  <2>. QED BY <1>1, <2>1, <2>2 DEF TablesInv, GoodIntent
<1>. QED
  BY <1>1, <1>3, <1>5, <1>6, <1>7, <1>8, <1>9, <1>10, <1>11, <1>12, <1>13, <1>14, <1>15
  DEF TableNext

(* A core's table, from rules that are merged from sound ones.             *)
LEMMA TableIs ==
    ASSUME TablesInv, NEW c \in core
    PROVE  LET m == Merge(c.settings, c.allow, c.block)
           IN  /\ Sound(c.settings, c.allow, c.block) /\ IsRules(m) /\ c.node \in Node
               /\ c.pushed => Table(c) = ToApiRules(m, c.node)
               /\ ~c.pushed => Table(c) = BuildRouting(m, c.node)
<1>1. GoodCore(c) BY DEF TablesInv
<1>2. Sound(c.settings, c.allow, c.block)
  BY <1>1 DEF Sound, GoodCore, GoodSettings, Steered, SteersApps
<1>3. IsRules(Merge(c.settings, c.allow, c.block)) BY <1>2, MergeKeeps
<1>4. c.node \in Node BY <1>1 DEF GoodCore
<1>. QED BY <1>2, <1>3, <1>4 DEF Table

LEMMA UniqueTags == TablesInv => TagsUnique
<1>1. SUFFICES ASSUME TablesInv, NEW c \in core PROVE OwnsTags(Table(c))
  BY DEF TagsUnique, OwnsTags
<1>. DEFINE m == Merge(c.settings, c.allow, c.block)
<1>2. /\ IsRules(m) /\ TagsDiffer(m)
      /\ c.pushed => Table(c) = ToApiRules(m, c.node)
      /\ ~c.pushed => Table(c) = BuildRouting(m, c.node)
  BY <1>1, TableIs, MergeKeeps
<1>. HIDE DEF m
<1>3. OwnsTags(ToApiRules(m, c.node)) BY <1>2, PushedRoute
<1>4. OwnsTags(BuildRouting(m, c.node)) BY <1>2, BuiltIs DEF Built
<1>. QED BY <1>2, <1>3, <1>4

LEMMA TableTakes ==
    ASSUME TablesInv, NEW c \in core, NEW x \in Connection, FromApp(x),
           NEW r, Says(Merge(c.settings, c.allow, c.block), x, r)
    PROVE  \/ Route(Table(c), x) = Outbound(r.to, c.node)
           \/ r.to = "block" /\ r.when.net = {"udp"} /\ Route(Table(c), x) = "block-silent"
<1>. DEFINE m == Merge(c.settings, c.allow, c.block)
            t == Table(c)
<1>1. IsRules(m) /\ (t = ToApiRules(m, c.node) \/ t = BuildRouting(m, c.node)) BY TableIs
<1>2. Says(m, x, r) OBVIOUS
<1>. HIDE DEF m, t
<1>3. \/ Route(t, x) = Outbound(r.to, c.node)
      \/ r.to = "block" /\ r.when.net = {"udp"} /\ Route(t, x) = "block-silent"
  BY <1>1, <1>2, TableSays
<1>. QED BY <1>3 DEF t

LEMMA HoldCorrections == TablesInv => CorrectionsHold
<1>1. SUFFICES ASSUME TablesInv, NEW c \in core, NEW x \in Connection,
                      FromApp(x), x.host \in DOMAIN c.allow, ~Private(c.settings, x)
               PROVE  Route(Table(c), x) = Outbound(c.allow[x.host], c.node)
  BY DEF CorrectionsHold
<1>2. Sound(c.settings, c.allow, c.block) BY <1>1, TableIs
<1>3. PICK q : Says(Merge(c.settings, c.allow, c.block), x, q) /\ q.to = c.allow[x.host]
  BY <1>1, <1>2, CorrectedSays
<1>4. q.to # "block" BY <1>1, <1>2, <1>3 DEF Sound, GoodAllow
<1>. QED BY <1>1, <1>3, <1>4, TableTakes

LEMMA UserFirst == TablesInv => UserBeforeGuess
<1>1. SUFFICES ASSUME TablesInv, NEW c \in core, NEW x \in Connection,
                      FromApp(x), x.host \notin DOMAIN c.allow, ~Private(c.settings, x)
               PROVE  LET rules == c.settings.custom
                          own   == {i \in DOMAIN rules : rules[i].on /\ Matches(rules[i].when, x)}
                          says  == rules[Least(own)].to
                          to    == Route(Table(c), x)
                      IN  IF own # {}
                          THEN to = Outbound(says, c.node) \/ (says = "block" /\ to = "block-silent")
                          ELSE x.host \in c.block => to = "block"
  BY DEF UserBeforeGuess
<1>. DEFINE rules == c.settings.custom
            own   == {i \in DOMAIN rules : rules[i].on /\ Matches(rules[i].when, x)}
            l     == Least(own)
            m     == Merge(c.settings, c.allow, c.block)
            to    == Route(Table(c), x)
<1>2. Sound(c.settings, c.allow, c.block) BY <1>1, TableIs
<1>3. IsRules(rules) BY <1>2 DEF Sound
<1>4. DOMAIN rules = 1 .. Len(rules) /\ Len(rules) \in Nat BY <1>3 DEF IsRules, IsSeq
<1>5. /\ \A r : Says(rules, x, r) => \E q : Says(m, x, q) /\ q.to = r.to
      /\ Silent(rules, x) /\ x.host \in c.block =>
           \E q : Says(m, x, q) /\ q.to = "block" /\ q.when.net # {"udp"}
  BY <1>1, <1>2, UserSays
<1>6. \A i \in 1 .. Len(rules) : i \in own <=> Speaks(rules, x, i) BY <1>4 DEF Speaks
<1>7. own \subseteq 1 .. Len(rules) BY <1>4
<1>8. CASE own # {}
  <2>1. l \in own /\ \A i \in own : l <= i
    <3>1. own \subseteq Nat BY <1>7
    <3>. HIDE DEF own
    <3>. QED BY <1>8, <3>1, LeastIs
  <2>2. \A j \in 1 .. l - 1 : j \in 1 .. Len(rules) /\ j \notin own
    <3>1. l \in 1 .. Len(rules) BY <1>7, <2>1
    <3>. HIDE DEF own, l
    <3>. QED BY <1>4, <2>1, <3>1
  <2>3. Says(rules, x, rules[l])
    <3>. HIDE DEF own, l, rules
    <3>. QED BY <1>6, <1>7, <2>1, <2>2 DEF Says
  <2>4. PICK q : Says(m, x, q) /\ q.to = rules[l].to
    <3>. HIDE DEF own, l, rules, m
    <3>. QED BY <1>5, <2>3
  <2>5. to = Outbound(q.to, c.node) \/ (q.to = "block" /\ to = "block-silent")
    <3>. HIDE DEF own, l, rules
    <3>. QED BY <1>1, <2>4, TableTakes
  <2>6. to = Outbound(rules[l].to, c.node) \/ (rules[l].to = "block" /\ to = "block-silent")
    <3>. HIDE DEF own, l, rules, m, to
    <3>. QED BY <2>4, <2>5
  <2>. HIDE DEF m
  <2>. QED BY <1>8, <2>6
<1>9. CASE own = {}
  <2>1. Silent(rules, x)
    <3>. HIDE DEF own, rules
    <3>. QED BY <1>6, <1>9 DEF Silent
  <2>2. ASSUME x.host \in c.block PROVE to = "block"
    <3>. HIDE DEF own, rules
    <3>1. PICK q : Says(m, x, q) /\ q.to = "block" /\ q.when.net # {"udp"} BY <1>5, <2>1, <2>2
    <3>2. to = Outbound(q.to, c.node) BY <1>1, <3>1, TableTakes
    <3>. QED BY <3>1, <3>2 DEF Outbound
  <2>. HIDE DEF m
  <2>. QED BY <1>9, <2>2
<1>. QED BY <1>8, <1>9

LEMMA RoutedEach == TablesInv => EachIsRouted
<1>1. SUFFICES ASSUME TablesInv, NEW c \in core, NEW x \in Connection, ~c.pushed
               PROVE  LET to == Route(Table(c), x)
                      IN  /\ x.dns => to = "dns-out"
                          /\ (x.entry = "api" /\ ~x.dns) => to = "api"
                          /\ to = "mitm-out" => c.settings.mitm # "off" /\ x.entry # "mitm-upstream"
  BY DEF EachIsRouted
<1>. DEFINE m == Merge(c.settings, c.allow, c.block)
            t == Table(c)
            e == Enabled(m)
            n == Len(e)
            f == c.settings.mitm
<1>2. /\ Sound(c.settings, c.allow, c.block) /\ IsRules(m) /\ c.node \in Node
      /\ t = BuildRouting(m, c.node) /\ Steered(m, f)
  BY <1>1, TableIs, MergeKeeps
<1>. HIDE DEF m, t, f
<1>3. Built(t, e, n, c.node) BY <1>2, BuiltIs
<1>4. \A k \in 1 .. n : SteersApps(e[k], f)
  <2>1. \A k \in 1 .. n : \E i \in 1 .. Len(m) : e[k] = m[i] BY <1>2, EnabledSays
  <2>. HIDE DEF e
  <2>. QED BY <1>2, <2>1 DEF Steered
<1>. HIDE DEF e, n
<1>5. n \in Nat /\ DOMAIN t = 1 .. n + 3 BY <1>3 DEF Built
<1>6. n + 3 \in Nat /\ 1 \in 1 .. n + 3 /\ 2 \in 1 .. n + 3 BY <1>5
<1>7. /\ t[1].when = [Always EXCEPT !.dns = {TRUE}] /\ t[1].to = "dns-out"
      /\ t[2].when = [Always EXCEPT !.entry = {"api"}] /\ t[2].to = "api"
      /\ \A k \in 1 .. n : t[k + 2].when = e[k].when /\ t[k + 2].to = Target(e[k], c.node)
      /\ t[n + 3].to = c.node
  BY <1>3 DEF Built
<1>8. x \in [entry : Entry, host : Name \cup {NoName}, ip : Ip, net : Net, dns : BOOLEAN]
  BY ConnectionAssumption
<1>9. ASSUME x.dns PROVE Route(t, x) = "dns-out"
  <2>1. Matches([Always EXCEPT !.dns = {TRUE}], x) BY <1>8, <1>9 DEF Matches, Always
  <2>2. \A l \in 1 .. 1 - 1 : FALSE OBVIOUS
  <2>. QED BY <1>5, <1>6, <1>7, <2>1, <2>2, RouteIs
<1>10. ASSUME x.entry = "api", ~x.dns PROVE Route(t, x) = "api"
  <2>1. Matches([Always EXCEPT !.entry = {"api"}], x) BY <1>8, <1>10 DEF Matches, Always
  <2>2. ~Matches([Always EXCEPT !.dns = {TRUE}], x) BY <1>10 DEF Matches, Always
  <2>3. \A l \in 1 .. 2 - 1 : l = 1 OBVIOUS
  <2>. QED BY <1>5, <1>6, <1>7, <2>1, <2>2, <2>3, RouteIs
<1>11. ASSUME Route(t, x) = "mitm-out" PROVE f # "off" /\ x.entry # "mitm-upstream"
  <2>1. FirstNode # "mitm-out" /\ c.node # "mitm-out"
    BY <1>2, NameAssumption, NodeAssumption
  <2>2. PICK i \in 1 .. n + 3 : Matches(t[i].when, x) /\ t[i].to = "mitm-out"
    BY <1>5, <1>6, <1>11, <2>1, RouteSome
  <2>3. i - 2 \in 1 .. n /\ (i - 2) + 2 = i BY <1>5, <1>7, <2>1, <2>2
  <2>. DEFINE k == i - 2
  <2>4. t[k + 2].when = e[k].when /\ Target(e[k], c.node) = "mitm-out" BY <1>7, <2>2, <2>3
  <2>. HIDE DEF k
  <2>5. e[k].to = "mitm-out" BY <2>1, <2>4 DEF Target, Outbound
  <2>6. f # "off" /\ e[k].when.entry \subseteq Apps BY <1>4, <2>3, <2>5 DEF SteersApps, k
  <2>7. x.entry \in e[k].when.entry BY <2>2, <2>3, <2>4 DEF Matches, k
  <2>. QED BY <2>6, <2>7 DEF Apps
<1>. QED BY <1>9, <1>10, <1>11 DEF t, f

LEMMA TablesInvariant == TableSpec => []TablesInv
<1>. QED BY TablesInit, TablesStep, PTL DEF TableSpec

(* No two rules of the core's table have one tag, whatever tags the user   *)
(* wrote: uniquify_tags gives each a tag that none before it has, and what *)
(* is pushed keeps the tags of what is merged.                             *)
THEOREM TagsNeverClash == TableSpec => []TagsUnique
<1>. QED BY TablesInvariant, UniqueTags, PTL

(* In every table the core is given, started or pushed, a corrected host   *)
(* goes where the user said, whatever the presets, the user's own rules,   *)
(* the verdicts and MITM say of it (merge_rules_with_intent).              *)
THEOREM CorrectionsAlwaysHold == TableSpec => []CorrectionsHold
<1>. QED BY TablesInvariant, HoldCorrections, PTL

(* What one of the user's rules matches is blocked exactly where that rule *)
(* says so, and a host with a verdict where none speaks of it.             *)
THEOREM UserComesFirst == TableSpec => []UserBeforeGuess
<1>. QED BY TablesInvariant, UserFirst, PTL

(* In a table the core is started with, names go to the core's DNS, its    *)
(* interface to itself, and MITM's own connections never back to MITM.     *)
THEOREM RoutedAsMeant == TableSpec => []EachIsRouted
<1>. QED BY TablesInvariant, RoutedEach, PTL

------------------------------------------------------------------------------
StartPhases == {"none", "node", "spawn", "failed"}

(* Roots are numbered in the order they are made; what the system trusts   *)
(* is on record.                                                           *)
Known ==
    /\ made \in Nat /\ made <= MaxRoots /\ root \in 0 .. made /\ stuck \in Nat
    /\ record \subseteq 1 .. made /\ keychain \subseteq record

NoStartIsIdle ==
    /\ starting \in [phase : StartPhases, tun : BOOLEAN, steers : BOOLEAN]
    /\ starting.phase = "none" => starting = NoStart

(* No record without a session, but for what did not leave the keychain.   *)
RecordHasTunnel == record # {} => tunnel \/ stuck > 0

(* Once mitm_apply has followed the settings, the proxy runs if it should. *)
FollowedServes == followed => (mitmOn /\ ca_is_trusted => proxy)

(* A core that steers, or will when its start ends.                        *)
Steering == starting.steers \/ (process = "running" /\ steers)

SteeringServed == Steering => (mitmOn /\ ca_is_trusted /\ proxy) \/ why # {}

(* The inductive invariant.                                                *)
MitmInv == Known /\ NoStartIsIdle /\ RecordHasTunnel /\ FollowedServes /\ SteeringServed

------------------------------------------------------------------------------
(* What ending a session leaves on record did not leave the keychain.      *)
LEMMA EndedLeaves ==
    ASSUME Known, Ended
    PROVE  /\ keychain' \subseteq keychain /\ record' \subseteq record
           /\ keychain' \subseteq record' /\ stuck' \in Nat
           /\ record' # {} => stuck' > 0
<1>1. CASE keychain' = keychain \ record /\ record' = {} /\ UNCHANGED stuck
    BY <1>1 DEF Known
<1>2. CASE /\ stuck' = stuck + 1 /\ UNCHANGED record
           /\ \E bad \in SUBSET record \ {{}} : keychain' = keychain \ (record \ bad)
    BY <1>2 DEF Known
<1> QED
    BY <1>1, <1>2 DEF Ended

(* The same of a helper that starts again: only the roots that do not      *)
(* leave stay on record.                                                   *)
LEMMA RestartLeaves ==
    ASSUME Known, HelperRestarts
    PROVE  /\ keychain' \subseteq keychain /\ record' \subseteq record
           /\ keychain' \subseteq record' /\ stuck' \in Nat
           /\ record' # {} => stuck' > 0
<1>1. IsFiniteSet(1 .. made)
    BY FS_Interval DEF Known
<1>2. PICK bad \in SUBSET record :
         /\ stuck' = stuck + Cardinality(bad)
         /\ keychain' = keychain \ (record \ bad) /\ record' = bad
    BY DEF HelperRestarts
<1>3. IsFiniteSet(bad)
    BY <1>1, <1>2, FS_Subset DEF Known
<1>4. Cardinality(bad) \in Nat /\ (bad # {} => Cardinality(bad) # 0)
    BY <1>3, FS_CardinalityType, FS_EmptySet
<1> QED
    BY <1>2, <1>4 DEF Known

------------------------------------------------------------------------------
(* Outside a start nothing is kept of one.                                 *)
LEMMA NoStartTyped ==
    /\ NoStart \in [phase : StartPhases, tun : BOOLEAN, steers : BOOLEAN]
    /\ NoStart.phase = "none" /\ NoStart.steers = FALSE
    BY DEF NoStart, StartPhases

(* The strengthening holds at the start.                                   *)
LEMMA MitmInvInit == MitmInit => MitmInv
    BY MitmAssumption, NoStartTyped DEF MitmInit, MitmInv, Known, NoStartIsIdle,
       RecordHasTunnel, FollowedServes, Steering, SteeringServed, ca_is_trusted

(* Every step of the helper, the user, mitm_apply and the core keeps it.   *)
LEMMA MitmInvStep == MitmInv /\ [MitmNext]_mitmVars => MitmInv'
<1> SUFFICES ASSUME MitmInv, [MitmNext]_mitmVars PROVE MitmInv'
    OBVIOUS
<1> USE NoStartTyped DEF MitmInv, Known, NoStartIsIdle, StartPhases, RecordHasTunnel,
        FollowedServes, Steering, SteeringServed, ca_is_trusted,
        helperVars, appVars, coreVars, toldVars, Excused, Lost, ClientFree
<1>1. CASE HelperRestarts
    <2>1. UNCHANGED <<appVars, coreVars, followed>> /\ Lost("helper")
        BY <1>1 DEF HelperRestarts
    <2> QED
        BY <1>1, <2>1, RestartLeaves
<1>2. CASE Toggle
    BY <1>2 DEF Toggle
<1>3. CASE mitm_ca_install
    <2>0. /\ root' # 0 /\ (root # 0 => root' = root) /\ (root = 0 => root' \notin keychain)
          /\ made' \in Nat /\ made' <= MaxRoots /\ root' \in 1 .. made' /\ made <= made'
        BY <1>3, MitmAssumption DEF mitm_ca_install
    <2>1. CASE UNCHANGED <<helperVars, toldVars>>
        BY <1>3, <2>0, <2>1 DEF mitm_ca_install
    <2>2. CASE /\ tunnel /\ keychain' = keychain \cup {root'} /\ record' = record \cup {root'}
               /\ followed' = FALSE /\ Excused("unapplied") /\ UNCHANGED tunnel
        BY <1>3, <2>0, <2>2 DEF mitm_ca_install
    <2> QED
        BY <1>3, <2>1, <2>2 DEF mitm_ca_install
<1>4. CASE mitm_ca_remove
    BY <1>4 DEF mitm_ca_remove
<1>5. CASE ApplyReads
    BY <1>5 DEF ApplyReads
<1>6. ASSUME NEW a \in applies, mitm_apply(a) PROVE MitmInv'
    BY <1>6 DEF mitm_apply
<1>7. CASE RepairNetwork
    BY <1>7, EndedLeaves DEF RepairNetwork
<1>8. ASSUME NEW tun \in BOOLEAN, StartReads(tun) PROVE MitmInv'
    <2>1. PICK trusted \in {FALSE, ca_is_trusted} :
            starting' = [phase |-> "node", tun |-> tun, steers |-> core_settings(trusted)]
        BY <1>8 DEF StartReads
    <2>2. core_settings(trusted) \in BOOLEAN
          /\ (core_settings(trusted) => mitmOn /\ ca_is_trusted)
        BY <2>1, Zenon DEF core_settings
    <2>3. starting'.steers = core_settings(trusted) /\ starting'.phase = "node"
        BY <2>1
    <2>4. starting' \in [phase : StartPhases, tun : BOOLEAN, steers : BOOLEAN]
        BY <2>1, <2>2
    <2> QED
        BY <1>8, <2>2, <2>3, <2>4 DEF StartReads
<1>9. CASE TunUp
    BY <1>9 DEF TunUp
<1>10. CASE SelfHeal
    BY <1>10, EndedLeaves DEF SelfHeal
<1>11. CASE NoTunnelWanted
    BY <1>11 DEF NoTunnelWanted
<1>12. CASE CoreListens
    BY <1>12 DEF CoreListens
<1>13. CASE NodeFails
    BY <1>13, EndedLeaves DEF NodeFails, rollback_tun
<1>14. CASE TunUpFails
    BY <1>14 DEF TunUpFails
<1>15. CASE NextNode
    <2>1. CASE starting' = NoStart
        BY <1>15, <2>1 DEF NextNode
    <2>2. CASE starting' = [starting EXCEPT !.phase = "node"]
        BY <1>15, <2>2 DEF NextNode
    <2> QED
        BY <1>15, <2>1, <2>2 DEF NextNode
<1>16. CASE stop_core
    BY <1>16, EndedLeaves DEF stop_core, rollback_tun
<1>17. CASE CoreExits
    BY <1>17 DEF CoreExits
<1>18. CASE RelaunchApp
    <2>1. CASE Ended
        <3>1. /\ keychain' \subseteq record' /\ record' \subseteq record
              /\ stuck' \in Nat /\ (record' # {} => stuck' > 0)
            BY <2>1, EndedLeaves
        <3>2. /\ root' = 0 /\ made' = made /\ followed' = FALSE /\ process' = "none"
              /\ starting' = NoStart
            BY <1>18 DEF RelaunchApp
        <3>3. Known'
            BY <3>1, <3>2
        <3>4. (NoStartIsIdle /\ RecordHasTunnel /\ FollowedServes)'
            BY <3>1, <3>2
        <3>5. SteeringServed'
            BY <3>2
        <3> QED
            BY <3>3, <3>4, <3>5
    <2>2. CASE UNCHANGED <<helperVars, stuck>>
        BY <1>18, <2>2 DEF RelaunchApp
    <2> QED
        BY <1>18, <2>1, <2>2 DEF RelaunchApp
<1>19. CASE UNCHANGED mitmVars
    BY <1>19 DEF mitmVars
<1> QED
    BY <1>1, <1>2, <1>3, <1>4, <1>5, <1>6, <1>7, <1>8, <1>9, <1>10, <1>11, <1>12, <1>13,
       <1>14, <1>15, <1>16, <1>17, <1>18, <1>19 DEF MitmNext

------------------------------------------------------------------------------
(* Roots, records, starts and steering stay as MitmInv says.               *)
THEOREM MitmInvariant == MitmSpec => []MitmInv
    BY MitmInvInit, MitmInvStep, PTL DEF MitmSpec

(* Whatever the interleaving of starts, settings, helper restarts and      *)
(* mitm_apply: a running core that steers is served, or the history of     *)
(* exceptions says which of the code's gaps was met.                       *)
THEOREM ServedUnlessTold == MitmSpec => []SteeredIsServed
<1>1. MitmInv => SteeredIsServed
    BY DEF MitmInv, SteeringServed, Steering, SteeredIsServed
<1> QED
    BY <1>1, MitmInvariant, PTL

(* The step of SteersOnLeftovers.                                          *)
LeftoverStep == starting.phase = "none" /\ starting'.steers => tunnel \/ stuck > 0

(* A start that reads the keychain decides to steer only if a session was  *)
(* left, or a root did not leave: a root that is trusted is on record.     *)
THEOREM LeftoversOnly == MitmSpec => SteersOnLeftovers
<1>1. MitmInv /\ [MitmNext]_mitmVars => [LeftoverStep]_mitmVars
    <2> SUFFICES ASSUME MitmInv, MitmNext, starting.phase = "none", starting'.steers
                 PROVE  tunnel \/ stuck > 0
        BY DEF LeftoverStep
    <2> USE NoStartTyped DEF MitmInv, NoStartIsIdle, coreVars
    <2>1. starting' # starting
        OBVIOUS
    <2>2. PICK tun \in BOOLEAN : StartReads(tun)
        BY <2>1 DEF MitmNext, HelperRestarts, Toggle, mitm_ca_install, mitm_ca_remove,
           ApplyReads, mitm_apply, RepairNetwork, TunUp, SelfHeal, NoTunnelWanted,
           CoreListens, NodeFails, TunUpFails, NextNode, stop_core, CoreExits, RelaunchApp
    <2>3. PICK trusted \in {FALSE, ca_is_trusted} :
            starting' = [phase |-> "node", tun |-> tun, steers |-> core_settings(trusted)]
        BY <2>2 DEF StartReads
    <2>4. starting'.steers = core_settings(trusted)
        BY <2>3
    <2>5. core_settings(trusted)
        BY <2>4
    <2>6. trusted
        BY <2>5, Zenon DEF core_settings
    <2>7. ca_is_trusted
        BY <2>6
    <2> QED
        BY <2>7 DEF Known, RecordHasTunnel, ca_is_trusted
<1> QED
    BY <1>1, MitmInvariant, PTL DEF MitmSpec, SteersOnLeftovers, LeftoverStep

------------------------------------------------------------------------------
(* What is planned *)

(* The destinations of the bypasses, and what the tunnel takes.            *)
HostTos(req) == {HostCidr(a) : a \in Range(req.hosts) \ Loopback}

NetTos(req) == {Cidr(n, 8) : n \in {m \in Range(req.nets) : m \cap Loopback = {}}}

Taking(req) == V4 \cup (IF req.ipv6 = "override" THEN V6 ELSE {})

HalfTos(req) == {Cidr(n, 1) : n \in SUBSET Taking(req)}

Outside == {"gateway", "onlink"}

(* One kind of route, and all of them.                                     *)
IsHost(x, req) == x.to \in HostTos(req) /\ x.via \in Outside /\ x.critical

IsNet(x, req) == x.to \in NetTos(req) /\ x.via \in Outside /\ ~x.critical

IsScoped(x) == x.to = ScopedDefault /\ x.via \in Outside /\ ~x.critical

IsHalf(x, req) == x.to \in HalfTos(req) /\ x.via = "tunnel" /\ x.critical

(* What is asked for.                                                      *)
GoodRequest(req) ==
    /\ IsSeq(req.hosts) /\ \A i \in 1 .. Len(req.hosts) : req.hosts[i] \in Address
    /\ IsSeq(req.nets)
    /\ \A i \in 1 .. Len(req.nets) :
         /\ req.nets[i] \subseteq Address
         /\ req.nets[i] \cap Loopback = {} \/ req.nets[i] \subseteq Loopback
         /\ \A j \in 1 .. Len(req.nets) : req.nets[i] = req.nets[j] => i = j

(* What a plan must have, for it; and no network twice.                    *)
HostsIn(p, req) ==
    \A i \in 1 .. Len(req.hosts) :
      req.hosts[i] \notin Loopback => \E k \in 1 .. Len(p) : p[k].to = HostCidr(req.hosts[i])

NetsIn(p, req) ==
    \A i \in 1 .. Len(req.nets) :
      req.nets[i] \subseteq Loopback \/ \E k \in 1 .. Len(p) : p[k].to = Cidr(req.nets[i], 8)

NetsOnce(p, req) == \A i, j \in 1 .. Len(p) : IsNet(p[i], req) /\ p[i].to = p[j].to => i = j

LEMMA RequestIsGood ==
    ASSUME NEW servers \in ServerLists, NEW u \in Uplink, NEW private \in BOOLEAN, NEW ipv6
    PROVE  /\ GoodRequest(Request(servers, u.gateway, private, ipv6))
           /\ Request(servers, u.gateway, private, ipv6).ipv6 = ipv6
<1>. DEFINE hosts == Hosts(servers, u.gateway)
            nets == IF private THEN PrivateNets ELSE <<>>
<1>1. IsSeq(servers) /\ \A i \in 1 .. Len(servers) : servers[i] \in Address
  <2>1. servers \in Seq(Address) BY FamiliesAssumption DEF Address
  <2>2. IsSeq(servers) /\ DOMAIN servers = 1 .. Len(servers) BY <2>1, FromSeq
  <2>. QED BY <2>1, <2>2, ElementOfSeq
<1>2. IsSeq(hosts) /\ \A i \in 1 .. Len(hosts) : hosts[i] \in Address
  <2>1. CASE hosts = servers BY <1>1, <2>1
  <2>2. CASE hosts # servers
    <3>1. hosts = Append(servers, u.gateway) /\ u.gateway \in Address
      BY <2>2, FamiliesAssumption DEF Hosts, Address
    <3>. HIDE DEF hosts
    <3>2. /\ IsSeq(hosts) /\ Len(hosts) = Len(servers) + 1 /\ Len(servers) \in Nat
          /\ \A i \in 1 .. Len(servers) : hosts[i] = servers[i]
          /\ hosts[Len(servers) + 1] = u.gateway
      BY <1>1, <3>1, Appended
    <3>3. \A i \in 1 .. Len(hosts) : i \in 1 .. Len(servers) \/ i = Len(servers) + 1 BY <3>2
    <3>. QED BY <1>1, <3>1, <3>2, <3>3
  <2>. QED BY <2>1, <2>2
<1>3. /\ IsSeq(nets)
      /\ \A i \in 1 .. Len(nets) :
           /\ nets[i] \subseteq Address
           /\ nets[i] \cap Loopback = {} \/ nets[i] \subseteq Loopback
           /\ \A j \in 1 .. Len(nets) : nets[i] = nets[j] => i = j
  <2>1. CASE private
    <3>1. PrivateNets \in Seq(SUBSET Address) BY NetworksAssumption DEF Address
    <3>2. IsSeq(PrivateNets) /\ DOMAIN PrivateNets = 1 .. Len(PrivateNets) BY <3>1, FromSeq
    <3>3. \A i \in 1 .. Len(PrivateNets) : PrivateNets[i] \in SUBSET Address
      BY <3>1, ElementOfSeq
    <3>. QED BY <2>1, <3>2, <3>3, NetworksAssumption
  <2>2. CASE ~private
    <3>1. nets = <<>> BY <2>2
    <3>2. \A i \in 1 .. Len(nets) : FALSE BY <3>1, NothingIsSeq
    <3>. QED BY <3>1, <3>2, NothingIsSeq
  <2>. QED BY <2>1, <2>2
<1>4. /\ Request(servers, u.gateway, private, ipv6).hosts = hosts
      /\ Request(servers, u.gateway, private, ipv6).nets = nets
      /\ Request(servers, u.gateway, private, ipv6).ipv6 = ipv6
  BY DEF Request
<1>. HIDE DEF hosts, nets
<1>. QED BY <1>2, <1>3, <1>4 DEF GoodRequest

LEMMA HostRoutesAre ==
    ASSUME NEW req, GoodRequest(req), NEW u, NEW r, r = HostRoutes(req, u)
    PROVE  IsSeq(r) /\ (\A k \in 1 .. Len(r) : IsHost(r[k], req)) /\ HostsIn(r, req)
<1>. DEFINE s == req.hosts
            I == {i \in DOMAIN s : s[i] \notin Loopback}
            e == KeptAt(s, I)
            n == Len(s)
<1>1. IsSeq(s) /\ n \in Nat /\ DOMAIN s = 1 .. n /\ \A i \in 1 .. n : s[i] \in Address
  BY DEF GoodRequest, IsSeq
<1>2. PICK p : Picks(e, s, I, n, p) BY <1>1, KeptIs
<1>3. r = [k \in DOMAIN e |-> Planned(HostCidr(e[k]), BypassVia(e[k], u), TRUE)]
  BY DEF HostRoutes
<1>4. \A i \in 1 .. n : i \in I <=> s[i] \notin Loopback BY <1>1
<1>. HIDE DEF I, s, n
<1>5. /\ IsSeq(e) /\ p \in [1 .. Len(e) -> 1 .. n]
      /\ \A k \in 1 .. Len(e) : e[k] = s[p[k]] /\ p[k] \in I
      /\ \A i \in 1 .. n : i \in I => \E k \in 1 .. Len(e) : p[k] = i
  BY <1>2 DEF Picks
<1>6. DOMAIN e = 1 .. Len(e) /\ Len(e) \in Nat BY <1>5 DEF IsSeq
<1>. HIDE DEF e
<1>7. IsSeq(r) /\ Len(r) = Len(e)
  <2>1. r = [k \in 1 .. Len(e) |-> r[k]] BY <1>3, <1>6
  <2>. QED BY <1>6, <2>1, ListIsSeq
<1>8. \A k \in 1 .. Len(e) :
        /\ e[k] = s[p[k]] /\ e[k] \in Range(s) \ Loopback
        /\ r[k].to = HostCidr(e[k]) /\ r[k].via = BypassVia(e[k], u) /\ r[k].critical
  BY <1>1, <1>3, <1>4, <1>5, <1>6 DEF Planned, Range
<1>9. \A k \in 1 .. Len(r) : IsHost(r[k], req)
  BY <1>7, <1>8 DEF IsHost, HostTos, BypassVia, Outside, s
<1>10. ASSUME NEW i \in 1 .. n, s[i] \notin Loopback
       PROVE  \E k \in 1 .. Len(r) : r[k].to = HostCidr(s[i])
  <2>1. PICK k \in 1 .. Len(e) : p[k] = i BY <1>4, <1>5, <1>10
  <2>. QED BY <1>7, <1>8, <2>1
<1>. QED BY <1>7, <1>9, <1>10 DEF s, n, HostsIn

LEMMA NetRoutesAre ==
    ASSUME NEW req, GoodRequest(req), NEW u, NEW r, r = NetRoutes(req, u)
    PROVE  /\ IsSeq(r) /\ \A k \in 1 .. Len(r) : IsNet(r[k], req)
           /\ NetsOnce(r, req) /\ NetsIn(r, req)
<1>. DEFINE s == req.nets
            I == {i \in DOMAIN s : s[i] \cap Loopback = {}}
            e == KeptAt(s, I)
            n == Len(s)
<1>1. /\ IsSeq(s) /\ n \in Nat /\ DOMAIN s = 1 .. n
      /\ \A i \in 1 .. n :
           /\ s[i] \subseteq Address
           /\ s[i] \cap Loopback = {} \/ s[i] \subseteq Loopback
           /\ \A j \in 1 .. n : s[i] = s[j] => i = j
  BY DEF GoodRequest, IsSeq
<1>2. PICK p : Picks(e, s, I, n, p) BY <1>1, KeptIs
<1>3. r = [k \in DOMAIN e |-> Planned(Cidr(e[k], 8), NetVia(e[k], u), FALSE)]
  BY DEF NetRoutes
<1>4. \A i \in 1 .. n : i \in I <=> s[i] \cap Loopback = {} BY <1>1
<1>. HIDE DEF I, s, n
<1>5. /\ IsSeq(e) /\ p \in [1 .. Len(e) -> 1 .. n]
      /\ \A k, l \in 1 .. Len(e) : k < l => p[k] < p[l]
      /\ \A k \in 1 .. Len(e) : e[k] = s[p[k]] /\ p[k] \in I
      /\ \A i \in 1 .. n : i \in I => \E k \in 1 .. Len(e) : p[k] = i
  BY <1>2 DEF Picks
<1>6. DOMAIN e = 1 .. Len(e) /\ Len(e) \in Nat BY <1>5 DEF IsSeq
<1>. HIDE DEF e
<1>7. IsSeq(r) /\ Len(r) = Len(e)
  <2>1. r = [k \in 1 .. Len(e) |-> r[k]] BY <1>3, <1>6
  <2>. QED BY <1>6, <2>1, ListIsSeq
<1>8. \A k \in 1 .. Len(e) :
        /\ e[k] = s[p[k]] /\ e[k] \in Range(s) /\ e[k] \cap Loopback = {}
        /\ r[k].to = Cidr(e[k], 8) /\ r[k].via = NetVia(e[k], u) /\ ~r[k].critical
  BY <1>1, <1>3, <1>4, <1>5, <1>6 DEF Planned, Range
<1>9. \A k \in 1 .. Len(r) : IsNet(r[k], req)
  BY <1>7, <1>8 DEF IsNet, NetTos, NetVia, Outside, s
<1>10. ASSUME NEW k \in 1 .. Len(r), NEW l \in 1 .. Len(r), r[k].to = r[l].to PROVE k = l
  <2>0. k \in 1 .. Len(e) /\ l \in 1 .. Len(e) BY <1>7
  <2>1. e[k] = e[l]
    <3>1. r[k].to = Cidr(e[k], 8) /\ r[l].to = Cidr(e[l], 8) BY <1>8, <2>0
    <3>2. Cidr(e[k], 8) = Cidr(e[l], 8) BY <1>10, <3>1
    <3>3. Cidr(e[k], 8).net = e[k] /\ Cidr(e[l], 8).net = e[l] BY DEF Cidr
    <3>. QED BY <3>2, <3>3
  <2>2. p[k] \in 1 .. n /\ p[l] \in 1 .. n BY <1>5, <1>7
  <2>3. p[k] = p[l] BY <1>1, <1>7, <1>8, <2>1, <2>2
  <2>4. ~(k < l) /\ ~(l < k) BY <1>5, <1>7, <1>1, <2>2, <2>3
  <2>. QED BY <1>6, <1>7, <2>4
<1>11. ASSUME NEW i \in 1 .. n
       PROVE  s[i] \subseteq Loopback \/ \E k \in 1 .. Len(r) : r[k].to = Cidr(s[i], 8)
  <2>1. CASE s[i] \cap Loopback = {}
    <3>1. PICK k \in 1 .. Len(e) : p[k] = i BY <1>4, <1>5, <2>1
    <3>. QED BY <1>7, <1>8, <3>1
  <2>. QED BY <1>1, <2>1
<1>. QED BY <1>7, <1>9, <1>10, <1>11 DEF s, n, NetsOnce, NetsIn

(* What distinguishes them.                                                *)
LEMMA Lengths ==
    ASSUME NEW req
    PROVE  /\ \A t \in HostTos(req) : t.len = 32 /\ ~t.scoped /\ t.net \cap Loopback = {}
           /\ \A t \in NetTos(req) : t.len = 8 /\ ~t.scoped /\ t.net \cap Loopback = {}
           /\ \A t \in HalfTos(req) : t.len = 1 /\ ~t.scoped /\ t.net \subseteq Taking(req)
           /\ ScopedDefault.scoped
  BY DEF HostTos, NetTos, HalfTos, HostCidr, Cidr, ScopedDefault

LEMMA ScopedIs ==
    ASSUME NEW u \in Uplink, NEW r, r = ScopedRoute(u)
    PROVE  /\ IsSeq(r) /\ \A k \in 1 .. Len(r) : IsScoped(r[k])
           /\ u.gateway # NoGateway => \E k \in 1 .. Len(r) : r[k].to = ScopedDefault
<1>1. u.gateway \in V4 \/ u.gateway = NoGateway BY FamiliesAssumption
<1>2. CASE u.gateway \in V4
  <2>. DEFINE x == Planned(ScopedDefault, "gateway", FALSE)
  <2>1. r = <<x>> BY <1>2 DEF ScopedRoute
  <2>2. IsScoped(x) /\ x.to = ScopedDefault BY DEF IsScoped, Planned, Outside
  <2>. HIDE DEF x
  <2>3. IsSeq(r) /\ Len(r) = 1 /\ r[1] = x BY <2>1 DEF IsSeq
  <2>4. \A k \in 1 .. Len(r) : k = 1 BY <2>3
  <2>. QED BY <2>2, <2>3, <2>4
<1>3. CASE u.gateway \notin V4
  <2>1. r = <<>> BY <1>3 DEF ScopedRoute
  <2>2. \A k \in 1 .. Len(r) : FALSE BY <2>1, NothingIsSeq
  <2>. QED BY <1>1, <1>3, <2>1, <2>2, NothingIsSeq
<1>. QED BY <1>2, <1>3

LEMMA HalvesAre ==
    ASSUME NEW req, NEW family, family \subseteq Taking(req), NEW r, r = Halves(family)
    PROVE  /\ IsSeq(r) /\ \A k \in 1 .. Len(r) : IsHalf(r[k], req)
           /\ \A a \in family : \E k \in 1 .. Len(r) : a \in r[k].to.net
<1>. DEFINE x == Planned(Cidr(family \ High, 1), "tunnel", TRUE)
            y == Planned(Cidr(family \cap High, 1), "tunnel", TRUE)
<1>1. /\ IsHalf(x, req) /\ x.to.net = family \ High
      /\ IsHalf(y, req) /\ y.to.net = family \cap High
  <2>1. family \ High \in SUBSET Taking(req) /\ family \cap High \in SUBSET Taking(req) OBVIOUS
  <2>2. Cidr(family \ High, 1) \in HalfTos(req) /\ Cidr(family \cap High, 1) \in HalfTos(req)
    BY <2>1 DEF HalfTos
  <2>. QED BY <2>2 DEF IsHalf, Planned, Cidr
<1>2. r = <<x, y>> BY DEF Halves
<1>. HIDE DEF x, y
<1>3. IsSeq(r) /\ Len(r) = 2 /\ r[1] = x /\ r[2] = y BY <1>2 DEF IsSeq
<1>4. \A k \in 1 .. Len(r) : k = 1 \/ k = 2 BY <1>3
<1>5. 1 \in 1 .. Len(r) /\ 2 \in 1 .. Len(r) BY <1>3
<1>. QED BY <1>1, <1>3, <1>4, <1>5

(* Whatever a list holds was in one of the two it was joined from.         *)
LEMMA InJoined ==
    ASSUME NEW s, IsSeq(s), NEW t, IsSeq(t), NEW i \in 1 .. Len(s \o t)
    PROVE  \/ i \in 1 .. Len(s) /\ (s \o t)[i] = s[i]
           \/ i - Len(s) \in 1 .. Len(t) /\ (s \o t)[i] = t[i - Len(s)]
<1>. DEFINE m == Len(s)
            n == Len(t)
            f == s \o t
<1>1. /\ Len(f) = m + n /\ m \in Nat /\ n \in Nat
      /\ \A j \in 1 .. m : f[j] = s[j]
      /\ \A j \in 1 .. n : f[m + j] = t[j]
  BY Joined
<1>. HIDE DEF m, n, f
<1>2. CASE i > m
  <2>. DEFINE j == i - m
  <2>1. j \in 1 .. n /\ m + j = i BY <1>1, <1>2 DEF f
  <2>2. f[m + j] = t[j] BY <1>1, <2>1
  <2>. QED BY <2>1, <2>2 DEF f, m, n
<1>3. CASE ~(i > m)
  <2>1. i \in 1 .. m BY <1>1, <1>3 DEF f
  <2>. QED BY <1>1, <2>1 DEF f, m, n
<1>. QED BY <1>2, <1>3

(* And a list joined from two holds what each of them does.                *)
HasAll(f, s) == \A i \in 1 .. Len(s) : \E k \in 1 .. Len(f) : f[k] = s[i]

LEMMA OfJoined ==
    ASSUME NEW s, IsSeq(s), NEW t, IsSeq(t)
    PROVE  HasAll(s \o t, s) /\ HasAll(s \o t, t)
<1>1. /\ Len(s \o t) = Len(s) + Len(t) /\ Len(s) \in Nat /\ Len(t) \in Nat
      /\ \A i \in 1 .. Len(s) : (s \o t)[i] = s[i]
      /\ \A i \in 1 .. Len(t) : (s \o t)[Len(s) + i] = t[i]
  BY Joined
<1>2. \A i \in 1 .. Len(s) : i \in 1 .. Len(s \o t) BY <1>1
<1>3. \A i \in 1 .. Len(t) : Len(s) + i \in 1 .. Len(s \o t) BY <1>1
<1>. QED BY <1>1, <1>2, <1>3 DEF HasAll

LEMMA CapturesAre ==
    ASSUME NEW req, NEW r, r = Captures(req)
    PROVE  /\ IsSeq(r) /\ \A k \in 1 .. Len(r) : IsHalf(r[k], req)
           /\ \A a \in Taking(req) : \E k \in 1 .. Len(r) : a \in r[k].to.net
<1>. DEFINE s == Halves(V4)
            t == IF req.ipv6 = "override" THEN Halves(V6) ELSE <<>>
            second == IF req.ipv6 = "override" THEN V6 ELSE {}
<1>1. r = s \o t BY DEF Captures
<1>2. Taking(req) = V4 \cup second BY DEF Taking
<1>3. /\ IsSeq(s) /\ \A k \in 1 .. Len(s) : IsHalf(s[k], req)
      /\ \A a \in V4 : \E k \in 1 .. Len(s) : a \in s[k].to.net
  BY <1>2, HalvesAre
<1>4. /\ IsSeq(t) /\ \A k \in 1 .. Len(t) : IsHalf(t[k], req)
      /\ \A a \in second : \E k \in 1 .. Len(t) : a \in t[k].to.net
  <2>1. CASE req.ipv6 = "override" BY <1>2, <2>1, HalvesAre
  <2>2. CASE req.ipv6 # "override"
    <3>1. t = <<>> /\ second = {} BY <2>2
    <3>2. \A k \in 1 .. Len(t) : FALSE BY <3>1, NothingIsSeq
    <3>. QED BY <3>1, <3>2, NothingIsSeq
  <2>. QED BY <2>1, <2>2
<1>. HIDE DEF s, t, second
<1>5. IsSeq(r) BY <1>1, <1>3, <1>4, Joined
<1>6. \A k \in 1 .. Len(r) : IsHalf(r[k], req)
  BY <1>1, <1>3, <1>4, InJoined
<1>7. ASSUME NEW a \in Taking(req) PROVE \E k \in 1 .. Len(r) : a \in r[k].to.net
  <2>0. HasAll(r, s) /\ HasAll(r, t) BY <1>1, <1>3, <1>4, OfJoined
  <2>1. CASE a \in V4
    <3>1. PICK k \in 1 .. Len(s) : a \in s[k].to.net BY <1>3, <2>1
    <3>2. PICK j \in 1 .. Len(r) : r[j] = s[k] BY <2>0 DEF HasAll
    <3>. QED BY <3>1, <3>2
  <2>2. CASE a \in second
    <3>1. PICK k \in 1 .. Len(t) : a \in t[k].to.net BY <1>4, <2>2
    <3>2. PICK j \in 1 .. Len(r) : r[j] = t[k] BY <2>0 DEF HasAll
    <3>. QED BY <3>1, <3>2
  <2>. QED BY <1>2, <2>1, <2>2
<1>. QED BY <1>5, <1>6, <1>7

(* A plan: bypasses, with no network twice, and then the captures.         *)
IsBypass(x, req) == IsHost(x, req) \/ IsNet(x, req) \/ IsScoped(x)

CapturesLast(p) == \A i, j \in 1 .. Len(p) : i < j /\ p[i].via = "tunnel" => p[j].via = "tunnel"

Bypasses(p, req, u) ==
    /\ HostsIn(p, req) /\ NetsIn(p, req)
    /\ u.gateway # NoGateway => \E k \in 1 .. Len(p) : p[k].to = ScopedDefault

WellPlanned(p, req, u) ==
    /\ IsSeq(p) /\ \A k \in 1 .. Len(p) : IsBypass(p[k], req) \/ IsHalf(p[k], req)
    /\ NetsOnce(p, req) /\ CapturesLast(p) /\ Bypasses(p, req, u)
    /\ \A a \in Taking(req) : \E k \in 1 .. Len(p) : p[k].via = "tunnel" /\ a \in p[k].to.net

(* Two routes to one network are both of that kind.                        *)
LEMMA SameKind ==
    ASSUME NEW req, NEW x, IsNet(x, req), NEW y, IsBypass(y, req) \/ IsHalf(y, req), x.to = y.to
    PROVE  IsNet(y, req)
<1>1. x.to.len = 8 BY Lengths DEF IsNet
<1>2. \A t \in HostTos(req) : t.len = 32 BY Lengths
<1>3. \A t \in HalfTos(req) : t.len = 1 BY Lengths
<1>4. ScopedDefault.len # 8 BY DEF ScopedDefault
<1>5. ~IsHost(y, req) /\ ~IsScoped(y) /\ ~IsHalf(y, req)
  BY <1>1, <1>2, <1>3, <1>4 DEF IsHost, IsScoped, IsHalf
<1>. QED BY <1>5 DEF IsBypass

(* Joined with a list that has no network, a list keeps its networks once. *)
LEMMA NetsOnceJoined ==
    ASSUME NEW s, IsSeq(s), NEW t, IsSeq(t), NEW req,
           \A k \in 1 .. Len(s) : IsBypass(s[k], req) \/ IsHalf(s[k], req),
           \A k \in 1 .. Len(t) : IsBypass(t[k], req) \/ IsHalf(t[k], req),
           \/ NetsOnce(s, req) /\ \A k \in 1 .. Len(t) : ~IsNet(t[k], req)
           \/ NetsOnce(t, req) /\ \A k \in 1 .. Len(s) : ~IsNet(s[k], req)
    PROVE  NetsOnce(s \o t, req)
<1>. DEFINE f == s \o t
            m == Len(s)
<1>1. \A k \in 1 .. Len(f) :
        \/ k \in 1 .. m /\ f[k] = s[k]
        \/ k - m \in 1 .. Len(t) /\ f[k] = t[k - m]
  BY InJoined
<1>2. Len(f) = m + Len(t) /\ m \in Nat /\ Len(t) \in Nat BY Joined
<1>. HIDE DEF f, m
<1>3. \A k \in 1 .. Len(f) : IsBypass(f[k], req) \/ IsHalf(f[k], req) BY <1>1 DEF m
<1>4. ASSUME NEW i \in 1 .. Len(f), NEW j \in 1 .. Len(f), IsNet(f[i], req), f[i].to = f[j].to
      PROVE  i = j
  <2>1. IsNet(f[j], req) BY <1>3, <1>4, SameKind
  <2>2. CASE NetsOnce(s, req) /\ \A k \in 1 .. Len(t) : ~IsNet(t[k], req)
    <3>1. i \in 1 .. m /\ f[i] = s[i] /\ j \in 1 .. m /\ f[j] = s[j]
      BY <1>1, <1>4, <2>1, <2>2
    <3>. QED BY <1>4, <2>2, <3>1 DEF NetsOnce, m
  <2>3. CASE NetsOnce(t, req) /\ \A k \in 1 .. Len(s) : ~IsNet(s[k], req)
    <3>1. /\ i - m \in 1 .. Len(t) /\ f[i] = t[i - m]
          /\ j - m \in 1 .. Len(t) /\ f[j] = t[j - m]
      BY <1>1, <1>4, <2>1, <2>3 DEF m
    <3>2. i - m = j - m BY <1>4, <2>3, <3>1 DEF NetsOnce
    <3>. QED BY <1>2, <3>2
  <2>. QED BY <2>2, <2>3
<1>. QED BY <1>4 DEF NetsOnce, f

LEMMA BypassesAre ==
    ASSUME NEW req, GoodRequest(req), NEW u \in Uplink, NEW p,
           p = HostRoutes(req, u) \o NetRoutes(req, u) \o ScopedRoute(u)
    PROVE  /\ IsSeq(p) /\ \A k \in 1 .. Len(p) : IsBypass(p[k], req)
           /\ NetsOnce(p, req) /\ Bypasses(p, req, u)
<1>. DEFINE h == HostRoutes(req, u)
            n == NetRoutes(req, u)
            c == ScopedRoute(u)
            q == h \o n
<1>0. /\ h = HostRoutes(req, u) /\ n = NetRoutes(req, u) /\ c = ScopedRoute(u)
      /\ p = q \o c
  OBVIOUS
<1>. HIDE DEF h, n, c
<1>1. /\ IsSeq(h) /\ \A k \in 1 .. Len(h) : IsHost(h[k], req)
      /\ HostsIn(h, req)
  BY <1>0, HostRoutesAre
<1>2. /\ IsSeq(n) /\ \A k \in 1 .. Len(n) : IsNet(n[k], req)
      /\ NetsOnce(n, req) /\ NetsIn(n, req)
  BY <1>0, NetRoutesAre
<1>3. /\ IsSeq(c) /\ \A k \in 1 .. Len(c) : IsScoped(c[k])
      /\ u.gateway # NoGateway => \E k \in 1 .. Len(c) : c[k].to = ScopedDefault
  BY <1>0, ScopedIs
<1>4. p = q \o c BY <1>0
<1>6. /\ \A k \in 1 .. Len(h) : IsBypass(h[k], req) /\ ~IsNet(h[k], req)
      /\ \A k \in 1 .. Len(n) : IsBypass(n[k], req)
      /\ \A k \in 1 .. Len(c) : IsBypass(c[k], req) /\ ~IsNet(c[k], req)
  BY <1>1, <1>2, <1>3, Lengths DEF IsBypass, IsHost, IsNet, IsScoped
<1>7. /\ IsSeq(q) /\ \A k \in 1 .. Len(q) : IsBypass(q[k], req)
      /\ NetsOnce(q, req)
  <2>1. IsSeq(q) BY <1>1, <1>2, Joined
  <2>2. \A k \in 1 .. Len(q) : IsBypass(q[k], req) BY <1>1, <1>2, <1>6, InJoined
  <2>3. NetsOnce(q, req) BY <1>1, <1>2, <1>6, NetsOnceJoined
  <2>. QED BY <2>1, <2>2, <2>3
<1>8. HasAll(q, h) /\ HasAll(q, n) BY <1>1, <1>2, OfJoined
<1>. HIDE DEF q
<1>9. HasAll(p, q) /\ HasAll(p, c) BY <1>3, <1>4, <1>7, OfJoined
<1>10. IsSeq(p) BY <1>3, <1>4, <1>7, Joined
<1>11. \A k \in 1 .. Len(p) : IsBypass(p[k], req) BY <1>3, <1>4, <1>6, <1>7, InJoined
<1>12. NetsOnce(p, req) BY <1>3, <1>4, <1>6, <1>7, NetsOnceJoined
<1>13. Bypasses(p, req, u)
  <2>1. ASSUME NEW i \in 1 .. Len(req.hosts), req.hosts[i] \notin Loopback
        PROVE  \E k \in 1 .. Len(p) : p[k].to = HostCidr(req.hosts[i])
    <3>1. PICK k \in 1 .. Len(h) : h[k].to = HostCidr(req.hosts[i]) BY <1>1, <2>1 DEF HostsIn
    <3>2. PICK l \in 1 .. Len(q) : q[l] = h[k] BY <1>8 DEF HasAll
    <3>3. PICK m \in 1 .. Len(p) : p[m] = q[l] BY <1>9 DEF HasAll
    <3>. QED BY <3>1, <3>2, <3>3
  <2>2. ASSUME NEW i \in 1 .. Len(req.nets), ~(req.nets[i] \subseteq Loopback)
        PROVE  \E k \in 1 .. Len(p) : p[k].to = Cidr(req.nets[i], 8)
    <3>1. PICK k \in 1 .. Len(n) : n[k].to = Cidr(req.nets[i], 8) BY <1>2, <2>2 DEF NetsIn
    <3>2. PICK l \in 1 .. Len(q) : q[l] = n[k] BY <1>8 DEF HasAll
    <3>3. PICK m \in 1 .. Len(p) : p[m] = q[l] BY <1>9 DEF HasAll
    <3>. QED BY <3>1, <3>2, <3>3
  <2>3. ASSUME u.gateway # NoGateway PROVE \E k \in 1 .. Len(p) : p[k].to = ScopedDefault
    <3>1. PICK k \in 1 .. Len(c) : c[k].to = ScopedDefault BY <1>3, <2>3
    <3>2. PICK m \in 1 .. Len(p) : p[m] = c[k] BY <1>9 DEF HasAll
    <3>. QED BY <3>1, <3>2
  <2>. QED BY <2>1, <2>2, <2>3 DEF Bypasses, HostsIn, NetsIn
<1>. QED BY <1>10, <1>11, <1>12, <1>13

LEMMA PlanIs ==
    ASSUME NEW req, GoodRequest(req), NEW u \in Uplink, NEW p, p = BuildPlan(req, u)
    PROVE  WellPlanned(p, req, u)
<1>. DEFINE b == HostRoutes(req, u) \o NetRoutes(req, u) \o ScopedRoute(u)
            c == Captures(req)
            m == Len(b)
<1>1. /\ IsSeq(b) /\ \A k \in 1 .. Len(b) : IsBypass(b[k], req)
      /\ NetsOnce(b, req) /\ Bypasses(b, req, u)
  BY BypassesAre
<1>2. /\ IsSeq(c) /\ \A k \in 1 .. Len(c) : IsHalf(c[k], req)
      /\ \A a \in Taking(req) : \E k \in 1 .. Len(c) : a \in c[k].to.net
  BY CapturesAre
<1>3. p = b \o c BY DEF BuildPlan
<1>. HIDE DEF b, c
<1>4. /\ IsSeq(p) /\ Len(p) = m + Len(c) /\ m \in Nat /\ Len(c) \in Nat
  BY <1>1, <1>2, <1>3, Joined
<1>5. \A k \in 1 .. Len(p) :
        \/ k \in 1 .. m /\ p[k] = b[k]
        \/ k - m \in 1 .. Len(c) /\ p[k] = c[k - m]
  BY <1>1, <1>2, <1>3, InJoined
<1>6. HasAll(p, b) /\ HasAll(p, c) BY <1>1, <1>2, <1>3, OfJoined
<1>7. \A k \in 1 .. Len(c) : ~IsNet(c[k], req) /\ c[k].via = "tunnel"
  BY <1>2 DEF IsHalf, IsNet, Outside
<1>8. \A k \in 1 .. m : b[k].via # "tunnel"
  BY <1>1 DEF IsBypass, IsHost, IsNet, IsScoped, Outside
<1>9. NetsOnce(p, req) BY <1>1, <1>2, <1>3, <1>7, NetsOnceJoined
<1>. HIDE DEF m
<1>10. ASSUME NEW i \in 1 .. Len(p), NEW j \in 1 .. Len(p), i < j, p[i].via = "tunnel"
       PROVE  p[j].via = "tunnel"
  <2>1. i - m \in 1 .. Len(c) BY <1>5, <1>8, <1>10
  <2>2. ~(j \in 1 .. m) BY <1>4, <1>10, <2>1
  <2>. QED BY <1>5, <1>7, <2>2
<1>11. CapturesLast(p) BY <1>10 DEF CapturesLast
<1>12. \A k \in 1 .. Len(p) : IsBypass(p[k], req) \/ IsHalf(p[k], req)
  BY <1>1, <1>2, <1>5 DEF m
<1>13. Bypasses(p, req, u)
  <2>1. \A t : (\E k \in 1 .. m : b[k].to = t) => \E k \in 1 .. Len(p) : p[k].to = t
    BY <1>6 DEF HasAll, m
  <2>. QED BY <1>1, <2>1 DEF Bypasses, HostsIn, NetsIn, m
<1>14. ASSUME NEW a \in Taking(req)
       PROVE  \E k \in 1 .. Len(p) : p[k].via = "tunnel" /\ a \in p[k].to.net
  <2>1. PICK k \in 1 .. Len(c) : a \in c[k].to.net BY <1>2
  <2>2. PICK j \in 1 .. Len(p) : p[j] = c[k] BY <1>6 DEF HasAll
  <2>. QED BY <1>7, <2>1, <2>2
<1>. QED BY <1>4, <1>9, <1>11, <1>12, <1>13, <1>14 DEF WellPlanned

------------------------------------------------------------------------------
(* The table while the plan is installed *)

(* The first k routes of the plan p have been gone through: what is in the *)
(* table was there before or is one of them, each of them is in it or was  *)
(* skipped, and what was skipped is not.                                   *)
Installed(p, k) ==
    /\ k \in 0 .. Len(p) /\ todo = SubSeq(p, k + 1, Len(p))
    /\ \A r \in table : \/ r \in KernelTable(uplink)
                        \/ \E i \in 1 .. k : r.to = p[i].to /\ r.via = p[i].via
    /\ \A r \in KernelTable(uplink) : r.to.net = {} \/ r \in table
    /\ \A i \in 1 .. k : p[i].to \in missed \/ \E r \in table : r.to = p[i].to
    /\ \A t \in missed : \E i \in 1 .. k : t = p[i].to /\ ~p[i].critical
    /\ \A r \in table : r.to \in missed => r.to.net = {} \/ r.to.scoped

PlanInv ==
    /\ seen \in Uplink /\ uplink \in Uplink
    /\ phase = "asking" => table = KernelTable(uplink) /\ missed = {}
    /\ phase # "asking" => /\ GoodRequest(request)
                           /\ \E k \in Nat : Installed(BuildPlan(request, uplink), k)
    /\ phase = "up" => todo = <<>>

(* The rows of the system.                                                 *)
LEMMA KernelIs ==
    ASSUME NEW u \in Uplink, NEW r \in KernelTable(u)
    PROVE  /\ r.to.len \in {0, 8, 24, 32} /\ ~r.to.scoped /\ r.via # "tunnel"
           /\ r.to.len \in {8, 32} => r.to.net \subseteq Loopback
           /\ r.to.net \cap Loopback # {} => r.to.len = 0 \/ r.via = "loopback"
           /\ r.to.len = 24 => r.to.net \subseteq u.lan \cup LinkLocal
<1>1. u.lan \cap Loopback = {} /\ LinkLocal \cap Loopback = {} BY NetworksAssumption
<1>2. Out(u) \in Outside BY DEF Out, Outside
<1>. DEFINE d4 == RowTo(Cidr(V4, 0), Out(u))
            d6 == RowTo(Cidr(V6, 0), "gateway")
            lan == RowTo(Cidr(u.lan, 24), "onlink")
            link == RowTo(Cidr(LinkLocal, 24), "onlink")
            lo4 == RowTo(Cidr(Loopback \cap V4, 8), "loopback")
            lo6 == RowTo(Cidr(Loopback \cap V6, 32), "loopback")
<1>3. r = d4 \/ r = d6 \/ r = lan \/ r = link \/ r = lo4 \/ r = lo6 BY DEF KernelTable
<1>4. CASE r = d4 \/ r = d6 BY <1>2, <1>4 DEF RowTo, Cidr, Outside
<1>5. CASE r = lan \/ r = link BY <1>1, <1>5 DEF RowTo, Cidr
<1>6. CASE r = lo4 \/ r = lo6 BY <1>6 DEF RowTo, Cidr
<1>. QED BY <1>3, <1>4, <1>5, <1>6

(* No route of a plan replaces one of them.                                *)
LEMMA KernelStays ==
    ASSUME NEW u \in Uplink, NEW r \in KernelTable(u), NEW req, NEW x,
           IsBypass(x, req) \/ IsHalf(x, req), r.to = x.to
    PROVE  r.to.net = {}
<1>1. /\ r.to.len \in {0, 8, 24, 32} /\ ~r.to.scoped
      /\ r.to.len \in {8, 32} => r.to.net \subseteq Loopback
  BY KernelIs
<1>2. /\ \A t \in HostTos(req) : t.len = 32 /\ t.net \cap Loopback = {}
      /\ \A t \in NetTos(req) : t.len = 8 /\ t.net \cap Loopback = {}
      /\ \A t \in HalfTos(req) : t.len = 1
      /\ ScopedDefault.scoped
  BY Lengths
<1>3. CASE IsHost(x, req) \/ IsNet(x, req) BY <1>1, <1>2, <1>3 DEF IsHost, IsNet
<1>4. CASE IsScoped(x) BY <1>1, <1>2, <1>4 DEF IsScoped
<1>5. CASE IsHalf(x, req) BY <1>1, <1>2, <1>5 DEF IsHalf
<1>. QED BY <1>3, <1>4, <1>5 DEF IsBypass

(* What is left of a list, one taken from its head.                        *)
LEMMA LeftOf ==
    ASSUME NEW p, IsSeq(p), NEW k \in 0 .. Len(p), NEW t, t = SubSeq(p, k + 1, Len(p))
    PROVE  /\ t = <<>> <=> k = Len(p)
           /\ t # <<>> => /\ k + 1 \in 1 .. Len(p) /\ Head(t) = p[k + 1]
                          /\ Tail(t) = SubSeq(p, (k + 1) + 1, Len(p))
<1>1. Len(p) \in Nat BY DEF IsSeq
<1>2. PICK S : p \in Seq(S)
  <2>. DEFINE S == {p[i] : i \in 1 .. Len(p)}
  <2>1. p \in Seq(S) BY InSeq
  <2>. QED BY <2>1
<1>3. CASE k = Len(p)
  <2>1. t = <<>> BY <1>1, <1>3, SubSeqEmpty
  <2>. QED BY <1>3, <2>1
<1>4. CASE k # Len(p)
  <2>1. k + 1 \in 1 .. Len(p) /\ Len(p) \in k + 1 .. Len(p) BY <1>1, <1>4
  <2>2. Head(t) = p[k + 1] /\ Tail(t) = SubSeq(p, (k + 1) + 1, Len(p))
    BY <1>2, <2>1, HeadTailOfSubSeq
  <2>3. Len(t) # 0
    <3>1. \A i \in k + 1 .. Len(p) : p[i] \in S BY <1>1, <1>2, ElementOfSeq
    <3>2. Len(t) = IF k + 1 <= Len(p) THEN Len(p) - (k + 1) + 1 ELSE 0
      BY <1>1, <3>1, SubSeqProperties
    <3>. QED BY <1>1, <2>1, <3>2
  <2>4. t # <<>> BY <2>3, NothingIsSeq
  <2>. QED BY <1>4, <2>1, <2>2, <2>4
<1>. QED BY <1>3, <1>4

(* One route more: put in the table, or skipped.                           *)
LEMMA RouteAdded ==
    ASSUME uplink \in Uplink, NEW req, NEW p, WellPlanned(p, req, uplink),
           NEW k \in Nat, Installed(p, k), todo # <<>>, AddRoute
    PROVE  Installed(p, k + 1)'
<1>. DEFINE x == p[k + 1]
            new == RowTo(x.to, x.via)
            m == Len(p)
            K == KernelTable(uplink)
<1>1. /\ IsSeq(p) /\ m \in Nat /\ NetsOnce(p, req)
      /\ \A i \in 1 .. m : IsBypass(p[i], req) \/ IsHalf(p[i], req)
  BY DEF WellPlanned, IsSeq
<1>2. /\ k \in 0 .. m /\ todo = SubSeq(p, k + 1, m)
      /\ \A r \in table : r \in K \/ \E i \in 1 .. k : r.to = p[i].to /\ r.via = p[i].via
      /\ \A r \in K : r.to.net = {} \/ r \in table
      /\ \A i \in 1 .. k : p[i].to \in missed \/ \E r \in table : r.to = p[i].to
      /\ \A t \in missed : \E i \in 1 .. k : t = p[i].to /\ ~p[i].critical
      /\ \A r \in table : r.to \in missed => r.to.net = {} \/ r.to.scoped
  BY DEF Installed
<1>3. k + 1 \in 1 .. m /\ Head(todo) = x /\ Tail(todo) = SubSeq(p, (k + 1) + 1, m)
  <2>1. IsSeq(p) /\ k \in 0 .. m /\ todo = SubSeq(p, k + 1, m) BY <1>1, <1>2
  <2>. QED BY <2>1, LeftOf
<1>4. /\ table' = {q \in table : q.to # x.to} \cup {new}
      /\ todo' = SubSeq(p, (k + 1) + 1, m) /\ UNCHANGED <<uplink, missed>>
  BY <1>3 DEF AddRoute
<1>5. new.to = x.to /\ new.via = x.via BY DEF RowTo
<1>6. \A i \in 1 .. k + 1 : i \in 1 .. k \/ i = k + 1 OBVIOUS
<1>7. k + 1 \in 1 .. k + 1 /\ \A i \in 1 .. k : i \in 1 .. k + 1 OBVIOUS
<1>8. IsBypass(x, req) \/ IsHalf(x, req) BY <1>1, <1>3
<1>. HIDE DEF x, new, K, m
<1>9. ASSUME NEW r \in table'
      PROVE  r \in K \/ \E i \in 1 .. k + 1 : r.to = p[i].to /\ r.via = p[i].via
  <2>1. CASE r = new BY <1>5, <1>7, <2>1 DEF x
  <2>2. CASE r \in table BY <1>2, <1>7, <2>2
  <2>. QED BY <1>4, <2>1, <2>2
<1>10. ASSUME NEW r \in K PROVE r.to.net = {} \/ r \in table'
  <2>1. CASE r.to = x.to BY <1>8, <2>1, KernelStays DEF K
  <2>2. CASE r.to # x.to BY <1>2, <1>4, <2>2
  <2>. QED BY <2>1, <2>2
<1>11. ASSUME NEW i \in 1 .. k + 1, p[i].to \notin missed
       PROVE  \E r \in table' : r.to = p[i].to
  <2>1. CASE p[i].to = x.to BY <1>4, <1>5, <2>1
  <2>2. CASE p[i].to # x.to
    <3>1. i \in 1 .. k BY <1>6, <2>2 DEF x
    <3>2. PICK r \in table : r.to = p[i].to BY <1>2, <1>11, <3>1
    <3>. QED BY <1>4, <2>2, <3>2
  <2>. QED BY <2>1, <2>2
<1>12. \A t \in missed : \E i \in 1 .. k + 1 : t = p[i].to /\ ~p[i].critical BY <1>2, <1>7
<1>13. ASSUME NEW r \in table', r.to \in missed PROVE r.to.net = {} \/ r.to.scoped
  <2>1. CASE r \in table BY <1>2, <1>13, <2>1
  <2>2. CASE r = new
    <3>1. PICK i \in 1 .. k : x.to = p[i].to /\ ~p[i].critical BY <1>2, <1>5, <1>13, <2>2
    <3>2. i \in 1 .. m /\ i # k + 1 BY <1>1, <1>2, <3>1
    <3>3. ~IsNet(p[i], req) BY <1>3, <3>1, <3>2, <1>1 DEF NetsOnce, m, x
    <3>4. IsScoped(p[i]) BY <1>1, <3>1, <3>2, <3>3 DEF IsBypass, IsHost, IsHalf
    <3>. QED BY <1>5, <2>2, <3>1, <3>4, Lengths DEF IsScoped
  <2>. QED BY <1>4, <2>1, <2>2
<1>14. k + 1 \in 0 .. m BY <1>1, <1>3
<1>. QED BY <1>4, <1>9, <1>10, <1>11, <1>12, <1>13, <1>14 DEF Installed, K, m

LEMMA RouteSkipped ==
    ASSUME uplink \in Uplink, NEW req, NEW p, WellPlanned(p, req, uplink),
           NEW k \in Nat, Installed(p, k), todo # <<>>, SkipRoute
    PROVE  Installed(p, k + 1)'
<1>. DEFINE x == p[k + 1]
            m == Len(p)
            K == KernelTable(uplink)
<1>1. /\ IsSeq(p) /\ m \in Nat /\ NetsOnce(p, req)
      /\ \A i \in 1 .. m : IsBypass(p[i], req) \/ IsHalf(p[i], req)
  BY DEF WellPlanned, IsSeq
<1>2. /\ k \in 0 .. m /\ todo = SubSeq(p, k + 1, m)
      /\ \A r \in table : r \in K \/ \E i \in 1 .. k : r.to = p[i].to /\ r.via = p[i].via
      /\ \A r \in K : r.to.net = {} \/ r \in table
      /\ \A i \in 1 .. k : p[i].to \in missed \/ \E r \in table : r.to = p[i].to
      /\ \A t \in missed : \E i \in 1 .. k : t = p[i].to /\ ~p[i].critical
      /\ \A r \in table : r.to \in missed => r.to.net = {} \/ r.to.scoped
  BY DEF Installed
<1>3. k + 1 \in 1 .. m /\ Head(todo) = x /\ Tail(todo) = SubSeq(p, (k + 1) + 1, m)
  <2>1. IsSeq(p) /\ k \in 0 .. m /\ todo = SubSeq(p, k + 1, m) BY <1>1, <1>2
  <2>. QED BY <2>1, LeftOf
<1>4. /\ missed' = missed \cup {x.to} /\ ~x.critical
      /\ todo' = SubSeq(p, (k + 1) + 1, m) /\ UNCHANGED <<uplink, table>>
  BY <1>3 DEF SkipRoute
<1>5. \A i \in 1 .. k + 1 : i \in 1 .. k \/ i = k + 1 OBVIOUS
<1>6. k + 1 \in 1 .. k + 1 /\ \A i \in 1 .. k : i \in 1 .. k + 1 OBVIOUS
<1>7. IsNet(x, req) \/ IsScoped(x)
  BY <1>1, <1>3, <1>4 DEF IsBypass, IsHost, IsHalf
<1>. HIDE DEF x, K, m
<1>8. \A r \in table : r \in K \/ \E i \in 1 .. k + 1 : r.to = p[i].to /\ r.via = p[i].via
  BY <1>2, <1>6
<1>9. \A i \in 1 .. k + 1 : p[i].to \in missed' \/ \E r \in table : r.to = p[i].to
  BY <1>2, <1>4, <1>5 DEF x
<1>10. \A t \in missed' : \E i \in 1 .. k + 1 : t = p[i].to /\ ~p[i].critical
  BY <1>2, <1>4, <1>6 DEF x
<1>11. ASSUME NEW r \in table, r.to \in missed' PROVE r.to.net = {} \/ r.to.scoped
  <2>1. CASE r.to \in missed BY <1>2, <2>1
  <2>2. CASE r.to = x.to
    <3>1. CASE IsScoped(x) BY <2>2, <3>1, Lengths DEF IsScoped
    <3>2. CASE IsNet(x, req) /\ r \in K
      <4>1. IsBypass(x, req) BY <3>2 DEF IsBypass
      <4>. QED BY <2>2, <3>2, <4>1, KernelStays DEF K
    <3>3. CASE IsNet(x, req) /\ r \notin K
      <4>1. PICK i \in 1 .. k : r.to = p[i].to BY <1>2, <3>3
      <4>2. i \in 1 .. m /\ i # k + 1 BY <1>1, <1>2, <4>1
      <4>. QED BY <1>1, <1>3, <2>2, <3>3, <4>1, <4>2 DEF NetsOnce, m, x
    <3>. QED BY <1>7, <3>1, <3>2, <3>3
  <2>. QED BY <1>4, <1>11, <2>1, <2>2
<1>12. k + 1 \in 0 .. m BY <1>1, <1>3
<1>13. \A r \in K : r.to.net = {} \/ r \in table BY <1>2
<1>. QED BY <1>4, <1>8, <1>9, <1>10, <1>11, <1>12, <1>13 DEF Installed, K, m

LEMMA PlanAsked ==
    ASSUME PlanInv, AskForTun
    PROVE  PlanInv'
<1>1. /\ seen \in Uplink /\ uplink \in Uplink
      /\ table = KernelTable(uplink) /\ missed = {} /\ phase' = "installing"
      /\ UNCHANGED <<seen, uplink, table, missed>>
  BY DEF PlanInv, AskForTun
<1>2. GoodRequest(request')
  <2>1. PICK servers \in ServerLists, private \in BOOLEAN, ipv6 \in Ipv6Mode :
          request' = Request(servers, seen.gateway, private, ipv6)
    BY DEF AskForTun
  <2>. QED BY <1>1, <2>1, RequestIsGood
<1>3. PICK p : p = BuildPlan(request', uplink) OBVIOUS
<1>. DEFINE m == Len(p)
<1>4. IsSeq(p) /\ m \in Nat BY <1>1, <1>2, <1>3, PlanIs DEF WellPlanned, IsSeq
<1>5. todo' = p BY <1>3 DEF AskForTun
<1>6. p = SubSeq(p, 0 + 1, m)
  <2>. DEFINE S == {p[i] : i \in 1 .. m}
  <2>1. p \in Seq(S) BY <1>4, InSeq
  <2>. HIDE DEF S
  <2>. QED BY <2>1, SubSeqFull
<1>7. 0 \in 0 .. m /\ \A i \in 1 .. 0 : FALSE BY <1>4
<1>8. Installed(p, 0)' BY <1>1, <1>5, <1>6, <1>7 DEF Installed
<1>9. BuildPlan(request', uplink') = p BY <1>1, <1>3
<1>10. \E k \in Nat : Installed(BuildPlan(request, uplink), k)' BY <1>8, <1>9 DEF Installed
<1>. QED BY <1>1, <1>2, <1>10 DEF PlanInv

LEMMA PlanStep == PlanInv /\ [PlanNext]_planVars => PlanInv'
<1>1. SUFFICES ASSUME PlanInv, [PlanNext]_planVars PROVE PlanInv'
  OBVIOUS
<1>0. PICK p : p = BuildPlan(request, uplink) OBVIOUS
<1>2. ASSUME phase # "asking"
      PROVE  /\ uplink \in Uplink /\ WellPlanned(p, request, uplink)
             /\ \E k \in Nat : Installed(p, k)
  BY <1>0, <1>1, <1>2, PlanIs DEF PlanInv
<1>3. CASE UNCHANGED planVars
  BY <1>1, <1>3 DEF planVars, PlanInv, Installed
<1>4. CASE AskForTun BY <1>1, <1>4, PlanAsked
<1>5. CASE AddRoute
  <2>1. phase = "installing" /\ todo # <<>> /\ UNCHANGED <<seen, uplink, request, phase>>
    BY <1>5 DEF AddRoute
  <2>2. PICK k \in Nat : Installed(p, k) BY <1>2, <2>1
  <2>3. Installed(p, k + 1)' BY <1>2, <1>5, <2>1, <2>2, RouteAdded
  <2>4. k + 1 \in Nat /\ BuildPlan(request', uplink') = p BY <1>0, <2>1
  <2>5. \E l \in Nat : Installed(BuildPlan(request, uplink), l)' BY <2>3, <2>4 DEF Installed
  <2>. QED BY <1>1, <2>1, <2>5 DEF PlanInv
<1>6. CASE SkipRoute
  <2>1. phase = "installing" /\ todo # <<>> /\ UNCHANGED <<seen, uplink, request, phase>>
    BY <1>6 DEF SkipRoute
  <2>2. PICK k \in Nat : Installed(p, k) BY <1>2, <2>1
  <2>3. Installed(p, k + 1)' BY <1>2, <1>6, <2>1, <2>2, RouteSkipped
  <2>4. k + 1 \in Nat /\ BuildPlan(request', uplink') = p BY <1>0, <2>1
  <2>5. \E l \in Nat : Installed(BuildPlan(request, uplink), l)' BY <2>3, <2>4 DEF Installed
  <2>. QED BY <1>1, <2>1, <2>5 DEF PlanInv
<1>7. CASE CriticalFails \/ AllInstalled
  <2>1. /\ phase = "installing" /\ phase' # "asking" /\ (phase' = "up" => todo = <<>>)
        /\ UNCHANGED <<seen, uplink, request, todo, table, missed>>
    BY <1>7 DEF CriticalFails, AllInstalled
  <2>2. PICK k \in Nat : Installed(p, k) BY <1>2, <2>1
  <2>3. Installed(p, k)' BY <2>1, <2>2 DEF Installed
  <2>4. BuildPlan(request', uplink') = p BY <1>0, <2>1
  <2>5. \E l \in Nat : Installed(BuildPlan(request, uplink), l)' BY <2>3, <2>4 DEF Installed
  <2>. QED BY <1>1, <2>1, <2>5 DEF PlanInv
<1>. QED BY <1>1, <1>3, <1>4, <1>5, <1>6, <1>7 DEF PlanNext

LEMMA PlanStarts == PlanInit => PlanInv
  BY DEF PlanInit, PlanInv

------------------------------------------------------------------------------
(* Where an address goes *)

(* There is a row for every address, and the longest is taken.             *)
LEMMA LookupIs ==
    ASSUME NEW a \in Address, Covering(a) # {},
           \A r \in Covering(a) : r.to.len \in {0, 1, 8, 24, 32}
    PROVE  \E r \in Covering(a) : /\ Lookup(a) = r.via
                                  /\ \A q \in Covering(a) : q.to.len <= r.to.len
<1>. DEFINE C == Covering(a)
            Longest(r) == \A q \in C : q.to.len <= r.to.len
            S == {32 - r.to.len : r \in C}
<1>1. \A r \in C : r.to.len \in Nat /\ r.to.len <= 32 OBVIOUS
<1>2. \E r \in C : Longest(r)
  <2>. HIDE DEF C
  <2>1. S \subseteq Nat /\ S # {} BY <1>1 DEF C
  <2>2. PICK n \in S : \A l \in S : n <= l BY <2>1, Smallest
  <2>3. PICK r \in C : n = 32 - r.to.len BY <2>2
  <2>4. ASSUME NEW q \in C PROVE q.to.len <= r.to.len
    <3>1. n <= 32 - q.to.len BY <2>2, <2>4
    <3>. QED BY <1>1, <2>3, <2>4, <3>1
  <2>. QED BY <2>3, <2>4
<1>. DEFINE r == CHOOSE r \in C : Longest(r)
<1>3. r \in C /\ Longest(r) BY <1>2
<1>4. Lookup(a) = r.via BY DEF Lookup
<1>. HIDE DEF r
<1>. QED BY <1>3, <1>4

(* What the rows say, whatever has been installed.                         *)
RowIs(r) ==
    /\ r.to.len \in {0, 1, 8, 24, 32}
    /\ r.via = "tunnel" <=> r.to.len = 1
    /\ r.to.len = 1 => r.to.net \subseteq Taking(request)
    /\ r.to.net \cap Loopback # {} => r.to.len \in {0, 1} \/ r.via = "loopback"
    /\ r.to.len \in {8, 24, 32} => r.to.net \subseteq KeptOut

LEMMA RowsAre ==
    ASSUME uplink \in Uplink, NEW p, WellPlanned(p, request, uplink), NEW k, Installed(p, k)
    PROVE  \A r \in table : r.to.scoped \/ RowIs(r)
<1>1. SUFFICES ASSUME NEW r \in table, ~r.to.scoped PROVE RowIs(r)
  OBVIOUS
<1>2. CASE r \in KernelTable(uplink)
  <2>1. /\ r.to.len \in {0, 8, 24, 32} /\ ~r.to.scoped /\ r.via # "tunnel"
        /\ r.to.len \in {8, 32} => r.to.net \subseteq Loopback
        /\ r.to.net \cap Loopback # {} => r.to.len = 0 \/ r.via = "loopback"
        /\ r.to.len = 24 => r.to.net \subseteq uplink.lan \cup LinkLocal
    BY <1>2, KernelIs
  <2>2. Loopback \subseteq KeptOut /\ uplink.lan \cup LinkLocal \subseteq KeptOut BY DEF KeptOut
  <2>. QED BY <2>1, <2>2 DEF RowIs
<1>3. CASE r \notin KernelTable(uplink)
  <2>1. PICK i \in 1 .. k : r.to = p[i].to /\ r.via = p[i].via BY <1>3 DEF Installed
  <2>2. i \in 1 .. Len(p)
    <3>1. k \in 0 .. Len(p) /\ Len(p) \in Nat BY DEF Installed, WellPlanned, IsSeq
    <3>. QED BY <3>1
  <2>. DEFINE x == p[i]
  <2>3. IsBypass(x, request) \/ IsHalf(x, request) BY <2>2 DEF WellPlanned
  <2>4. r.to = x.to /\ r.via = x.via BY <2>1
  <2>. HIDE DEF x
  <2>5. CASE IsHost(x, request)
    <3>1. x.to.len = 32 /\ x.to.net \cap Loopback = {} BY <2>5, Lengths DEF IsHost
    <3>2. x.to.net \subseteq Range(request.hosts)
      BY <2>5 DEF IsHost, HostTos, HostCidr, Cidr
    <3>3. x.via # "tunnel" BY <2>5 DEF IsHost, Outside
    <3>4. Range(request.hosts) \subseteq KeptOut BY DEF KeptOut
    <3>. QED BY <2>4, <3>1, <3>2, <3>3, <3>4 DEF RowIs
  <2>6. CASE IsNet(x, request)
    <3>1. x.to.len = 8 /\ ~x.to.scoped /\ x.to.net \cap Loopback = {}
      BY <2>6, Lengths DEF IsNet
    <3>2. x.via # "tunnel" BY <2>6 DEF IsNet, Outside
    <3>3. PICK n \in Range(request.nets) : x.to = Cidr(n, 8) BY <2>6 DEF IsNet, NetTos
    <3>4. x.to.net = n BY <3>3 DEF Cidr
    <3>5. n = {} \/ Cidr(n, 8) \notin missed BY <2>4, <3>1, <3>3, <3>4 DEF Installed
    <3>6. n \subseteq KeptOut BY <3>5 DEF KeptOut
    <3>. QED BY <2>4, <3>1, <3>2, <3>4, <3>6 DEF RowIs
  <2>7. CASE IsHalf(x, request)
    <3>1. /\ x.to.len = 1 /\ x.to.net \subseteq Taking(request) /\ x.via = "tunnel"
      BY <2>7, Lengths DEF IsHalf
    <3>. QED BY <2>4, <3>1 DEF RowIs
  <2>8. ~IsScoped(x) BY <1>1, <2>4, Lengths DEF IsScoped
  <2>. QED BY <2>3, <2>5, <2>6, <2>7, <2>8 DEF IsBypass
<1>. QED BY <1>2, <1>3

(* Once the tunnel takes anything, every bypass has been gone through.     *)
LEMMA BypassesFirst ==
    ASSUME uplink \in Uplink, NEW p, WellPlanned(p, request, uplink), NEW k, Installed(p, k),
           NEW r \in table, r.via = "tunnel", NEW j \in 1 .. Len(p), IsBypass(p[j], request)
    PROVE  p[j].to \in missed \/ \E q \in table : q.to = p[j].to
<1>1. r \notin KernelTable(uplink) BY KernelIs
<1>2. PICK i \in 1 .. k : r.via = p[i].via BY <1>1 DEF Installed
<1>3. k \in 0 .. Len(p) /\ Len(p) \in Nat BY DEF Installed, WellPlanned, IsSeq
<1>4. p[j].via # "tunnel" BY DEF IsBypass, IsHost, IsNet, IsScoped, Outside
<1>5. i \in 1 .. Len(p) /\ ~(i < j) BY <1>2, <1>3, <1>4 DEF WellPlanned, CapturesLast
<1>6. j \in 1 .. k BY <1>3, <1>5
<1>. QED BY <1>6 DEF Installed

LEMMA MissedAre ==
    ASSUME NEW p, NEW req, WellPlanned(p, req, uplink), NEW k, Installed(p, k), NEW t \in missed
    PROVE  t.scoped \/ t.len = 8
<1>1. PICK i \in 1 .. k : t = p[i].to /\ ~p[i].critical BY DEF Installed
<1>2. k \in 0 .. Len(p) /\ Len(p) \in Nat BY DEF Installed, WellPlanned, IsSeq
<1>3. i \in 1 .. Len(p) BY <1>2
<1>4. IsNet(p[i], req) \/ IsScoped(p[i])
  BY <1>1, <1>3 DEF WellPlanned, IsBypass, IsHost, IsHalf
<1>. QED BY <1>1, <1>4, Lengths DEF IsNet, IsScoped

LEMMA GoesItsWay ==
    ASSUME PlanInv, phase # "asking"
    PROVE  EachGoesItsWay
<1>1. PICK p : p = BuildPlan(request, uplink) OBVIOUS
<1>2. uplink \in Uplink /\ WellPlanned(p, request, uplink) BY <1>1, PlanIs DEF PlanInv
<1>3. PICK k \in Nat : Installed(p, k) BY <1>1 DEF PlanInv
<1>. DEFINE T == Taking(request)
<1>4. \A r \in table : r.to.scoped \/ RowIs(r) BY <1>2, <1>3, RowsAre
<1>5. \A r \in KernelTable(uplink) : ~r.to.scoped /\ (r.to.net = {} \/ r \in table)
  BY <1>2, <1>3, KernelIs DEF Installed
<1>6. /\ V4 \subseteq Address /\ V6 \subseteq Address
      /\ Loopback \subseteq Address /\ T \subseteq Address
  BY FamiliesAssumption DEF Address, Taking
<1>7. ASSUME NEW a \in Address
      PROVE  /\ \A r \in Covering(a) : r \in table /\ a \in r.to.net /\ RowIs(r)
             /\ Covering(a) # {}
             /\ \E r \in Covering(a) : /\ Lookup(a) = r.via
                                       /\ \A q \in Covering(a) : q.to.len <= r.to.len
  <2>1. \A r \in Covering(a) : r \in table /\ a \in r.to.net /\ RowIs(r)
    BY <1>4 DEF Covering
  <2>2. Covering(a) # {}
    <3>1. PICK r \in KernelTable(uplink) : a \in r.to.net
      <4>. DEFINE r4 == RowTo(Cidr(V4, 0), Out(uplink))
                  r6 == RowTo(Cidr(V6, 0), "gateway")
      <4>1. r4 \in KernelTable(uplink) /\ r6 \in KernelTable(uplink) BY DEF KernelTable
      <4>2. r4.to.net = V4 /\ r6.to.net = V6 BY DEF RowTo, Cidr
      <4>3. a \in V4 \/ a \in V6 BY DEF Address
      <4>. QED BY <4>1, <4>2, <4>3
    <3>. QED BY <1>5, <3>1 DEF Covering
  <2>3. \A r \in Covering(a) : r.to.len \in {0, 1, 8, 24, 32} BY <2>1 DEF RowIs
  <2>. QED BY <2>1, <2>2, <2>3, LookupIs
\* The network's rows, and loopback's.
<1>8. /\ \A a \in uplink.lan \cup LinkLocal : \E r \in Covering(a) : r.to.len = 24
      /\ \A a \in Loopback : \E r \in Covering(a) : r.to.len \in {8, 32}
  <2>. DEFINE lan == RowTo(Cidr(uplink.lan, 24), "onlink")
              link == RowTo(Cidr(LinkLocal, 24), "onlink")
              lo4 == RowTo(Cidr(Loopback \cap V4, 8), "loopback")
              lo6 == RowTo(Cidr(Loopback \cap V6, 32), "loopback")
  <2>1. lan \in KernelTable(uplink) /\ link \in KernelTable(uplink) BY DEF KernelTable
  <2>2. lo4 \in KernelTable(uplink) /\ lo6 \in KernelTable(uplink) BY DEF KernelTable
  <2>3. /\ lan.to.net = uplink.lan /\ lan.to.len = 24
        /\ link.to.net = LinkLocal /\ link.to.len = 24
        /\ lo4.to.net = Loopback \cap V4 /\ lo4.to.len = 8
        /\ lo6.to.net = Loopback \cap V6 /\ lo6.to.len = 32
    BY DEF RowTo, Cidr
  <2>. HIDE DEF lan, link, lo4, lo6
  <2>4. \A r \in KernelTable(uplink) : \A a \in r.to.net : r \in Covering(a)
    BY <1>5 DEF Covering
  <2>5. \A a \in Loopback : a \in lo4.to.net \/ a \in lo6.to.net BY <1>6, <2>3 DEF Address
  <2>. QED BY <2>1, <2>2, <2>3, <2>4, <2>5
<1>9. \A t \in missed : t.scoped \/ t.len = 8 BY <1>2, <1>3, MissedAre
<1>10. ASSUME NEW a \in Address, Lookup(a) = "tunnel"
       PROVE  /\ a \in T \ KeptOut
              /\ \E r \in table : r.via = "tunnel"
  <2>1. PICK r \in Covering(a) : /\ Lookup(a) = r.via
                                 /\ \A q \in Covering(a) : q.to.len <= r.to.len
    BY <1>7
  <2>2. r \in table /\ r.via = "tunnel" /\ r.to.len = 1 /\ a \in T
    BY <1>7, <1>10, <2>1 DEF RowIs
  <2>3. \A q \in Covering(a) : q.to.len <= 1 BY <2>1, <2>2
  <2>4. a \notin uplink.lan \cup LinkLocal \cup Loopback BY <1>8, <2>3
  <2>5. \A j \in 1 .. Len(p) :
          IsBypass(p[j], request) => p[j].to \in missed \/ \E q \in table : q.to = p[j].to
    BY <1>2, <1>3, <2>2, BypassesFirst
  <2>6. ASSUME NEW t, ~t.scoped, a \in t.net, t.len # 1, t \notin missed,
               \E j \in 1 .. Len(p) : p[j].to = t
        PROVE  \E q \in Covering(a) : q.to.len = t.len
    <3>1. PICK j \in 1 .. Len(p) : p[j].to = t BY <2>6
    <3>2. ~IsHalf(p[j], request) BY <2>6, <3>1, Lengths DEF IsHalf
    <3>3. IsBypass(p[j], request) BY <1>2, <3>2 DEF WellPlanned
    <3>4. PICK q \in table : q.to = t BY <2>5, <2>6, <3>1, <3>3
    <3>. QED BY <2>6, <3>4 DEF Covering
  <2>7. a \notin Range(request.hosts)
    <3>1. SUFFICES ASSUME a \in Range(request.hosts) PROVE FALSE OBVIOUS
    <3>2. PICK i \in 1 .. Len(request.hosts) : a = request.hosts[i]
      BY <3>1 DEF PlanInv, GoodRequest, IsSeq, Range
    <3>3. \E j \in 1 .. Len(p) : p[j].to = HostCidr(a)
      BY <1>2, <2>4, <3>2 DEF WellPlanned, Bypasses, HostsIn
    <3>4. ~HostCidr(a).scoped /\ a \in HostCidr(a).net /\ HostCidr(a).len = 32
      BY DEF HostCidr, Cidr
    <3>5. HostCidr(a) \notin missed BY <1>9, <3>4
    <3>6. PICK q \in Covering(a) : q.to.len = 32 BY <2>6, <3>3, <3>4, <3>5
    <3>. QED BY <2>3, <3>6
  <2>8. a \notin UNION {n \in Range(request.nets) : Cidr(n, 8) \notin missed}
    <3>1. SUFFICES ASSUME NEW n \in Range(request.nets), Cidr(n, 8) \notin missed, a \in n
                   PROVE  FALSE
      OBVIOUS
    <3>2. PICK i \in 1 .. Len(request.nets) : n = request.nets[i]
      BY <3>1 DEF PlanInv, GoodRequest, IsSeq, Range
    <3>3. \E j \in 1 .. Len(p) : p[j].to = Cidr(n, 8)
      BY <1>2, <2>4, <3>1, <3>2 DEF WellPlanned, Bypasses, NetsIn
    <3>4. ~Cidr(n, 8).scoped /\ a \in Cidr(n, 8).net /\ Cidr(n, 8).len = 8
      BY <3>1 DEF Cidr
    <3>5. PICK q \in Covering(a) : q.to.len = 8 BY <2>6, <3>1, <3>3, <3>4
    <3>. QED BY <2>3, <3>5
  <2>9. a \notin KeptOut BY <2>4, <2>7, <2>8 DEF KeptOut
  <2>. QED BY <2>2, <2>9
<1>11. Wanted = T \ KeptOut BY DEF Wanted, Taking
<1>12. InTunnel \subseteq Wanted BY <1>10, <1>11 DEF InTunnel
<1>13. ASSUME phase = "up", NEW a \in Wanted PROVE a \in InTunnel
  <2>1. k = Len(p)
    <3>1. IsSeq(p) /\ k \in 0 .. Len(p) /\ <<>> = SubSeq(p, k + 1, Len(p))
      BY <1>2, <1>3, <1>13 DEF WellPlanned, Installed, PlanInv
    <3>. QED BY <3>1, LeftOf
  <2>2. a \in T /\ a \notin KeptOut /\ a \in Address BY <1>6, <1>11, <1>13
  <2>3. PICK j \in 1 .. Len(p) : p[j].via = "tunnel" /\ a \in p[j].to.net
    BY <1>2, <2>2 DEF WellPlanned
  <2>4. IsHalf(p[j], request)
    BY <1>2, <2>3 DEF WellPlanned, IsBypass, IsHost, IsNet, IsScoped, Outside
  <2>5. p[j].to.len = 1 /\ ~p[j].to.scoped BY <2>4, Lengths DEF IsHalf
  <2>6. PICK h \in table : h.to = p[j].to BY <1>3, <1>9, <2>1, <2>5 DEF Installed
  <2>7. h \in Covering(a) /\ h.to.len = 1 BY <2>3, <2>5, <2>6 DEF Covering
  <2>8. PICK r \in Covering(a) : /\ Lookup(a) = r.via
                                 /\ \A q \in Covering(a) : q.to.len <= r.to.len
    BY <1>7, <2>2
  <2>9. r.to.len = 1 /\ r.via = "tunnel"
    <3>1. RowIs(r) /\ a \in r.to.net BY <1>7, <2>2
    <3>2. r.to.len \in {0, 1} BY <2>2, <3>1 DEF RowIs
    <3>3. 1 <= r.to.len BY <2>7, <2>8
    <3>. QED BY <3>1, <3>2, <3>3 DEF RowIs
  <2>. QED BY <2>2, <2>8, <2>9 DEF InTunnel
<1>14. ASSUME NEW a \in Loopback PROVE Lookup(a) = "loopback"
  <2>1. a \in Address BY <1>6
  <2>2. PICK r \in Covering(a) : /\ Lookup(a) = r.via
                                 /\ \A q \in Covering(a) : q.to.len <= r.to.len
    BY <1>7, <2>1
  <2>3. PICK q \in Covering(a) : q.to.len \in {8, 32} BY <1>8
  <2>4. r.to.len \notin {0, 1} BY <2>2, <2>3
  <2>5. RowIs(r) /\ r.to.net \cap Loopback # {} BY <1>7, <2>1
  <2>. QED BY <2>2, <2>4, <2>5 DEF RowIs
<1>15. ASSUME InTunnel \cap V4 # {}, uplink.gateway # NoGateway
       PROVE  ScopedDefault \in missed \cup {r.to : r \in table}
  <2>1. PICK r \in table : r.via = "tunnel" BY <1>10, <1>15 DEF InTunnel
  <2>2. PICK j \in 1 .. Len(p) : p[j].to = ScopedDefault
    BY <1>2, <1>15 DEF WellPlanned, Bypasses
  <2>3. ~IsHalf(p[j], request) BY <2>2, Lengths DEF IsHalf
  <2>4. IsBypass(p[j], request) BY <1>2, <2>3 DEF WellPlanned
  <2>. QED BY <1>2, <1>3, <2>1, <2>2, <2>4, BypassesFirst
<1>. QED BY <1>12, <1>13, <1>14, <1>15 DEF EachGoesItsWay

(* From the request on, no address enters the tunnel that was to stay out, *)
(* loopback stays on lo0, and what is up takes all that it was to take:    *)
(* build_plan's order, critical marks and prefix lengths, whatever route   *)
(* cannot be installed.                                                    *)
THEOREM AddressesGoTheirWay == PlanSpec => []EachGoesItsWay
<1>1. PlanInv => EachGoesItsWay BY GoesItsWay DEF EachGoesItsWay
<1>. QED BY <1>1, PlanStarts, PlanStep, PTL DEF PlanSpec

------------------------------------------------------------------------------
(* What TunSession takes a plan to be: routes that are no captures, of      *)
(* which only host routes are critical, and then the captures, each of them *)
(* critical and a prefix of its own.                                        *)
CaptureTos ==
    {Cidr(f \ High, 1) : f \in {V4, V6}} \cup {Cidr(f \cap High, 1) : f \in {V4, V6}}

Apart(p) == \A i, j \in 1 .. Len(p) : p[i].to = p[j].to => i = j

AreCaptures(p) == \A i \in 1 .. Len(p) : p[i].to \in CaptureTos /\ p[i].critical

FitsSession(p) ==
    \E m \in 0 .. Len(p) :
      /\ \A i \in 1 .. m : /\ p[i].to \notin CaptureTos
                           /\ p[i].critical => p[i].to.len = 32
      /\ \A i \in m + 1 .. Len(p) : p[i].to \in CaptureTos /\ p[i].critical
      /\ \A i, j \in m + 1 .. Len(p) : p[i].to = p[j].to => i = j

LEMMA HalvesApart ==
    ASSUME NEW f \in {V4, V6}, f \ High # {}, f \cap High # {}, NEW r, r = Halves(f)
    PROVE  /\ IsSeq(r) /\ AreCaptures(r) /\ Apart(r)
           /\ \A k \in 1 .. Len(r) : r[k].to.net # {} /\ r[k].to.net \subseteq f
<1>. DEFINE x == Planned(Cidr(f \ High, 1), "tunnel", TRUE)
            y == Planned(Cidr(f \cap High, 1), "tunnel", TRUE)
<1>1. /\ x.to \in CaptureTos /\ x.critical /\ x.to.net = f \ High
      /\ y.to \in CaptureTos /\ y.critical /\ y.to.net = f \cap High
  BY DEF CaptureTos, Planned, Cidr
<1>2. r = <<x, y>> BY DEF Halves
<1>3. x.to # y.to /\ y.to # x.to BY <1>1
<1>. HIDE DEF x, y
<1>4. IsSeq(r) /\ Len(r) = 2 /\ r[1] = x /\ r[2] = y BY <1>2 DEF IsSeq
<1>5. \A k \in 1 .. Len(r) : k = 1 \/ k = 2 BY <1>4
<1>6. AreCaptures(r) BY <1>1, <1>4, <1>5 DEF AreCaptures
<1>7. Apart(r) BY <1>3, <1>4, <1>5 DEF Apart
<1>8. \A k \in 1 .. Len(r) : r[k].to.net # {} /\ r[k].to.net \subseteq f
  BY <1>1, <1>4, <1>5
<1>. QED BY <1>4, <1>6, <1>7, <1>8

LEMMA CapturesApart ==
    ASSUME NEW req, NEW r, r = Captures(req),
           \A f \in {V4, V6} : f \ High # {} /\ f \cap High # {}
    PROVE  IsSeq(r) /\ AreCaptures(r) /\ Apart(r)
<1>. DEFINE s == Halves(V4)
            t == IF req.ipv6 = "override" THEN Halves(V6) ELSE <<>>
            m == Len(s)
<1>1. r = s \o t BY DEF Captures
<1>2. /\ IsSeq(s) /\ AreCaptures(s) /\ Apart(s)
      /\ \A k \in 1 .. Len(s) : s[k].to.net # {} /\ s[k].to.net \subseteq V4
  BY HalvesApart
<1>3. /\ IsSeq(t) /\ AreCaptures(t) /\ Apart(t)
      /\ \A k \in 1 .. Len(t) : t[k].to.net # {} /\ t[k].to.net \subseteq V6
  <2>1. CASE req.ipv6 = "override" BY <2>1, HalvesApart
  <2>2. CASE req.ipv6 # "override"
    <3>1. t = <<>> BY <2>2
    <3>. HIDE DEF t
    <3>2. \A k \in 1 .. Len(t) : FALSE BY <3>1, NothingIsSeq
    <3>. QED BY <3>1, <3>2, NothingIsSeq DEF AreCaptures, Apart
  <2>. QED BY <2>1, <2>2
<1>. HIDE DEF s, t
<1>4. IsSeq(r) /\ m \in Nat BY <1>1, <1>2, <1>3, Joined
<1>5. \A k \in 1 .. Len(r) : \/ k \in 1 .. m /\ r[k] = s[k]
                             \/ k - m \in 1 .. Len(t) /\ r[k] = t[k - m]
  BY <1>1, <1>2, <1>3, InJoined
<1>6. AreCaptures(r) BY <1>2, <1>3, <1>5 DEF AreCaptures
<1>. HIDE DEF m
<1>7. ASSUME NEW i \in 1 .. Len(r), NEW j \in 1 .. Len(r), r[i].to = r[j].to
      PROVE  i = j
  <2>1. V4 \cap V6 = {} BY FamiliesAssumption
  <2>2. CASE i \in 1 .. m /\ r[i] = s[i]
    <3>1. r[i].to.net # {} /\ r[i].to.net \subseteq V4 BY <1>2, <2>2 DEF m
    <3>2. ~(j - m \in 1 .. Len(t) /\ r[j] = t[j - m]) BY <1>3, <1>7, <2>1, <3>1
    <3>3. j \in 1 .. m /\ r[j] = s[j] BY <1>5, <3>2
    <3>. QED BY <1>2, <1>7, <2>2, <3>3 DEF Apart, m
  <2>3. CASE i - m \in 1 .. Len(t) /\ r[i] = t[i - m]
    <3>1. r[i].to.net # {} /\ r[i].to.net \subseteq V6 BY <1>3, <2>3
    <3>2. ~(j \in 1 .. m /\ r[j] = s[j]) BY <1>2, <1>7, <2>1, <3>1 DEF m
    <3>3. j - m \in 1 .. Len(t) /\ r[j] = t[j - m] BY <1>5, <3>2
    <3>4. t[i - m].to = t[j - m].to BY <1>7, <2>3, <3>3
    <3>5. i - m = j - m BY <1>3, <2>3, <3>3, <3>4 DEF Apart
    <3>. QED BY <1>4, <3>5
  <2>. QED BY <1>5, <2>2, <2>3
<1>. QED BY <1>4, <1>6, <1>7 DEF Apart

(* Whatever the App asks for on whatever network, and even if the machine   *)
(* has moved meanwhile, build_plan compiles what TunSession assumes of the  *)
(* plans it installs: it never takes a capture's prefix for a bypass, never *)
(* makes a default or a network critical, and never plans a capture twice.  *)
THEOREM PlansFitTheSession ==
    ASSUME \A f \in {V4, V6} : f \ High # {} /\ f \cap High # {},
           NEW servers \in ServerLists, NEW s \in Uplink, NEW u \in Uplink,
           NEW private \in BOOLEAN, NEW ipv6 \in Ipv6Mode
    PROVE  FitsSession(BuildPlan(Request(servers, s.gateway, private, ipv6), u))
<1>. DEFINE req == Request(servers, s.gateway, private, ipv6)
            b == HostRoutes(req, u) \o NetRoutes(req, u) \o ScopedRoute(u)
            c == Captures(req)
            p == BuildPlan(req, u)
            m == Len(b)
<1>1. GoodRequest(req) BY RequestIsGood
<1>2. p = b \o c BY DEF BuildPlan
<1>. HIDE DEF req
<1>3. IsSeq(b) /\ \A k \in 1 .. Len(b) : IsBypass(b[k], req)
  BY <1>1, BypassesAre
<1>4. IsSeq(c) /\ AreCaptures(c) /\ Apart(c) BY CapturesApart
<1>. HIDE DEF b, c, p
<1>5. \A k \in 1 .. Len(b) : b[k].to \notin CaptureTos /\ (b[k].critical => b[k].to.len = 32)
  <2>1. \A x \in CaptureTos : x.len = 1 BY DEF CaptureTos, Cidr
  <2>2. ScopedDefault.len = 0 BY DEF ScopedDefault
  <2>3. \A x : IsBypass(x, req) => x.to.len # 1 /\ (x.critical => x.to.len = 32)
    BY <2>2, Lengths DEF IsBypass, IsHost, IsNet, IsScoped
  <2>. QED BY <1>3, <2>1, <2>3
<1>6. /\ Len(p) = m + Len(c) /\ m \in Nat /\ Len(c) \in Nat
      /\ \A i \in 1 .. m : p[i] = b[i]
      /\ \A i \in 1 .. Len(c) : p[m + i] = c[i]
  BY <1>2, <1>3, <1>4, Joined
<1>7. \A i \in 1 .. m : p[i].to \notin CaptureTos /\ (p[i].critical => p[i].to.len = 32)
  BY <1>5, <1>6 DEF m
<1>. HIDE DEF m
<1>8. \A i \in m + 1 .. Len(p) : i - m \in 1 .. Len(c) /\ p[i] = c[i - m]
  <2>. SUFFICES ASSUME NEW i \in m + 1 .. Len(p)
                PROVE  i - m \in 1 .. Len(c) /\ p[i] = c[i - m]
    OBVIOUS
  <2>. DEFINE k == i - m
  <2>1. k \in 1 .. Len(c) /\ m + k = i BY <1>6
  <2>2. p[m + k] = c[k] BY <1>6, <2>1
  <2>. QED BY <2>1, <2>2
<1>9. \A i \in m + 1 .. Len(p) : p[i].to \in CaptureTos /\ p[i].critical
  BY <1>4, <1>8 DEF AreCaptures
<1>10. ASSUME NEW i \in m + 1 .. Len(p), NEW j \in m + 1 .. Len(p), p[i].to = p[j].to
       PROVE  i = j
  <2>1. i - m = j - m BY <1>4, <1>8, <1>10 DEF Apart
  <2>. QED BY <1>6, <2>1
<1>11. m \in 0 .. Len(p) BY <1>6
<1>12. FitsSession(p) BY <1>7, <1>9, <1>10, <1>11 DEF FitsSession
<1>. QED BY <1>12 DEF p, req

------------------------------------------------------------------------------
(* The ranges of the three machines *)

Reasons == {"helper", "unapplied", "removed", "start"}

(* A core that runs was not started twice, and the reasons are the named   *)
(* ones.                                                                   *)
MitmKinds ==
    tunnel \in BOOLEAN /\ (process = "running" => ClientFree) /\ why \subseteq Reasons

LEMMA MitmKindsStep == MitmKinds /\ [MitmNext]_mitmVars => MitmKinds'
<1>1. SUFFICES ASSUME MitmKinds, [MitmNext]_mitmVars PROVE MitmKinds'
  OBVIOUS
<1>. USE DEF MitmKinds, Reasons, ClientFree, Excused, Lost, helperVars, appVars, coreVars,
             toldVars
<1>2. CASE UNCHANGED mitmVars BY <1>1, <1>2 DEF mitmVars
<1>3. CASE HelperRestarts BY <1>1, <1>3 DEF HelperRestarts
<1>4. CASE Toggle BY <1>1, <1>4 DEF Toggle
<1>5. CASE mitm_ca_install BY <1>1, <1>5 DEF mitm_ca_install
<1>6. CASE mitm_ca_remove BY <1>1, <1>6 DEF mitm_ca_remove
<1>7. CASE ApplyReads BY <1>1, <1>7 DEF ApplyReads
<1>8. ASSUME NEW a \in applies, mitm_apply(a) PROVE MitmKinds'
  BY <1>1, <1>8 DEF mitm_apply
<1>9. CASE RepairNetwork BY <1>1, <1>9 DEF RepairNetwork, Ended
<1>10. ASSUME NEW tun \in BOOLEAN, StartReads(tun) PROVE MitmKinds'
  <2>1. /\ process' = "none" /\ tunnel' = tunnel
        /\ why' = IF followed THEN {} ELSE {"unapplied"}
    BY <1>10 DEF StartReads
  <2>. QED BY <1>1, <2>1
<1>11. CASE TunUp \/ NoTunnelWanted \/ CoreListens \/ TunUpFails
  BY <1>1, <1>11, NoStartTyped DEF TunUp, NoTunnelWanted, CoreListens, TunUpFails
<1>12. CASE SelfHeal BY <1>1, <1>12 DEF SelfHeal, Ended
<1>13. CASE NodeFails BY <1>1, <1>13 DEF NodeFails, rollback_tun, Ended
<1>14. CASE NextNode BY <1>1, <1>14 DEF NextNode
<1>15. CASE stop_core BY <1>1, <1>15 DEF stop_core, rollback_tun, Ended
<1>16. CASE CoreExits BY <1>1, <1>16 DEF CoreExits
<1>17. CASE RelaunchApp BY <1>1, <1>17 DEF RelaunchApp, Ended
<1>. QED BY <1>1, <1>2, <1>3, <1>4, <1>5, <1>6, <1>7, <1>8, <1>9, <1>10, <1>11, <1>12, <1>13,
            <1>14, <1>15, <1>16, <1>17 DEF MitmNext

(* What the system trusts was made by the App and is on record, and the    *)
(* App holds a root that was made; no core runs while one is started.      *)
THEOREM MitmTypeCorrect == MitmSpec => []MitmTypeOK
<1>1. MitmInit => MitmKinds BY DEF MitmInit, MitmKinds, Reasons
<1>2. MitmInv /\ MitmKinds => MitmTypeOK
  BY MitmAssumption DEF MitmInv, Known, MitmKinds, Reasons, MitmTypeOK, Roots
<1>. QED BY <1>1, <1>2, MitmKindsStep, MitmInvariant, PTL DEF MitmSpec

(* One start at a time, and none while a core runs; without an engine      *)
(* there is no verdict; and no list that is sent contradicts itself.       *)
Disjoint(allow, block) == DOMAIN allow \cap block = {}

SentInv ==
    /\ AtMostOne(start) /\ (start # {} => core = {})
    /\ intent.mode = "off" => intent.block = {}
    /\ \A c \in core : Disjoint(c.allow, c.block)
    /\ \A p \in push : Disjoint(p.allow, p.block)
    /\ \A j \in start : \A r \in j.handed : Disjoint(r.allow, r.block)
    /\ \A a \in applied : a.allow \cap a.block = {}

LEMMA NowIsDisjoint ==
    Disjoint(AllowNow, BlockNow) /\ \A a \in HashNow : a.allow \cap a.block = {}
<1>1. Disjoint(AllowNow, BlockNow) BY DEF Disjoint, AllowNow, BlockNow
<1>. QED BY <1>1 DEF Disjoint, HashNow, Hash

LEMMA SentStep == SentInv /\ GoodIntent /\ [TableNext]_tableVars => SentInv'
<1>1. SUFFICES ASSUME SentInv, GoodIntent, [TableNext]_tableVars PROVE SentInv'
  OBVIOUS
<1>. USE DEF SentInv, AtMostOne
<1>2. CASE UNCHANGED tableVars BY <1>1, <1>2 DEF tableVars
<1>3. ASSUME Edit, intent'.mode = "off" => intent'.block = {} PROVE SentInv'
  BY <1>1, <1>3 DEF Edit
<1>4. ASSUME NEW h \in Name, Judge(h) PROVE SentInv'
  <2>1. Edit /\ intent'.mode # "off" BY <1>1, <1>4 DEF Judge, GoodIntent
  <2>. QED BY <1>3, <2>1
<1>5. ASSUME NEW h \in Name, NEW way \in {"direct", "selected"}, Correct(h, way)
      PROVE  SentInv'
  <2>1. Edit /\ intent'.mode = intent.mode /\ intent'.block \subseteq intent.block
    BY <1>1, <1>5 DEF Correct, GoodIntent
  <2>. QED BY <1>1, <1>3, <2>1
<1>6. CASE SaveSettings
  <2>1. Edit /\ (intent'.mode = "off" => intent'.block = {}) BY <1>6 DEF SaveSettings
  <2>. QED BY <1>3, <2>1
<1>7. CASE StartCore BY <1>1, <1>7 DEF StartCore
<1>8. CASE HandRules
  <2>1. PICK j \in start, trusted \in BOOLEAN :
          start' = {[settings |-> Effective(j.settings, trusted),
                     handed |-> {[allow |-> AllowNow, block |-> BlockNow]}]}
    BY <1>8 DEF HandRules
  <2>2. UNCHANGED <<intent, core, push, applied>> BY <1>8 DEF HandRules
  <2>3. \A q \in start' : \A r \in q.handed : Disjoint(r.allow, r.block)
    BY <2>1, NowIsDisjoint
  <2>4. \A q, r \in start' : q = r BY <2>1
  <2>. QED BY <1>1, <2>1, <2>2, <2>3, <2>4
<1>9. CASE CoreUp
  <2>1. PICK j \in start : \E r \in j.handed, n \in Node :
          /\ core' = {[settings |-> j.settings, allow |-> r.allow, block |-> r.block,
                       node |-> n, pushed |-> FALSE]}
          /\ MarkApplied(r)
    BY <1>9 DEF CoreUp
  <2>2. PICK r \in j.handed, n \in Node :
          /\ core' = {[settings |-> j.settings, allow |-> r.allow, block |-> r.block,
                       node |-> n, pushed |-> FALSE]}
          /\ MarkApplied(r)
    BY <2>1
  <2>3. start' = {} /\ UNCHANGED <<intent, push>> BY <1>9 DEF CoreUp
  <2>4. applied' = HashNow BY <2>2 DEF MarkApplied
  <2>5. \A c \in core' : Disjoint(c.allow, c.block) BY <1>1, <2>2
  <2>. QED BY <1>1, <2>3, <2>4, <2>5, NowIsDisjoint
<1>10. CASE CoreNotUp BY <1>1, <1>10 DEF CoreNotUp
<1>11. CASE CoreEnds BY <1>1, <1>11 DEF CoreEnds
<1>12. CASE ApplyAsked
  <2>1. UNCHANGED <<intent, core, start>> BY <1>12 DEF ApplyAsked
  <2>2. applied' = applied \/ applied' = HashNow BY <1>12 DEF ApplyAsked, MarkApplied
  <2>3. \/ push' = push
        \/ push' = {[settings |-> settings, allow |-> AllowNow, block |-> BlockNow,
                     node |-> settings.selected, pushed |-> TRUE]}
    BY <1>12 DEF ApplyAsked
  <2>4. \A p \in push' : Disjoint(p.allow, p.block) BY <1>1, <2>3, NowIsDisjoint
  <2>. QED BY <1>1, <2>1, <2>2, <2>4, NowIsDisjoint
<1>13. CASE PushTaken
  <2>1. /\ core # {} /\ core' = push /\ push' = {} /\ UNCHANGED <<intent, start>>
        /\ applied' = HashNow
    BY <1>13 DEF PushTaken, MarkApplied
  <2>. QED BY <1>1, <2>1, NowIsDisjoint
<1>14. CASE PushFails BY <1>1, <1>14 DEF PushFails
<1>. QED BY <1>1, <1>2, <1>4, <1>5, <1>6, <1>7, <1>8, <1>9, <1>10, <1>11, <1>12, <1>13, <1>14
         DEF TableNext

LEMMA FewAreOne == ASSUME NEW S, AtMostOne(S) PROVE Cardinality(S) <= 1
<1>1. CASE S = {} BY <1>1, FS_EmptySet
<1>2. CASE S # {}
  <2>1. PICK a \in S : S = {a} BY <1>2 DEF AtMostOne
  <2>2. Cardinality(S) = 1 BY <2>1, FS_Singleton
  <2>. QED BY <2>2
<1>. QED BY <1>1, <1>2

(* Whatever is edited while cores start and rules are pushed: one core, one *)
(* start and one push at a time, no start while a core runs, and no list of *)
(* hosts sent to the core that both blocks and corrects one.                *)
THEOREM TableTypeCorrect == TableSpec => []TableTypeOK
<1>1. TableInit => SentInv BY DEF TableInit, SentInv, AtMostOne
<1>2. RulesInv /\ TablesInv /\ SentInv => TableTypeOK
  <2>1. SUFFICES ASSUME RulesInv, TablesInv, SentInv PROVE TableTypeOK OBVIOUS
  <2>2. DOMAIN settings.allow \subseteq Name /\ intent.block \subseteq Name
    BY <2>1 DEF TablesInv, GoodSettings, GoodIntent, GoodAllow, HostSet
  <2>3. Cardinality(core) <= 1 /\ Cardinality(start) <= 1 /\ Cardinality(push) <= 1
    BY <2>1, FewAreOne DEF RulesInv, OneOfEach, SentInv
  <2>4. \A c \in core \cup push : Sent(c.allow, c.block) /\ c.node \in Node
    BY <2>1 DEF TablesInv, GoodCore, GoodAllow, HostSet, SentInv, Disjoint, Sent
  <2>5. \A j \in start : \A r \in j.handed : Sent(r.allow, r.block)
    BY <2>1 DEF TablesInv, GoodStart, GoodAllow, HostSet, SentInv, Disjoint, Sent
  <2>. QED BY <2>1, <2>2, <2>3, <2>4, <2>5 DEF TableTypeOK, SentInv
<1>3. TablesInv => GoodIntent BY DEF TablesInv
<1>. QED BY <1>1, <1>2, <1>3, SentStep, TablesInvariant, RulesInit, RulesStep, PTL DEF TableSpec

(* Before the App has asked there is no request.                           *)
NothingAsked == Request(<<>>, NoGateway, FALSE, "passthrough")

AskedInv ==
    /\ phase \in {"asking", "installing", "up", "refused"}
    /\ phase = "asking" => request = NothingAsked
    /\ request.ipv6 \in Ipv6Mode

LEMMA AskedStep == AskedInv /\ seen \in Uplink /\ [PlanNext]_planVars => AskedInv'
<1>1. SUFFICES ASSUME AskedInv, seen \in Uplink, [PlanNext]_planVars PROVE AskedInv'
  OBVIOUS
<1>2. CASE AskForTun
  <2>1. phase' = "installing" BY <1>2 DEF AskForTun
  <2>2. PICK servers \in ServerLists, private \in BOOLEAN, ipv6 \in Ipv6Mode :
          request' = Request(servers, seen.gateway, private, ipv6)
    BY <1>2 DEF AskForTun
  <2>3. request'.ipv6 = ipv6 BY <1>1, <2>2, RequestIsGood
  <2>. QED BY <2>1, <2>2, <2>3 DEF AskedInv
<1>3. CASE AddRoute BY <1>1, <1>3 DEF AddRoute, AskedInv
<1>4. CASE SkipRoute BY <1>1, <1>4 DEF SkipRoute, AskedInv
<1>5. CASE CriticalFails BY <1>1, <1>5 DEF CriticalFails, AskedInv
<1>6. CASE AllInstalled BY <1>1, <1>6 DEF AllInstalled, AskedInv
<1>7. CASE UNCHANGED planVars BY <1>1, <1>7 DEF planVars, AskedInv
<1>. QED BY <1>1, <1>2, <1>3, <1>4, <1>5, <1>6, <1>7 DEF PlanNext

Ways == {"gateway", "onlink", "loopback", "tunnel"}

GoodRow(r) == r.to.net \subseteq Address /\ r.via \in Ways

LEMMA KernelRows == ASSUME NEW u \in Uplink, NEW r \in KernelTable(u) PROVE GoodRow(r)
<1>1. u.lan \subseteq V4 /\ Loopback \cup LinkLocal \subseteq V4 \cup V6
  BY FamiliesAssumption
<1>2. Out(u) \in Ways BY DEF Out, Ways
<1>3. ASSUME NEW net, net \subseteq V4 \cup V6, NEW len, NEW via \in Ways,
             r = RowTo(Cidr(net, len), via)
      PROVE  GoodRow(r)
  BY <1>3 DEF RowTo, Cidr, GoodRow, Address
<1>4. {"gateway", "onlink", "loopback"} \subseteq Ways BY DEF Ways
<1>5. CASE r = RowTo(Cidr(V4, 0), Out(u)) \/ r = RowTo(Cidr(V6, 0), "gateway")
  BY <1>2, <1>3, <1>4, <1>5
<1>6. CASE r = RowTo(Cidr(u.lan, 24), "onlink") \/ r = RowTo(Cidr(LinkLocal, 24), "onlink")
  BY <1>1, <1>3, <1>4, <1>6
<1>7. CASE \/ r = RowTo(Cidr(Loopback \cap V4, 8), "loopback")
           \/ r = RowTo(Cidr(Loopback \cap V6, 32), "loopback")
  BY <1>3, <1>4, <1>7
<1>. QED BY <1>5, <1>6, <1>7 DEF KernelTable

LEMMA PlanRows ==
    ASSUME NEW req, GoodRequest(req), NEW x, IsBypass(x, req) \/ IsHalf(x, req),
           NEW r, r.to = x.to, r.via = x.via
    PROVE  GoodRow(r)
<1>1. Range(req.hosts) \subseteq Address /\ Range(req.nets) \subseteq SUBSET Address
  BY DEF GoodRequest, IsSeq, Range
<1>2. x.via \in Ways
  BY DEF IsBypass, IsHost, IsNet, IsScoped, IsHalf, Outside, Ways
<1>3. x.to.net \subseteq Address
  <2>1. CASE IsHost(x, req) BY <1>1, <2>1 DEF IsHost, HostTos, HostCidr, Cidr
  <2>2. CASE IsNet(x, req) BY <1>1, <2>2 DEF IsNet, NetTos, Cidr
  <2>3. CASE IsScoped(x) BY <2>3 DEF IsScoped, ScopedDefault, Address
  <2>4. CASE IsHalf(x, req) BY <2>4 DEF IsHalf, HalfTos, Taking, Cidr, Address
  <2>. QED BY <2>1, <2>2, <2>3, <2>4 DEF IsBypass
<1>. QED BY <1>2, <1>3 DEF GoodRow

LEMMA AskedStarts == PlanInit => AskedInv
  BY DEF PlanInit, AskedInv, NothingAsked, Request, Ipv6Mode

LEMMA PlanTypes == PlanInv /\ AskedInv => PlanTypeOK
<1>1. SUFFICES ASSUME PlanInv, AskedInv PROVE PlanTypeOK OBVIOUS
<1>2. seen \in Uplink /\ uplink \in Uplink BY <1>1 DEF PlanInv
<1>3. CASE phase = "asking"
  <2>1. request.hosts = <<>> BY <1>1, <1>3 DEF AskedInv, NothingAsked, Request, Hosts
  <2>2. Range(request.hosts) \subseteq Address BY <2>1 DEF Range
  <2>3. \A r \in table : GoodRow(r) BY <1>1, <1>2, <1>3, KernelRows DEF PlanInv
  <2>. QED BY <1>1, <1>2, <2>2, <2>3 DEF AskedInv, PlanTypeOK, GoodRow, Ways
<1>4. CASE phase # "asking"
  <2>1. PICK p : p = BuildPlan(request, uplink) OBVIOUS
  <2>2. GoodRequest(request) BY <1>1, <1>4 DEF PlanInv
  <2>3. WellPlanned(p, request, uplink) BY <1>2, <2>1, <2>2, PlanIs
  <2>4. PICK k \in Nat : Installed(p, k) BY <1>1, <1>4, <2>1 DEF PlanInv
  <2>5. Len(p) \in Nat /\ \A i \in 1 .. Len(p) : IsBypass(p[i], request) \/ IsHalf(p[i], request)
    BY <2>3 DEF WellPlanned, IsSeq
  <2>6. ASSUME NEW r \in table PROVE GoodRow(r)
    <3>1. CASE r \in KernelTable(uplink) BY <1>2, <3>1, KernelRows
    <3>2. CASE r \notin KernelTable(uplink)
      <4>1. k \in 0 .. Len(p) BY <2>4 DEF Installed
      <4>2. PICK i \in 1 .. k : r.to = p[i].to /\ r.via = p[i].via
        BY <2>4, <3>2 DEF Installed
      <4>3. i \in 1 .. Len(p) BY <2>5, <4>1
      <4>. QED BY <2>2, <2>5, <4>2, <4>3, PlanRows
    <3>. QED BY <3>1, <3>2
  <2>7. Range(request.hosts) \subseteq Address BY <2>2 DEF GoodRequest, IsSeq, Range
  <2>. QED BY <1>1, <1>2, <2>6, <2>7 DEF AskedInv, PlanTypeOK, GoodRow, Ways
<1>. QED BY <1>3, <1>4

(* What is asked for and what is put in the kernel's table are addresses,  *)
(* and every row leads somewhere the machine has.                          *)
THEOREM PlanTypeCorrect == PlanSpec => []PlanTypeOK
<1>1. PlanInv => seen \in Uplink BY DEF PlanInv
<1>. QED BY <1>1, AskedStarts, PlanTypes, AskedStep, PlanStarts, PlanStep, PTL DEF PlanSpec

==============================================================================
