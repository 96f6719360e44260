-------------------------------- MODULE Lists --------------------------------
(***************************************************************************)
(* Lists of anything, for the modules whose lists are reasoned about.      *)
(***************************************************************************)
EXTENDS Naturals, Sequences

IsSeq(s) == Len(s) \in Nat /\ s = [i \in 1 .. Len(s) |-> s[i]]

(* What is at the places I of s, in order: a filter.                       *)
KeptAt(s, I) ==
    LET kept[n \in 0 .. Len(s)] ==
          IF n = 0 THEN <<>>
          ELSE IF n \in I THEN Append(kept[n - 1], s[n]) ELSE kept[n - 1]
    IN  kept[Len(s)]

==============================================================================
