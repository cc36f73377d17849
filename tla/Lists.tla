-------------------------------- MODULE Lists --------------------------------
(***************************************************************************)
(* What the program does with its short lists of names: drop repetitions,  *)
(* filter, take the best.  Sets and relations stand for the tests that     *)
(* Python passes as functions, and nothing is recursive: SelectSeq and the *)
(* folds say the same, but a proof cannot look into them.                  *)
(***************************************************************************)
EXTENDS Integers, FiniteSets, Sequences

\* The n-th of a set of positions, and what a list has at these positions.
Nth(positions, n) ==
  CHOOSE i \in positions : Cardinality({j \in positions : j <= i}) = n
Sublist(list, positions) ==
  [n \in 1..Cardinality(positions) |-> list[Nth(positions, n)]]

\* list(dict.fromkeys(list)), and loops that append what they have not seen.
Firsts(list) == {i \in DOMAIN list : \A j \in 1..(i - 1) : list[j] # list[i]}
Dedupe(list) == Sublist(list, Firsts(list))

\* [x for x in list if x in wanted]
Keep(list, wanted) == Sublist(list, {i \in DOMAIN list : list[i] \in wanted})

\* min() and max() with a key: the first of the best.  `better` are the pairs
\* of which the key prefers the former.
IsFirstBest(list, better, i) ==
  \A j \in DOMAIN list : /\ <<list[j], list[i]>> \notin better
                         /\ j < i => <<list[i], list[j]>> \in better
FirstBest(list, better) == list[CHOOSE i \in DOMAIN list : IsFirstBest(list, better, i)]
=============================================================================
