--------------------------- MODULE MCCounterToken ---------------------------
(***************************************************************************)
(* Job a takes units of two tokens, b and c of one of them.  A dependency  *)
(* of job x on token t is <<x, t>>.                                        *)
(***************************************************************************)
EXTENDS CounterToken

PairDeps == [j \in Jobs |->
  CASE j = "a" -> << <<"a", "s">>, <<"a", "t">> >>
    [] j = "b" -> << <<"b", "s">> >>
    [] j = "c" -> << <<"c", "t">> >>]
PairOrigin == [d \in AllDeps |-> d[2]]
PairLimit  == [t \in Tokens |-> IF t = "s" THEN 1 ELSE 4]

\* What a and c need of t: too much for both at once; or as much as the counter
\* counts to, so that the sum wraps.
PairNeeds ==
  {[d \in AllDeps |-> CASE d = <<"a", "t">> -> n[1] [] d = <<"c", "t">> -> n[2] [] OTHER -> 1] :
     n \in {<<3, 2>>, <<4, 4>>}}
=============================================================================
