----------------------------- MODULE MCJobGraph -----------------------------
(***************************************************************************)
(* An instance of JobGraph for TLC: a diamond with two tokens.             *)
(***************************************************************************)
EXTENDS JobGraph

\* b and c come after a, and d after both.
DiamondAfter == [j \in Jobs |-> CASE j = "a" -> {} [] j = "d" -> {"b", "c"} [] OTHER -> {"a"}]

\* Every job needs a unit of t; b needs another one, and c and d one of u.
DiamondNeeds ==
  [t \in Tokens |-> IF t = "t" THEN (Jobs \X {1}) \cup {<<"b", 2>>} ELSE {"c", "d"} \X {1}]

DiamondLimit == [t \in Tokens |-> IF t = "t" THEN 2 ELSE 1]
=============================================================================
