----------------------------- MODULE TokenUnits -----------------------------
(***************************************************************************)
(* How many tokens a set of dependencies takes, as a set with one element  *)
(* for each token.                                                         *)
(***************************************************************************)
EXTENDS Integers, FiniteSets

\* need gives the number of tokens of each dependency.
UnitsOf(need, S) == UNION {{d} \X (1 .. need[d]) : d \in S}
=============================================================================
