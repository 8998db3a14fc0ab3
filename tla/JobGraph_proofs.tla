-------------------------- MODULE JobGraph_proofs --------------------------
(***************************************************************************)
(* Proofs about JobGraph: what the return of the wait means in whatever    *)
(* implements it.                                                          *)
(***************************************************************************)
EXTENDS JobGraph, TLAPS

\* No job submitted, none to count.
LEMMA InvInit == Init => Inv
  BY DEF Init, Inv, TypeOK, Phases

\* Every step keeps the invariant.
LEMMA InvStep == Inv /\ [Next]_vars => Inv'
<1> SUFFICES ASSUME Inv, [Next]_vars
             PROVE  Inv'
  OBVIOUS
<1> USE DEF Inv
<1>1. TypeOK'
  BY DEF TypeOK, Phases, Next, Submit, Start, Finish, Leave, Complete, Abandon, GiveUp, Interrupt,
     Return, vars
\* A submission makes its job pending, and comes before the return.
<1>2. ASSUME NEW j \in Jobs, Submit(j)
      PROVE  Inv'
  BY <1>1, <1>2 DEF Submit, TypeOK
\* A job that becomes active was pending, and so the wait had not returned.
<1>3. ASSUME NEW j \in Jobs, Start(j)
      PROVE  Inv'
  BY <1>1, <1>3 DEF Start, TypeOK
\* Only a job that leaves stops being pending.
<1>4. ASSUME NEW j \in Jobs, Leave(j) \/ Abandon(j) \/ GiveUp(j)
      PROVE  Inv'
  BY <1>1, <1>4 DEF Leave, Abandon, GiveUp, TypeOK
<1>5. ASSUME NEW j \in Jobs, Complete(j)
      PROVE  Inv'
  BY <1>1, <1>5 DEF Complete, TypeOK
<1>6. ASSUME NEW j \in Jobs, Finish(j)
      PROVE  Inv'
  BY <1>1, <1>6 DEF Finish
<1>7. CASE Interrupt \/ Return \/ UNCHANGED vars
  BY <1>1, <1>7 DEF Interrupt, Return, vars, TypeOK
<1>8. QED
  BY <1>2, <1>3, <1>4, <1>5, <1>6, <1>7 DEF Next

\* In everything that implements JobGraph, a wait that returns without a second
\* SIGINT leaves no job of the experiment active or waiting.
THEOREM GraphReturnsWhenOver == Spec => []ReturnedMeansOver
<1>1. Inv => ReturnedMeansOver
  BY DEF Inv, ReturnedMeansOver, TypeOK, Phases
<1>2. QED
  BY <1>1, InvInit, InvStep, PTL DEF Spec
=============================================================================
