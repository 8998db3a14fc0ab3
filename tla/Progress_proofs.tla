--------------------------- MODULE Progress_proofs ---------------------------
(***************************************************************************)
(* Proofs about Progress, for every scale, threshold and bound.            *)
(***************************************************************************)
EXTENDS Progress, TLAPS

-----------------------------------------------------------------------------
(* The scale.                                                              *)

\* There is at least one integer.
LEMMA WidthPositive == Width \in Nat \ {0}
<1>1. Top \in Nat /\ Top >= 1 /\ Step \in Nat /\ Step >= 1
  BY ProgressAssumption
<1>2. Top * Step \in Nat /\ Top * Step >= Step
  BY <1>1, SMTT(30)
<1>3. QED
  BY <1>1, <1>2 DEF Width

\* A level, as the program stores it, is within the width.
LEMMA ScaleType ==
  ASSUME NEW l \in Levels
  PROVE  Scale(l) \subseteq UInt
<1>1. Top \in Nat /\ Top >= 1 /\ Step \in Nat /\ Step >= 1
  BY ProgressAssumption
<1>2. CASE l < Top
  <2> DEFINE k == Top - l
  <2>1. l \in Nat /\ k \in Nat /\ k >= 1 /\ Top = l + k
    BY <1>1, <1>2 DEF Levels
  <2> HIDE DEF k
  <2>2. Top * Step = l * Step + k * Step
    BY <1>1, <2>1
  <2>3. k * Step \in Nat /\ k * Step >= 1 /\ l * Step \in Nat
    BY <1>1, <2>1, SMTT(30)
  <2>4. l * Step \in 0 .. Top * Step - 1
    BY <2>2, <2>3
  <2>5. QED
    BY <1>2, <2>4 DEF Scale, UInt, Width
<1>3. CASE ~(l < Top)
  BY <1>3, WidthPositive DEF Scale, UInt
<1>4. QED
  BY <1>2, <1>3

\* What is sent for a value is a level.
LEMMA LevelOfType ==
  ASSUME NEW v \in UInt
  PROVE  LevelOf(v) \in Levels
<1>1. Top \in Nat /\ Top >= 1 /\ Step \in Nat /\ Step >= 1
  BY ProgressAssumption
<1>2. Top \in Levels
  BY <1>1 DEF Levels
<1> DEFINE q == v \div Step
<1>3. v \in Nat /\ v < Top * Step
  BY <1>1, WidthPositive DEF UInt, Width
<1>4. q \in Int /\ Step * q <= v
  BY <1>1, <1>3
<1>5. q >= 0
  BY <1>1, <1>3
<1> HIDE DEF q
<1>6. q < Top
  <2> SUFFICES ASSUME q >= Top PROVE FALSE
    BY <1>1, <1>4
  <2>1. Step * q >= Step * Top
    BY <1>1, <1>4, SMTT(30)
  <2>2. Step * q \in Int /\ Step * Top = Top * Step /\ Step * Top \in Int
    BY <1>1, <1>4
  <2>3. QED
    BY <1>3, <1>4, <2>1, <2>2
<1>7. q \in Levels
  BY <1>1, <1>4, <1>5, <1>6 DEF Levels
<1>8. QED
  BY <1>2, <1>7 DEF LevelOf, q

\* The unsigned difference is small exactly for what Near names.
LEMMA FarOrNear ==
  ASSUME progress \in UInt, last \in UInt
  PROVE  ~Far <=> Near
<1>1. Width \in Nat /\ Width >= 1 /\ Threshold \in Nat /\ Threshold <= Width - 1
  BY WidthPositive, ProgressAssumption DEF UInt
<1> DEFINE d == progress - last
<1>2. d \in Int /\ d >= 1 - Width /\ d <= Width - 1
  BY <1>1 DEF UInt
<1> HIDE DEF d
<1>3. CASE d >= 0
  <2>1. d % Width = d
    BY <1>1, <1>2, <1>3
  <2>2. d % Width > Threshold <=> ~(d \in 0 .. Threshold)
    BY <1>1, <1>2, <1>3, <2>1
  <2>3. d \notin 1 - Width .. Threshold - Width
    BY <1>1, <1>2, <1>3
  <2>4. QED
    BY <2>2, <2>3 DEF Far, Near, d
<1>4. CASE d < 0
  <2>1. d % Width = d + Width
    BY <1>1, <1>2, <1>4
  <2>2. d % Width > Threshold <=> ~(d \in 1 - Width .. Threshold - Width)
    BY <1>1, <1>2, <1>4, <2>1
  <2>3. d \notin 0 .. Threshold
    BY <1>1, <1>4
  <2>4. QED
    BY <2>2, <2>3 DEF Far, Near, d
<1>5. QED
  BY <1>2, <1>3, <1>4

-----------------------------------------------------------------------------
(* The invariant.                                                          *)

LEMMA ProgressInit == Init => IInv
<1>1. 0 \in Levels /\ 0 \in UInt /\ 0 \in 0 .. MaxUpdates /\ 0 \in 0 .. MaxRequests
  BY ProgressAssumption, WidthPositive DEF Levels, UInt
<1>2. None \in [Levels -> 0 .. MaxRequests] /\ \A l \in Levels : None[l] + None[l] <= MaxRequests
  BY ProgressAssumption DEF None
<1>3. QED
  BY <1>1, <1>2 DEF Init, IInv, TypeOK

\* A request is made only when there is room for it, or it is lost.
LEMMA RequestKeepsBound ==
  ASSUME IInv, NEW l \in Levels, Request(l)
  PROVE  /\ sent' \in [Levels -> 0 .. MaxRequests]
         /\ \A m \in Levels : sent'[m] + told[m] <= MaxRequests
<1>1. MaxRequests \in Nat
  BY ProgressAssumption
<1>2. QED
  BY <1>1 DEF IInv, TypeOK, Request, Plus

LEMMA ProgressStep == IInv /\ [Next]_vars => IInv'
<1> SUFFICES ASSUME IInv, [Next]_vars
             PROVE  IInv'
  OBVIOUS
<1>0. TypeOK /\ MaxUpdates \in Nat /\ MaxRequests \in Nat /\ 0 \in Levels /\ Top \in Levels
  BY ProgressAssumption DEF IInv, Levels
<1> USE DEF job_vars, notifier_vars, server_vars, vars
<1>1. ASSUME NEW level \in -1 .. Top + 1, Store(level)
      PROVE  IInv'
  <2>1. Clamp(level) \in Levels
    BY <1>1, ProgressAssumption DEF Store, Clamp, Levels
  <2>2. progress' \in UInt
    BY <1>1, <2>1, ScaleType DEF Store
  <2>3. QED
    BY <1>0, <1>1, <2>1, <2>2 DEF Store, IInv, TypeOK
<1>2. CASE Compare
  <2>1. CASE Far
    BY <1>0, <1>2, <2>1 DEF Compare, Wake, IInv, TypeOK
  <2>2. CASE ~Far
    <3>1. Near
      BY <1>0, <2>2, FarOrNear DEF TypeOK
    <3>2. Near'
      BY <1>2, <3>1 DEF Compare, Near
    <3>3. QED
      BY <1>2, <2>2, <3>2 DEF Compare, IInv, TypeOK
  <2>3. QED
    BY <2>1, <2>2
<1>3. CASE FirstNotify
  BY <1>0, <1>3, RequestKeepsBound DEF FirstNotify, IInv, TypeOK
<1>4. CASE Test
  <2>1. ~Far => Near
    BY <1>0, FarOrNear DEF TypeOK
  <2>2. Near' <=> Near
    BY <1>4 DEF Test, Near
  <2>3. QED
    BY <1>4, <2>1, <2>2 DEF Test, IInv, TypeOK
<1>5. CASE Block
  BY <1>5 DEF Block, IInv, TypeOK, Near
<1>6. CASE TimeOut
  BY <1>6 DEF TimeOut, IInv, TypeOK
<1>7. CASE SendProgress
  <2>1. LevelOf(progress) \in Levels
    BY <1>0, LevelOfType DEF TypeOK
  <2>2. QED
    BY <1>7, <2>1, RequestKeepsBound DEF SendProgress, IInv, TypeOK
<1>8. ASSUME NEW l \in Levels, TellPages(l)
      PROVE  IInv'
  <2>1. \A m \in Levels : sent[m] \in Nat /\ told[m] \in Nat /\ sent[m] + told[m] <= MaxRequests
    BY <1>0 DEF IInv, TypeOK
  <2>2. sent' \in [Levels -> 0 .. MaxRequests] /\ told' \in [Levels -> 0 .. MaxRequests]
    BY <1>0, <1>8, <2>1 DEF TellPages, Plus, Minus, TypeOK
  <2>3. \A m \in Levels : sent'[m] + told'[m] <= MaxRequests
    BY <1>0, <1>8, <2>1 DEF TellPages, Plus, Minus, TypeOK
  <2>4. QED
    BY <1>8, <2>2, <2>3 DEF TellPages, IInv, TypeOK, Near
<1>9. ASSUME NEW l \in Levels, JobProgress(l)
      PROVE  IInv'
  <2>1. told' \in [Levels -> 0 .. MaxRequests] /\ \A m \in Levels : told'[m] <= told[m]
    BY <1>0, <1>9 DEF JobProgress, Minus, TypeOK
  <2>2. \A m \in Levels : sent[m] + told'[m] <= MaxRequests
    BY <1>0, <2>1 DEF IInv, TypeOK
  <2>3. QED
    BY <1>9, <2>1, <2>2 DEF JobProgress, IInv, TypeOK, Near
<1>10. CASE Exit
  BY <1>10 DEF Exit, IInv, TypeOK
<1>11. CASE UNCHANGED vars
  BY <1>11 DEF IInv, TypeOK, Near
<1>12. QED
  BY <1>1, <1>2, <1>3, <1>4, <1>5, <1>6, <1>7, <1>8, <1>9, <1>10, <1>11 DEF Next, Tick, Handle

LEMMA ProgressInvariant == Spec => []IInv
  BY ProgressInit, ProgressStep, PTL DEF Spec

\* Every variable keeps its type: in particular no conversion leaves the width
\* of the integers, and what is sent for a value is a level.
THEOREM ProgressTypes == Spec => []TypeOK
<1>1. IInv => TypeOK
  BY DEF IInv
<1>2. QED
  BY <1>1, ProgressInvariant, PTL

\* A notifier that is blocked has nothing new to send, or missed a
\* notification, on integers of any width that wrap as those of the code do.
THEOREM BlockedHasNoNews == Spec => []BlockedIsUpToDate
<1>1. IInv => BlockedIsUpToDate
  BY DEF IInv, BlockedIsUpToDate
<1>2. QED
  BY <1>1, ProgressInvariant, PTL
=============================================================================
