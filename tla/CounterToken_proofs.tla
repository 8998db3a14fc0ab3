------------------------- MODULE CounterToken_proofs -------------------------
(***************************************************************************)
(* Proofs about CounterToken, for all jobs, tokens, dependencies, needs,   *)
(* limits and widths.                                                      *)
(***************************************************************************)
EXTENDS CounterToken, TokenUnits_proofs, SequenceTheorems

-----------------------------------------------------------------------------
(* Counting modulo Width.                                                  *)

LEMMA WidthPositive == Width \in Nat /\ Width > 0
  BY CounterAssumption

\* A remainder, and what it is the remainder of.
LEMMA ModParts ==
  ASSUME NEW x \in Int
  PROVE  /\ x % Width \in UInt
         /\ \E q \in Int : x = Width * q + (x % Width)
<1>1. Width \in Int /\ Width > 0
  BY WidthPositive
<1>2. x % Width \in 0 .. Width - 1
  BY <1>1
<1>3. x \div Width \in Int /\ x = Width * (x \div Width) + (x % Width)
  BY <1>1
<1>4. QED
  BY <1>2, <1>3 DEF UInt

\* There is one remainder.
LEMMA ModUnique ==
  ASSUME NEW x \in Int, NEW q \in Int, NEW r \in UInt, x = Width * q + r
  PROVE  x % Width = r
<1>1. Width \in Int /\ Width > 0 /\ r \in Int /\ 0 <= r /\ r < Width
  BY WidthPositive DEF UInt
<1>2. PICK p \in Int : x = Width * p + (x % Width)
  BY ModParts
<1> DEFINE s == x % Width
<1>3. s \in Int /\ 0 <= s /\ s < Width
  BY <1>1, ModParts DEF UInt
<1> HIDE DEF s
<1>4. Width * q + r = Width * p + s
  BY <1>2 DEF s
<1>5. q = p
  <2>1. ASSUME NEW a \in Int, NEW b \in Int, a > b PROVE Width * a >= Width * b + Width
    <3>1. PICK c \in Nat : a = b + 1 + c
      <4>1. a - b - 1 \in Nat /\ a = b + 1 + (a - b - 1)
        BY <2>1
      <4>2. QED
        BY <4>1
    <3>2. Width * a = Width * b + Width + Width * c
      BY <1>1, <3>1
    <3>3. Width * c >= 0 /\ Width * c \in Int /\ Width * b \in Int
      BY <1>1, SMTT(30)
    <3>4. QED
      BY <1>1, <3>2, <3>3
  <2>2. Width * q \in Int /\ Width * p \in Int
    BY <1>1
  <2>3. ~(q > p) /\ ~(p > q)
    BY <1>1, <1>3, <1>4, <2>1, <2>2
  <2>4. QED
    BY <2>3
<1>6. r = s
  <2>1. Width * q \in Int
    BY <1>1
  <2>2. QED
    BY <1>1, <1>3, <1>4, <1>5, <2>1
<1>7. QED
  BY <1>6 DEF s

\* Sums and differences may be taken on the remainders.
LEMMA PlusMod ==
  ASSUME NEW x \in Int, NEW n \in Int
  PROVE  Plus(x % Width, n) = (x + n) % Width
<1>1. Width \in Int
  BY WidthPositive
<1> DEFINE a == x % Width
           b == (a + n) % Width
<1>2. a \in Int /\ b \in UInt
  BY ModParts DEF UInt
<1>3. PICK p \in Int : x = Width * p + a
  BY ModParts
<1>4. PICK q \in Int : a + n = Width * q + b
  BY <1>2, ModParts
<1>5. b \in Int
  BY <1>2 DEF UInt
<1> HIDE DEF a, b
<1>6. x + n = Width * (p + q) + b
  BY <1>1, <1>2, <1>3, <1>4, <1>5
<1>7. (x + n) % Width = b
  BY <1>2, <1>6, ModUnique
<1>8. QED
  BY <1>7 DEF a, b, Plus

LEMMA MinusMod ==
  ASSUME NEW x \in Int, NEW n \in Int
  PROVE  Minus((x + n) % Width, n) = x % Width
<1>1. Plus((x + n) % Width, 0 - n) = ((x + n) + (0 - n)) % Width
  BY PlusMod
<1>2. (x + n) + (0 - n) = x
  OBVIOUS
<1>3. (x + n) % Width \in Int
  BY ModParts DEF UInt
<1>4. ((x + n) % Width) + (0 - n) = ((x + n) % Width) - n
  BY <1>3
<1>5. QED
  BY <1>1, <1>2, <1>4 DEF Plus, Minus

LEMMA ModSmall ==
  ASSUME NEW x \in UInt
  PROVE  x % Width = x
<1>1. x \in Int /\ x = Width * 0 + x
  BY WidthPositive DEF UInt
<1>2. QED
  BY <1>1, ModUnique

-----------------------------------------------------------------------------
(* Sequences of dependencies.                                              *)

\* What a sequence holds.
In(s) == {s[i] : i \in DOMAIN s}
Once(s) == \A i, k \in DOMAIN s : s[i] = s[k] => i = k

\* One more at the end.
LEMMA AppendIn ==
  ASSUME NEW s \in Seq(AllDeps), NEW d \in AllDeps
  PROVE  /\ Append(s, d) \in Seq(AllDeps)
         /\ Len(s) \in Nat /\ Len(Append(s, d)) = Len(s) + 1
         /\ \A i \in DOMAIN s : Append(s, d)[i] = s[i]
         /\ Append(s, d)[Len(s) + 1] = d
         /\ DOMAIN Append(s, d) = DOMAIN s \cup {Len(s) + 1}
         /\ In(Append(s, d)) = In(s) \cup {d}
         /\ Once(s) /\ d \notin In(s) => Once(Append(s, d))
<1> DEFINE a == Append(s, d)
<1>1. Len(s) \in Nat /\ DOMAIN s = 1 .. Len(s)
  BY LenProperties
<1>2. /\ a \in Seq(AllDeps) /\ Len(a) = Len(s) + 1
      /\ \A i \in 1 .. Len(s) : a[i] = s[i]
      /\ a[Len(s) + 1] = d
  BY AppendProperties
<1>3. DOMAIN a = 1 .. Len(s) + 1
  BY <1>2, LenProperties
<1> HIDE DEF a
<1>4. DOMAIN a = DOMAIN s \cup {Len(s) + 1} /\ Len(s) + 1 \notin DOMAIN s
  BY <1>1, <1>3
<1>5. In(a) = In(s) \cup {d}
  BY <1>1, <1>2, <1>4 DEF In
<1>6. ASSUME Once(s), d \notin In(s) PROVE Once(a)
  BY <1>1, <1>2, <1>4, <1>6 DEF In, Once
<1>7. QED
  BY <1>1, <1>2, <1>4, <1>5, <1>6 DEF a

\* One less at the head.
LEMMA TailIn ==
  ASSUME NEW s \in Seq(AllDeps), s # <<>>
  PROVE  /\ Head(s) \in AllDeps /\ Tail(s) \in Seq(AllDeps)
         /\ In(s) = In(Tail(s)) \cup {Head(s)}
         /\ Once(s) => Once(Tail(s)) /\ Head(s) \notin In(Tail(s))
<1> DEFINE t == Tail(s)
           h == Head(s)
<1>1. Len(s) \in Nat \ {0} /\ DOMAIN s = 1 .. Len(s)
  BY LenProperties, EmptySeq
<1>2. /\ h \in AllDeps /\ t \in Seq(AllDeps) /\ Len(t) = Len(s) - 1
      /\ \A i \in 1 .. Len(t) : t[i] = s[i + 1]
  BY HeadTailProperties
<1>3. DOMAIN t = 1 .. Len(s) - 1 /\ h = s[1]
  BY <1>2, LenProperties
<1> HIDE DEF t, h
<1>4. \A i \in DOMAIN t : i \in Int /\ i + 1 \in DOMAIN s /\ i + 1 # 1 /\ t[i] = s[i + 1]
  BY <1>1, <1>2, <1>3
<1>5. 1 \in DOMAIN s /\ \A i \in DOMAIN s : i = 1 \/ (i - 1 \in DOMAIN t /\ (i - 1) + 1 = i)
  BY <1>1, <1>3
<1>6. In(s) = In(t) \cup {h}
  <2>1. In(t) \cup {h} \subseteq In(s)
    BY <1>3, <1>4, <1>5 DEF In
  <2>2. ASSUME NEW i \in DOMAIN s PROVE s[i] \in In(t) \cup {h}
    <3>1. CASE i = 1
      BY <3>1, <1>3
    <3>2. CASE i # 1
      <4>1. i - 1 \in DOMAIN t /\ t[i - 1] = s[i]
        BY <3>2, <1>4, <1>5
      <4>2. QED
        BY <4>1 DEF In
    <3>3. QED
      BY <3>1, <3>2
  <2>3. QED
    BY <2>1, <2>2 DEF In
<1>7. ASSUME Once(s) PROVE Once(t) /\ h \notin In(t)
  <2>1. Once(t)
    <3> SUFFICES ASSUME NEW i \in DOMAIN t, NEW k \in DOMAIN t, t[i] = t[k] PROVE i = k
      BY DEF Once
    <3>1. i + 1 = k + 1
      BY <1>4, <1>7 DEF Once
    <3>2. QED
      BY <1>4, <3>1
  <2>2. h \notin In(t)
    BY <1>3, <1>4, <1>5, <1>7 DEF In, Once
  <2>3. QED
    BY <2>1, <2>2
<1>8. QED
  BY <1>2, <1>6, <1>7 DEF t, h

-----------------------------------------------------------------------------
(* Types.                                                                  *)

PendingType == [dep : AllDeps \cup {Nobody}, read : UInt \cup {0, 1}]

LEMMA NothingType == Nothing \in PendingType
  BY DEF Nothing, PendingType

\* A dependency, and what was read for it.
LEMMA PendingOf ==
  ASSUME NEW d \in AllDeps, NEW n \in UInt \cup {0, 1}
  PROVE  LET m == [dep |-> d, read |-> n] IN m \in PendingType /\ m # Nothing /\ m.dep = d /\ m.read = n
<1>1. d # Nobody
  BY CounterAssumption
<1>2. QED
  BY <1>1 DEF Nothing, PendingType

\* The dependencies of a job, one after the other.
LEMMA DepsOfJob ==
  ASSUME NEW j \in Jobs
  PROVE  Deps[j] \in Seq(AllDeps) /\ Len(Deps[j]) \in Nat /\ DOMAIN Deps[j] = 1 .. Len(Deps[j])
  BY CounterAssumption

LEMMA RunnerJob ==
  ASSUME NEW r \in Runners
  PROVE  r[1] \in Jobs
  BY DEF Runners

LEMMA TargetType ==
  ASSUME NEW d \in AllDeps
  PROVE  TargetOf(d) \in Jobs
<1>1. \E j \in Jobs : \E i \in DOMAIN Deps[j] : Deps[j][i] = d
  BY DEF AllDeps
<1>2. QED
  BY <1>1 DEF TargetOf

\* The next dependency of a runner that has not locked them all.
LEMMA NextDep ==
  ASSUME Typed, LocksInv, NEW r \in Runners, pc[r] = "locking", ~Locked(r)
  PROVE  Next1(r) \in AllDeps /\ Len(locks[r]) + 1 \in DOMAIN Deps[r[1]] /\ Len(locks[r]) \in Nat
<1>1. Len(locks[r]) \in Nat /\ Len(locks[r]) < Len(Deps[r[1]])
  BY DepsOfJob, RunnerJob DEF Typed, LocksInv, Locked
<1>2. Len(locks[r]) + 1 \in 1 .. Len(Deps[r[1]])
  BY <1>1, DepsOfJob, RunnerJob
<1>3. QED
  BY <1>1, <1>2, DepsOfJob, RunnerJob DEF Next1

LEMMA TokenTypes ==
  ASSUME Typed, NEW d \in AllDeps
  PROVE  /\ Origin[d] \in Tokens /\ need[d] \in UInt \ {0} /\ need[d] \in Int
         /\ used[Origin[d]] \in UInt /\ used[Origin[d]] \in Int
         /\ limit[Origin[d]] \in UInt /\ limit[Origin[d]] \in Int
<1>1. Origin[d] \in Tokens
  BY CounterAssumption
<1>2. need[d] \in UInt \ {0} /\ used[Origin[d]] \in UInt /\ limit[Origin[d]] \in UInt
  BY <1>1, CounterAssumption DEF Typed
<1>3. QED
  BY <1>1, <1>2 DEF UInt

LEMMA SumType ==
  ASSUME NEW x \in Int, NEW y \in Int
  PROVE  Plus(x, y) \in UInt /\ Minus(x, y) \in UInt
<1>1. x + y \in Int /\ x - y \in Int
  OBVIOUS
<1>2. QED
  BY <1>1, ModParts DEF Plus, Minus

LEMMA TypeInit == Init => Typed
<1> SUFFICES ASSUME Init PROVE Typed
  OBVIOUS
<1>1. \A j \in Jobs : Cardinality({i \in DOMAIN Deps[j] : oldStatus[Deps[j][i]] # "OK"}) \in Nat
  <2> SUFFICES ASSUME NEW j \in Jobs
               PROVE  Cardinality({i \in DOMAIN Deps[j] : oldStatus[Deps[j][i]] # "OK"}) \in Nat
    OBVIOUS
  <2>1. IsFiniteSet(1 .. Len(Deps[j]))
    BY DepsOfJob, FS_Interval
  <2>2. IsFiniteSet({i \in DOMAIN Deps[j] : oldStatus[Deps[j][i]] # "OK"})
    BY <2>1, DepsOfJob, FS_Subset
  <2>3. QED
    BY <2>2, FS_CardinalityType
<1>2. unsatisfied \in [Jobs -> Int]
  BY <1>1 DEF Init
<1>3. used \in [Tokens -> UInt] /\ limit \in [Tokens -> UInt]
  BY CounterAssumption DEF Init, UInt
<1>4. pending \in [Runners -> PendingType]
  BY NothingType DEF Init
<1>5. pc \in [Runners -> PCs]
  BY DEF Init, PCs
<1>6. oldStatus \in [AllDeps -> {"OK", "WAIT"}]
  BY DEF Init, Status
<1>7. locks \in [Runners -> Seq(AllDeps)]
  BY DEF Init
<1>8. QED
  BY <1>2, <1>3, <1>4, <1>5, <1>6, <1>7 DEF Init, Typed, PendingType

\* What an addition or a subtraction leaves in the counter.
LEMMA UsedTypes ==
  ASSUME Typed, NEW r \in Runners, pending[r].dep \in AllDeps
  PROVE  LET d == pending[r].dep
             t == Origin[d]
         IN  \A base \in {pending[r].read, used[t]} :
               /\ [used EXCEPT ![t] = Plus(base, need[d])] \in [Tokens -> UInt]
               /\ [used EXCEPT ![t] = Minus(base, need[d])] \in [Tokens -> UInt]
<1> DEFINE d == pending[r].dep
           t == Origin[d]
<1>1. pending[r] \in PendingType /\ used \in [Tokens -> UInt]
  BY DEF Typed, PendingType
<1>2. pending[r].read \in Int
  BY <1>1 DEF PendingType, UInt
<1>3. t \in Tokens /\ need[d] \in Int /\ used[t] \in Int
  BY TokenTypes
<1> HIDE DEF d, t
<1>4. ASSUME NEW base \in Int
      PROVE  /\ [used EXCEPT ![t] = Plus(base, need[d])] \in [Tokens -> UInt]
             /\ [used EXCEPT ![t] = Minus(base, need[d])] \in [Tokens -> UInt]
  <2>1. Plus(base, need[d]) \in UInt /\ Minus(base, need[d]) \in UInt
    BY <1>3, SumType
  <2>2. QED
    BY <1>1, <2>1
<1>5. QED
  BY <1>2, <1>3, <1>4 DEF d, t

\* What a runner does to its own variables.
LEMMA RunnerTypes ==
  ASSUME Typed, PendingInv, LocksInv, NEW r \in Runners, RunnerStep(r)
  PROVE  Typed'
<1>0. /\ need \in Needs /\ used \in [Tokens -> UInt] /\ limit \in [Tokens -> UInt]
      /\ oldStatus \in [AllDeps -> {"OK", "WAIT"}] /\ unsatisfied \in [Jobs -> Int]
      /\ state \in [Jobs -> {"WAITING", "READY", "RUNNING", "DONE"}]
      /\ mutex \in Runners \cup {Nobody} /\ pc \in [Runners -> PCs]
      /\ locks \in [Runners -> Seq(AllDeps)] /\ pending \in [Runners -> PendingType]
      /\ todo \in [Runners -> SUBSET AllDeps] /\ disturbed \subseteq {"race", "limit"}
  BY DEF Typed, PendingType
<1>00. ASSUME /\ need' \in Needs /\ used' \in [Tokens -> UInt] /\ limit' \in [Tokens -> UInt]
              /\ oldStatus' \in [AllDeps -> {"OK", "WAIT"}] /\ unsatisfied' \in [Jobs -> Int]
              /\ state' \in [Jobs -> {"WAITING", "READY", "RUNNING", "DONE"}]
              /\ mutex' \in Runners \cup {Nobody} /\ pc' \in [Runners -> PCs]
              /\ locks' \in [Runners -> Seq(AllDeps)] /\ pending' \in [Runners -> PendingType]
              /\ todo' \in [Runners -> SUBSET AllDeps] /\ disturbed' \subseteq {"race", "limit"}
       PROVE  Typed'
  BY <1>00 DEF Typed, PendingType
<1> USE <1>0, RunnerJob, NothingType DEF counters
<1>1. CASE Enter(r) \/ GiveUp(r) \/ Run(r) \/ Complete(r) \/ End(r)
  BY <1>00, <1>1 DEF Enter, GiveUp, Run, Complete, End, PCs
<1>2. CASE Share(r)
  <2>1. locks' \in [Runners -> Seq(AllDeps)]
    BY <1>2, NextDep DEF Share
  <2>2. QED
    BY <1>00, <1>2, <2>1 DEF Share
<1>3. CASE Acquire(r)
  <2> DEFINE d == Next1(r)
             m == [dep |-> d, read |-> used[Origin[d]]]
  <2>1. d \in AllDeps /\ m \in PendingType
    BY <1>3, NextDep, TokenTypes, PendingOf DEF Acquire
  <2>2. \/ todo' = [todo EXCEPT ![r] = {d}] /\ pc' = [pc EXCEPT ![r] = "refused"] /\ pending' = pending
        \/ todo' = todo /\ pc' = [pc EXCEPT ![r] = "adding"] /\ pending' = [pending EXCEPT ![r] = m]
    BY <1>3 DEF Acquire
  <2> HIDE DEF d, m
  <2>3. pc' \in [Runners -> PCs]
    BY <2>2 DEF PCs
  <2>4. todo' \in [Runners -> SUBSET AllDeps]
    <3>1. {d} \in SUBSET AllDeps
      BY <2>1
    <3>2. CASE todo' = [todo EXCEPT ![r] = {d}]
      BY <3>1, <3>2
    <3>3. QED
      BY <2>2, <3>2
  <2>5. pending' \in [Runners -> PendingType]
    <3>1. CASE pending' = [pending EXCEPT ![r] = m]
      BY <2>1, <3>1
    <3>2. CASE pending' = pending
      BY <3>2
    <3>3. QED
      BY <2>2, <3>1, <3>2
  <2>6. QED
    BY <1>00, <1>3, <2>3, <2>4, <2>5 DEF Acquire
<1>4. CASE Add(r)
  <2>1. pending[r].dep \in AllDeps
    BY <1>4 DEF Add, PendingInv
  <2>2. used' \in [Tokens -> UInt]
    BY <1>4, <2>1, UsedTypes DEF Add
  <2>3. disturbed' \subseteq {"race", "limit"}
    BY <1>4 DEF Add, Note
  <2>4. pending' \in [Runners -> PendingType]
    BY <1>4 DEF Add
  <2>5. pc' \in [Runners -> PCs]
    BY <1>4 DEF Add, PCs
  <2>6. locks' \in [Runners -> Seq(AllDeps)]
    <3>1. Append(locks[r], pending[r].dep) \in Seq(AllDeps)
      BY <2>1, AppendIn
    <3>2. locks' = [locks EXCEPT ![r] = Append(locks[r], pending[r].dep)]
      BY <1>4 DEF Add
    <3>3. QED
      BY <3>1, <3>2
  <2>7. QED
    BY <1>00, <1>4, <2>2, <2>3, <2>4, <2>5, <2>6 DEF Add
<1>5. CASE Subtract(r)
  <2>1. pending[r].dep \in AllDeps
    BY <1>5 DEF Subtract, PendingInv, Subtracting
  <2>2. used' \in [Tokens -> UInt]
    <3> DEFINE d == pending[r].dep
               t == Origin[d]
    <3>1. PICK base \in {pending[r].read, used[t]} : used' = [used EXCEPT ![t] = Minus(base, need[d])]
      BY <1>5 DEF Subtract
    <3>2. [used EXCEPT ![t] = Minus(base, need[d])] \in [Tokens -> UInt]
      BY <2>1, UsedTypes
    <3>3. QED
      BY <3>1, <3>2
  <2>3. disturbed' \subseteq {"race", "limit"}
    BY <1>5 DEF Subtract, Note
  <2>4. pending' \in [Runners -> PendingType]
    BY <1>5 DEF Subtract
  <2>5. pc' \in [Runners -> PCs]
    BY <1>5 DEF Subtract, PCs
  <2>6. todo' \in [Runners -> SUBSET AllDeps]
    BY <1>5 DEF Subtract, Dependents
  <2>7. QED
    BY <1>00, <1>5, <2>2, <2>3, <2>4, <2>5, <2>6 DEF Subtract
<1>6. CASE Drop(r) \/ Release(r)
  <2>1. Head(locks[r]) \in AllDeps /\ Tail(locks[r]) \in Seq(AllDeps)
    BY <1>6, TailIn DEF Drop, Release
  <2>2. locks' = [locks EXCEPT ![r] = Tail(locks[r])]
    BY <1>6 DEF Drop, Release
  <2>3. locks' \in [Runners -> Seq(AllDeps)]
    BY <2>1, <2>2
  <2>4. CASE Drop(r)
    BY <1>00, <2>3, <2>4 DEF Drop
  <2>5. CASE Release(r)
    <3> DEFINE d == Head(locks[r])
               m == [dep |-> d, read |-> used[Origin[d]]]
    <3>1. m \in PendingType
      BY <2>1, TokenTypes, PendingOf
    <3>2. pending' = [pending EXCEPT ![r] = m]
      BY <2>5 DEF Release
    <3> HIDE DEF d, m
    <3>3. pending' \in [Runners -> PendingType]
      BY <3>1, <3>2
    <3>4. pc' \in [Runners -> PCs]
      BY <2>5 DEF Release, PCs
    <3>5. QED
      BY <1>00, <2>3, <2>5, <3>3, <3>4 DEF Release
  <2>6. QED
    BY <1>6, <2>4, <2>5
<1>7. ASSUME NEW d \in AllDeps, CheckSame(r, d) PROVE Typed'
  BY <1>00, <1>7 DEF CheckSame
<1>8. ASSUME NEW d \in AllDeps, CheckRead(r, d) PROVE Typed'
  <2> DEFINE m == [dep |-> d, read |-> Ok(Status(d))]
  <2>1. m \in PendingType
    BY PendingOf DEF Ok
  <2>2. pending' = [pending EXCEPT ![r] = m]
    BY <1>8 DEF CheckRead
  <2> HIDE DEF m
  <2>3. pending' \in [Runners -> PendingType]
    BY <2>1, <2>2
  <2>4. QED
    BY <1>00, <1>8, <2>3 DEF CheckRead
<1>9. CASE Changed(r)
  <2> DEFINE d == pending[r].dep
             s == IF pending[r].read = 1 THEN "OK" ELSE "WAIT"
  <2>1. d \in AllDeps /\ TargetOf(d) \in Jobs /\ s \in {"OK", "WAIT"}
    BY <1>9, TargetType DEF Changed, PendingInv
  <2>2. Unsatisfied(d, s) \in Int
    BY <2>1 DEF Unsatisfied, Ok
  <2>3. unsatisfied' \in [Jobs -> Int] /\ oldStatus' \in [AllDeps -> {"OK", "WAIT"}]
    BY <1>9, <2>1, <2>2 DEF Changed
  <2>4. pc' \in [Runners -> PCs]
    BY <1>9 DEF Changed, PCs
  <2>5. disturbed' \subseteq {"race", "limit"} /\ pending' \in [Runners -> PendingType]
    BY <1>9 DEF Changed, Note
  <2>6. QED
    BY <1>00, <1>9, <2>3, <2>4, <2>5 DEF Changed
<1>10. QED
  BY <1>1, <1>2, <1>3, <1>4, <1>5, <1>6, <1>7, <1>8, <1>9 DEF RunnerStep

LEMMA TypeStep ==
  ASSUME Typed, PendingInv, LocksInv, [Next]_vars
  PROVE  Typed'
<1>1. ASSUME NEW t \in Tokens, NEW n \in NewLimits, SetLimit(t, n) PROVE Typed'
  <2>1. n \in UInt
    BY CounterAssumption
  <2>2. limit' \in [Tokens -> UInt] /\ disturbed' \subseteq {"race", "limit"}
    BY <1>1, <2>1 DEF SetLimit, Note, Typed
  <2>3. QED
    BY <1>1, <2>2 DEF SetLimit, Typed, counters
<1>2. CASE UNCHANGED vars
  BY <1>2 DEF vars, counters, Typed
<1>3. QED
  BY <1>1, <1>2, RunnerTypes DEF Next, Rest

-----------------------------------------------------------------------------
(* Steps.                                                                  *)

\* A runner changes its own variables; another runner may be started.
LEMMA OthersKept ==
  ASSUME Typed, NEW r \in Runners, RunnerStep(r), NEW q \in Runners, q # r
  PROVE  /\ locks'[q] = locks[q] /\ pending'[q] = pending[q] /\ todo'[q] = todo[q]
         /\ pc'[q] = pc[q] \/ (pc[q] = "idle" /\ pc'[q] = "starting")
<1>1. /\ pc \in [Runners -> PCs] /\ locks \in [Runners -> Seq(AllDeps)]
      /\ todo \in [Runners -> SUBSET AllDeps] /\ pending \in [Runners -> PendingType]
  BY DEF Typed, PendingType
<1> DEFINE Kept(f, g) == \E x : g = [f EXCEPT ![r] = x]
<1>2. ASSUME NEW f, NEW g, NEW S, f \in [Runners -> S], g = f \/ Kept(f, g) PROVE g[q] = f[q]
  BY <1>2
<1> DEFINE Goal == /\ locks' = locks \/ Kept(locks, locks')
                   /\ pending' = pending \/ Kept(pending, pending')
                   /\ todo' = todo \/ Kept(todo, todo')
<1>3. Goal
  <2>1. CASE Enter(r) \/ Share(r) \/ Add(r) \/ GiveUp(r) \/ Run(r) \/ Complete(r)
    BY <2>1 DEF Enter, Share, Add, GiveUp, Run, Complete
  <2>2. CASE Acquire(r)
    BY <2>2 DEF Acquire
  <2>3. CASE Drop(r) \/ Release(r) \/ Subtract(r) \/ End(r)
    BY <2>3 DEF Drop, Release, Subtract, End
  <2>4. CASE \E d \in AllDeps : CheckSame(r, d) \/ CheckRead(r, d)
    BY <2>4 DEF CheckSame, CheckRead
  <2>5. CASE Changed(r)
    BY <2>5 DEF Changed
  <2>6. QED
    BY <2>1, <2>2, <2>3, <2>4, <2>5 DEF RunnerStep
<1> DEFINE Woken(p) == pc[p] = "idle" /\ pc' = [pc EXCEPT ![p] = "starting"]
<1>4. pc' = pc \/ Kept(pc, pc') \/ \E p : Woken(p)
  <2>1. CASE Enter(r) \/ Share(r) \/ Add(r) \/ GiveUp(r) \/ Run(r) \/ Complete(r)
    BY <2>1 DEF Enter, Share, Add, GiveUp, Run, Complete
  <2>2. CASE Acquire(r) \/ Drop(r) \/ Release(r) \/ Subtract(r) \/ End(r)
    BY <2>2 DEF Acquire, Drop, Release, Subtract, End
  <2>3. CASE \E d \in AllDeps : CheckSame(r, d) \/ CheckRead(r, d)
    BY <2>3 DEF CheckSame, CheckRead
  <2>4. CASE Changed(r)
    BY <2>4 DEF Changed
  <2>5. QED
    BY <2>1, <2>2, <2>3, <2>4 DEF RunnerStep
<1>5. ASSUME NEW p, Woken(p) PROVE pc'[q] = pc[q] \/ (pc[q] = "idle" /\ pc'[q] = "starting")
  <2>1. p = q => pc[q] = "idle" /\ pc'[q] = "starting"
    BY <1>1, <1>5
  <2>2. p # q => pc'[q] = pc[q]
    BY <1>1, <1>5
  <2>3. QED
    BY <2>1, <2>2
<1>6. pc' = pc \/ Kept(pc, pc') => pc'[q] = pc[q]
  <2>1. pc \in [Runners -> PCs]
    BY <1>1
  <2>2. QED
    BY <1>2, <2>1
<1> HIDE DEF Kept, Woken
<1>7. pc'[q] = pc[q] \/ (pc[q] = "idle" /\ pc'[q] = "starting")
  BY <1>4, <1>5, <1>6
<1>8. locks'[q] = locks[q] /\ pending'[q] = pending[q] /\ todo'[q] = todo[q]
  BY <1>1, <1>2, <1>3
<1>9. QED
  BY <1>7, <1>8

\* What no runner changes, and what is only added to.
LEMMA NeverChanged ==
  ASSUME NEW r \in Runners, RunnerStep(r)
  PROVE  need' = need /\ limit' = limit /\ disturbed \subseteq disturbed'
<1>1. CASE Enter(r) \/ Share(r) \/ Acquire(r) \/ Add(r) \/ GiveUp(r) \/ Run(r) \/ Complete(r)
  BY <1>1 DEF Enter, Share, Acquire, Add, GiveUp, Run, Complete, Note
<1>2. CASE Drop(r) \/ Release(r) \/ Subtract(r) \/ End(r)
  BY <1>2 DEF Drop, Release, Subtract, End, Note
<1>3. CASE \E d \in AllDeps : CheckSame(r, d) \/ CheckRead(r, d)
  BY <1>3 DEF CheckSame, CheckRead
<1>4. CASE Changed(r)
  BY <1>4 DEF Changed, Note
<1>5. QED
  BY <1>1, <1>2, <1>3, <1>4 DEF RunnerStep

Counting(r) == pc[r] = "adding" \/ Subtracting(r)

\* A step takes or gives back, or it is none of the counters' business.
LEMMA Kinds ==
  ASSUME Typed, NEW r \in Runners, RunnerStep(r)
  PROVE  \/ Share(r) \/ Add(r) \/ Drop(r) \/ Release(r) \/ Subtract(r)
         \/ Acquire(r) /\ pc'[r] = "adding"
         \/ locks' = locks /\ used' = used /\ ~Counting(r) /\ ~Counting(r)'
<1>1. pc \in [Runners -> PCs]
  BY DEF Typed
<1> USE <1>1 DEF Counting, Subtracting, counters
<1>2. CASE Enter(r) \/ GiveUp(r) \/ Run(r) \/ Complete(r) \/ End(r)
  BY <1>2 DEF Enter, GiveUp, Run, Complete, End
<1>3. CASE Acquire(r)
  BY <1>3 DEF Acquire
<1>4. CASE \E d \in AllDeps : CheckSame(r, d) \/ CheckRead(r, d)
  BY <1>4 DEF CheckSame, CheckRead, Checking
<1>5. CASE Changed(r)
  BY <1>5 DEF Changed
<1>6. QED
  BY <1>2, <1>3, <1>4, <1>5 DEF RunnerStep

\* Steps that touch neither runners nor locks nor counters.
Beside == UNCHANGED << need, used, mutex, pc, locks, pending, todo >>

LEMMA SplitNext ==
  ASSUME [Next]_vars
  PROVE  \/ \E r \in Runners : RunnerStep(r)
         \/ Beside /\ UNCHANGED << limit, disturbed >>
         \/ Beside /\ disturbed' = disturbed \cup {"limit"}
  BY DEF Next, Rest, vars, counters, Beside, SetLimit, Note

-----------------------------------------------------------------------------
(* What a runner counts for, and the mutex.                                *)

LEMMA PendingStep ==
  ASSUME Typed, PendingInv, LocksInv, [Next]_vars
  PROVE  PendingInv'
<1>1. ASSUME NEW r \in Runners, RunnerStep(r) PROVE PendingInv'
  <2>0. /\ pc \in [Runners -> PCs] /\ locks \in [Runners -> Seq(AllDeps)]
        /\ pending \in [Runners -> PendingType]
    BY DEF Typed, PendingType
  <2>1. ASSUME NEW q \in Runners, q # r
        PROVE  /\ pending'[q] = Nothing \/ pending'[q].dep \in AllDeps
               /\ pc'[q] = "adding" \/ Subtracting(q)' => pending'[q].dep \in AllDeps
    BY <1>1, <2>1, OthersKept DEF PendingInv, Subtracting
  <2>2. /\ pending'[r] = Nothing \/ pending'[r].dep \in AllDeps
        /\ pc'[r] = "adding" \/ Subtracting(r)' => pending'[r].dep \in AllDeps
    <3> USE <2>0 DEF Subtracting
    <3>0. pending[r] = Nothing \/ pending[r].dep \in AllDeps
      BY DEF PendingInv
    <3>1. CASE Enter(r) \/ GiveUp(r) \/ Run(r) \/ Complete(r) \/ End(r) \/ Share(r) \/ Drop(r)
      BY <3>0, <3>1 DEF Enter, GiveUp, Run, Complete, End, Share, Drop
    <3>2. CASE Acquire(r)
      <4>1. Next1(r) \in AllDeps
        BY <3>2, NextDep DEF Acquire
      <4>2. CASE pc'[r] = "adding"
        BY <3>2, <4>1, <4>2 DEF Acquire
      <4>3. CASE pc'[r] # "adding"
        BY <3>0, <3>2, <4>3 DEF Acquire
      <4>4. QED
        BY <4>2, <4>3
    <3>3. CASE Add(r) \/ Subtract(r) \/ Changed(r)
      BY <3>3 DEF Add, Subtract, Changed
    <3>4. CASE Release(r)
      <4>1. Head(locks[r]) \in AllDeps
        BY <3>4, TailIn DEF Release
      <4>2. QED
        BY <3>4, <4>1 DEF Release
    <3>5. CASE \E d \in AllDeps : CheckSame(r, d) \/ CheckRead(r, d)
      <4>1. CASE \E d \in AllDeps : CheckSame(r, d)
        BY <3>0, <4>1 DEF CheckSame, Checking
      <4>2. ASSUME NEW d \in AllDeps, CheckRead(r, d)
            PROVE  pending'[r].dep = d /\ pc'[r] \in {"refused", "giving up", "clearing"}
        BY <4>2 DEF CheckRead, Checking
      <4>3. QED
        BY <3>5, <4>1, <4>2
    <3>6. QED
      BY <1>1, <3>1, <3>2, <3>3, <3>4, <3>5 DEF RunnerStep
  <2>3. QED
    BY <2>1, <2>2 DEF PendingInv
<1>2. CASE Beside
  BY <1>2 DEF Beside, PendingInv, Subtracting
<1>3. QED
  BY <1>1, <1>2, SplitNext

LEMMA MutexStep ==
  ASSUME Typed, MutexInv, [Next]_vars
  PROVE  MutexInv'
<1> DEFINE Inside == {"locking", "adding", "refused", "clearing", "subtracting"}
<1>1. ASSUME NEW r \in Runners, RunnerStep(r) PROVE MutexInv'
  <2>0. pc \in [Runners -> PCs] /\ Nobody \notin Runners
    BY CounterAssumption DEF Typed
  <2>1. ASSUME NEW q \in Runners, q # r, pc'[q] \in Inside PROVE mutex' = q
    <3>1. pc[q] \in Inside /\ mutex = q
      BY <1>1, <2>1, OthersKept DEF MutexInv
    <3>2. pc[r] \notin Inside /\ mutex # Nobody
      BY <2>0, <2>1, <3>1 DEF MutexInv
    <3>3. mutex' = mutex
      BY <1>1, <3>2 DEF RunnerStep, Enter, Share, Acquire, Add, GiveUp, Run, Complete, Drop,
            Release, Subtract, End, CheckSame, CheckRead, Changed
    <3>4. QED
      BY <3>1, <3>3
  <2>2. ASSUME pc'[r] \in Inside PROVE mutex' = r
    <3> USE <2>0, <2>2 DEF MutexInv
    <3>1. CASE Enter(r) \/ GiveUp(r) \/ Run(r) \/ Complete(r) \/ End(r)
      BY <3>1 DEF Enter, GiveUp, Run, Complete, End
    <3>2. CASE Share(r) \/ Drop(r) \/ Acquire(r) \/ Add(r)
      <4>1. (mutex' = mutex /\ pc[r] \in Inside) \/ Drop(r)
        BY <3>2 DEF Share, Acquire, Add
      <4>2. QED
        BY <4>1 DEF Drop, Share, Acquire, Add
    <3>3. CASE Release(r)
      BY <3>3 DEF Release
    <3>4. CASE Subtract(r)
      BY <3>4 DEF Subtract
    <3>5. CASE Changed(r)
      BY <3>5 DEF Changed
    <3>6. CASE \E d \in AllDeps : CheckSame(r, d) \/ CheckRead(r, d)
      BY <3>6 DEF CheckSame, CheckRead
    <3>7. QED
      BY <1>1, <3>1, <3>2, <3>3, <3>4, <3>5, <3>6 DEF RunnerStep
  <2>3. QED
    BY <2>1, <2>2 DEF MutexInv
<1>2. CASE Beside
  BY <1>2 DEF Beside, MutexInv
<1>3. QED
  BY <1>1, <1>2, SplitNext

-----------------------------------------------------------------------------
(* The locks.                                                              *)

\* A lock is live when some runner holds it.
LEMMA LiveIn ==
  /\ \A d : Live(d) <=> \E q \in Runners : d \in In(locks[q])
  /\ \A d : Live(d)' <=> \E q \in Runners : d \in In(locks'[q])
  BY DEF Live, In

LEMMA LiveGrows ==
  ASSUME Typed, NEW r \in Runners, NEW e \in AllDeps,
         locks' = [locks EXCEPT ![r] = Append(locks[r], e)]
  PROVE  \A d : Live(d)' <=> Live(d) \/ d = e
<1>1. locks \in [Runners -> Seq(AllDeps)]
  BY DEF Typed
<1>2. In(locks'[r]) = In(locks[r]) \cup {e}
  BY <1>1, AppendIn
<1>3. \A q \in Runners : q # r => locks'[q] = locks[q]
  BY <1>1
<1>4. QED
  BY <1>2, <1>3, LiveIn

LEMMA LiveShrinks ==
  ASSUME Typed, NEW r \in Runners, locks[r] # <<>>,
         locks' = [locks EXCEPT ![r] = Tail(locks[r])]
  PROVE  \A d : Live(d) <=> Live(d)' \/ d = Head(locks[r])
<1>1. locks \in [Runners -> Seq(AllDeps)]
  BY DEF Typed
<1>2. In(locks[r]) = In(locks'[r]) \cup {Head(locks[r])}
  BY <1>1, TailIn
<1>3. \A q \in Runners : q # r => locks'[q] = locks[q]
  BY <1>1
<1>4. QED
  BY <1>2, <1>3, LiveIn

\* Only a runner that takes a lock makes one live.
LEMMA LiveStep ==
  ASSUME Typed, PendingInv, LocksInv, NEW r \in Runners, RunnerStep(r), NEW d, Live(d)'
  PROVE  Live(d) \/ (pc[r] = "adding" /\ d = pending[r].dep)
<1>1. CASE Share(r)
  <2>1. Next1(r) \in AllDeps
    BY <1>1, NextDep DEF Share
  <2>2. locks' = [locks EXCEPT ![r] = Append(locks[r], Next1(r))] /\ Live(Next1(r))
    BY <1>1 DEF Share
  <2>3. QED
    BY <2>1, <2>2, LiveGrows
<1>2. CASE Add(r)
  <2>1. pc[r] = "adding" /\ pending[r].dep \in AllDeps
    BY <1>2 DEF Add, PendingInv
  <2>2. locks' = [locks EXCEPT ![r] = Append(locks[r], pending[r].dep)]
    BY <1>2 DEF Add
  <2>3. QED
    BY <2>1, <2>2, LiveGrows
<1>3. CASE Drop(r) \/ Release(r)
  <2>1. locks[r] # <<>> /\ locks' = [locks EXCEPT ![r] = Tail(locks[r])]
    BY <1>3 DEF Drop, Release
  <2>2. QED
    BY <2>1, LiveShrinks
<1>4. CASE locks' = locks
  BY <1>4, LiveIn
<1>5. locks' = locks \/ Share(r) \/ Add(r) \/ Drop(r) \/ Release(r)
  BY Kinds DEF Acquire, Subtract
<1>6. QED
  BY <1>1, <1>2, <1>3, <1>4, <1>5

\* LocksInv for one runner.
LocksOf(r) ==
  /\ Once(locks[r])
  /\ pc[r] \in {"locking", "adding"} =>
       /\ Len(locks[r]) <= Len(Deps[r[1]])
       /\ \A i \in DOMAIN locks[r] : locks[r][i] = Deps[r[1]][i]
  /\ pc[r] \in {"idle", "starting"} => locks[r] = <<>>
  /\ pc[r] = "adding" => /\ Len(locks[r]) < Len(Deps[r[1]]) /\ pending[r].dep = Next1(r)
                         /\ ~Live(pending[r].dep)

LEMMA LocksEach ==
  /\ LocksInv <=> \A r \in Runners : LocksOf(r)
  /\ LocksInv' <=> \A r \in Runners : LocksOf(r)'
  BY DEF LocksInv, LocksOf, Once

LEMMA LocksOthers ==
  ASSUME Typed, PendingInv, MutexInv, LocksInv,
         NEW r \in Runners, RunnerStep(r), NEW q \in Runners, q # r
  PROVE  LocksOf(q)'
<1>1. LocksOf(q)
  BY LocksEach
<1>2. /\ locks'[q] = locks[q] /\ pending'[q] = pending[q]
      /\ pc'[q] = pc[q] \/ (pc[q] = "idle" /\ pc'[q] = "starting")
  BY OthersKept
<1>3. Next1(q)' = Next1(q)
  BY <1>2 DEF Next1
<1>4. ASSUME pc'[q] = "adding" PROVE (~Live(pending[q].dep))'
  <2> DEFINE d == pending[q].dep
  <2>1. pc[q] = "adding" /\ ~Live(d) /\ mutex = q
    BY <1>1, <1>2, <1>4 DEF LocksOf, MutexInv
  <2>2. pc[r] # "adding"
    BY <2>1 DEF MutexInv
  <2>3. PICK e : e = d
    OBVIOUS
  <2>4. ~Live(e)'
    BY <2>1, <2>2, <2>3, LiveStep
  <2>5. ~(\E p \in Runners : \E i \in DOMAIN locks'[p] : locks'[p][i] = e)
    BY <2>4 DEF Live
  <2>6. QED
    BY <1>2, <2>3, <2>5 DEF Live
<1>5. Once(locks[q])'
  BY <1>1, <1>2 DEF LocksOf, Once
<1>6. pc'[q] \in {"locking", "adding"} =>
        /\ Len(locks'[q]) <= Len(Deps[q[1]])
        /\ \A i \in DOMAIN locks'[q] : locks'[q][i] = Deps[q[1]][i]
  BY <1>1, <1>2 DEF LocksOf
<1>7. pc'[q] \in {"idle", "starting"} => locks'[q] = <<>>
  BY <1>1, <1>2 DEF LocksOf
<1>8. pc'[q] = "adding" => Len(locks'[q]) < Len(Deps[q[1]]) /\ pending'[q].dep = Next1(q)'
  BY <1>1, <1>2, <1>3 DEF LocksOf
<1>9. QED
  BY <1>4, <1>5, <1>6, <1>7, <1>8 DEF LocksOf

\* The dependencies of a job are different ones: the next is not locked yet.
LEMMA NextIsNew ==
  ASSUME Typed, LocksInv, NEW r \in Runners, pc[r] \in {"locking", "adding"},
         Len(locks[r]) < Len(Deps[r[1]])
  PROVE  /\ Len(locks[r]) \in Nat /\ DOMAIN locks[r] = 1 .. Len(locks[r])
         /\ Len(Deps[r[1]]) \in Nat
         /\ Next1(r) \in AllDeps /\ Next1(r) \notin In(locks[r])
<1> DEFINE n == Len(locks[r])
           D == Deps[r[1]]
<1>0. r[1] \in Jobs
  BY RunnerJob
<1>1. locks[r] \in Seq(AllDeps) /\ D \in Seq(AllDeps)
  BY <1>0, DepsOfJob DEF Typed
<1>2. n \in Nat /\ DOMAIN locks[r] = 1 .. n /\ Len(D) \in Nat /\ DOMAIN D = 1 .. Len(D)
  BY <1>1, LenProperties
<1>3. n + 1 \in DOMAIN D /\ \A i \in DOMAIN locks[r] : i \in DOMAIN D /\ i # n + 1
  BY <1>2
<1>4. D[n + 1] \in AllDeps
  BY <1>1, <1>3
<1>5. \A i \in DOMAIN locks[r] : D[i] # D[n + 1]
  BY <1>0, <1>3, CounterAssumption
<1>6. \A i \in DOMAIN locks[r] : locks[r][i] # D[n + 1]
  BY <1>5 DEF LocksInv
<1>7. QED
  BY <1>2, <1>4, <1>6 DEF Next1, In

\* One more lock of a runner that locks.
LEMMA LocksAppend ==
  ASSUME Typed, LocksInv, NEW r \in Runners, pc[r] \in {"locking", "adding"},
         Len(locks[r]) < Len(Deps[r[1]]), locks' = [locks EXCEPT ![r] = Append(locks[r], Next1(r))],
         pc'[r] = "locking"
  PROVE  LocksOf(r)'
<1> DEFINE n == Len(locks[r])
           D == Deps[r[1]]
           s == locks[r]
           a == Append(s, Next1(r))
<1>1. s \in Seq(AllDeps) /\ locks'[r] = a
  BY DEF Typed
<1>2. n \in Nat /\ DOMAIN s = 1 .. n /\ Next1(r) \in AllDeps /\ Next1(r) \notin In(s) /\ Len(D) \in Nat
  BY NextIsNew
<1>3. /\ Len(a) = n + 1 /\ a[n + 1] = Next1(r) /\ DOMAIN a = DOMAIN s \cup {n + 1}
      /\ \A i \in DOMAIN s : a[i] = s[i]
      /\ Once(s) => Once(a)
  BY <1>1, <1>2, AppendIn
<1>4. Once(s) /\ \A i \in DOMAIN s : s[i] = D[i]
  BY LocksEach DEF LocksOf
<1>5. \A i \in DOMAIN a : a[i] = D[i]
  BY <1>3, <1>4 DEF Next1
<1>6. Len(a) <= Len(D)
  BY <1>2, <1>3
<1>7. Once(locks'[r]) /\ Len(locks'[r]) <= Len(D) /\ \A i \in DOMAIN locks'[r] : locks'[r][i] = D[i]
  BY <1>1, <1>3, <1>4, <1>5, <1>6
<1>8. QED
  BY <1>7 DEF LocksOf, Once

LEMMA LocksOwn ==
  ASSUME Typed, PendingInv, LocksInv, NEW r \in Runners, RunnerStep(r)
  PROVE  LocksOf(r)'
<1>0. /\ LocksOf(r)
      /\ pc \in [Runners -> PCs] /\ locks \in [Runners -> Seq(AllDeps)] /\ locks[r] \in Seq(AllDeps)
  BY LocksEach DEF Typed
<1>00. ASSUME Once(locks'[r]), pc'[r] \notin {"locking", "adding", "idle", "starting"} PROVE LocksOf(r)'
  BY <1>00 DEF LocksOf, Once
<1>01. Once(locks[r])
  BY <1>0 DEF LocksOf
<1>1. CASE Enter(r)
  <2>1. locks'[r] = <<>> /\ pc'[r] = "locking"
    BY <1>0, <1>1 DEF Enter, LocksOf
  <2>2. Len(<<>>) = 0 /\ DOMAIN <<>> = {} /\ Len(Deps[r[1]]) \in Nat
    BY DepsOfJob, RunnerJob
  <2>3. QED
    BY <2>1, <2>2 DEF LocksOf, Once
<1>2. CASE Share(r)
  <2>1. Len(locks[r]) < Len(Deps[r[1]])
    <3>1. Len(locks[r]) \in Nat /\ Len(Deps[r[1]]) \in Nat
      BY <1>0, DepsOfJob, RunnerJob, LenProperties
    <3>2. Len(locks[r]) <= Len(Deps[r[1]]) /\ Len(locks[r]) # Len(Deps[r[1]])
      BY <1>0, <1>2 DEF Share, Locked, LocksOf
    <3>3. QED
      BY <3>1, <3>2
  <2>2. QED
    BY <1>2, <2>1, LocksAppend DEF Share
<1>3. CASE Acquire(r)
  <2>1. CASE pc'[r] = "adding"
    <3>1. Len(locks[r]) < Len(Deps[r[1]])
      <4>1. Len(locks[r]) \in Nat /\ Len(Deps[r[1]]) \in Nat
        BY <1>0, DepsOfJob, RunnerJob, LenProperties
      <4>2. Len(locks[r]) <= Len(Deps[r[1]]) /\ Len(locks[r]) # Len(Deps[r[1]])
        BY <1>0, <1>3 DEF Acquire, Locked, LocksOf
      <4>3. QED
        BY <4>1, <4>2
    <3> DEFINE m == [dep |-> Next1(r), read |-> used[Origin[Next1(r)]]]
    <3>2. pending' = [pending EXCEPT ![r] = m] /\ locks' = locks /\ ~Live(Next1(r))
      BY <1>0, <1>3, <2>1 DEF Acquire
    <3>3. pending'[r] = m
      BY <3>2 DEF Typed
    <3>4. pending'[r].dep = Next1(r)
      BY <3>3
    <3>5. Next1(r)' = Next1(r)
      BY <3>2 DEF Next1
    <3>6. (~Live(pending[r].dep))'
      BY <3>2, <3>4 DEF Live
    <3>7. Once(locks[r])' /\ Len(locks'[r]) < Len(Deps[r[1]])
      BY <1>01, <3>1, <3>2 DEF Once
    <3>8. /\ Len(locks'[r]) <= Len(Deps[r[1]])
          /\ \A i \in DOMAIN locks'[r] : locks'[r][i] = Deps[r[1]][i]
      BY <1>0, <1>3, <3>2 DEF LocksOf, Acquire
    <3>9. QED
      BY <2>1, <3>4, <3>5, <3>6, <3>7, <3>8 DEF LocksOf
  <2>2. CASE pc'[r] # "adding"
    <3>1. pc'[r] = "refused" /\ locks' = locks
      BY <1>0, <1>3, <2>2 DEF Acquire
    <3>2. QED
      BY <1>00, <1>01, <3>1
  <2>3. QED
    BY <2>1, <2>2
<1>4. CASE Add(r)
  <2>1. /\ pc[r] = "adding" /\ pc'[r] = "locking"
        /\ locks' = [locks EXCEPT ![r] = Append(locks[r], pending[r].dep)]
    BY <1>0, <1>4 DEF Add
  <2>2. Len(locks[r]) < Len(Deps[r[1]]) /\ pending[r].dep = Next1(r)
    BY <1>0, <2>1 DEF LocksOf
  <2>3. QED
    BY <2>1, <2>2, LocksAppend
<1>5. CASE Drop(r) \/ Release(r)
  <2>1. locks[r] # <<>> /\ locks' = [locks EXCEPT ![r] = Tail(locks[r])]
    BY <1>5 DEF Drop, Release
  <2>2. pc'[r] \in {"giving up", "clearing", "subtracting", "subtracting unlocked"}
    BY <1>0, <1>5 DEF Drop, Release
  <2>3. Once(Tail(locks[r])) /\ locks'[r] = Tail(locks[r])
    BY <1>0, <1>01, <2>1, TailIn
  <2>4. QED
    BY <1>00, <2>2, <2>3
<1>6. CASE GiveUp(r) \/ Run(r) \/ Complete(r) \/ Subtract(r)
  <2>1. locks' = locks /\ pc'[r] \notin {"locking", "adding", "idle", "starting"}
    BY <1>0, <1>6 DEF GiveUp, Run, Complete, Subtract
  <2>2. QED
    BY <1>00, <1>01, <2>1
<1>7. CASE End(r)
  <2>1. locks'[r] = <<>> /\ pc'[r] = "idle"
    BY <1>0, <1>7 DEF End
  <2>2. QED
    BY <2>1 DEF LocksOf, Once
<1>8. CASE \E d \in AllDeps : CheckSame(r, d) \/ CheckRead(r, d)
  <2>1. locks' = locks /\ pc'[r] \notin {"locking", "adding", "idle", "starting"}
    BY <1>8 DEF CheckSame, CheckRead, Checking
  <2>2. QED
    BY <1>00, <1>01, <2>1
<1>9. CASE Changed(r)
  <2>1. locks' = locks /\ pc'[r] \notin {"locking", "adding", "idle", "starting"}
    BY <1>0, <1>9 DEF Changed
  <2>2. QED
    BY <1>00, <1>01, <2>1
<1>10. QED
  BY <1>1, <1>2, <1>3, <1>4, <1>5, <1>6, <1>7, <1>8, <1>9 DEF RunnerStep

LEMMA LocksStep ==
  ASSUME Typed, PendingInv, MutexInv, LocksInv, [Next]_vars
  PROVE  LocksInv'
<1>1. ASSUME NEW r \in Runners, RunnerStep(r) PROVE LocksInv'
  BY <1>1, LocksOthers, LocksOwn, LocksEach
<1>2. CASE Beside
  BY <1>2 DEF Beside, LocksInv, Live, Next1
<1>3. QED
  BY <1>1, <1>2, SplitNext

-----------------------------------------------------------------------------
(* What is taken.                                                          *)

\* A dependency whose tokens are being given back, by anyone but r.
BackBesides(r, d) == \E q \in Runners \ {r} : Subtracting(q) /\ pending[q].dep = d
Back(d) == \E q \in Runners : Subtracting(q) /\ pending[q].dep = d

InUse(d) == Live(d) \/ Back(d)

LEMMA TakenInUse ==
  /\ \A t : Taken(t) = {d \in Dependents(t) : InUse(d)}
  /\ \A t : Taken(t)' = {d \in Dependents(t) : InUse(d)'}
  BY DEF Taken, InUse, Back, Subtracting, Dependents

LEMMA BackStep ==
  ASSUME Typed, NEW r \in Runners, RunnerStep(r), NEW d
  PROVE  /\ Back(d) <=> BackBesides(r, d) \/ (Subtracting(r) /\ pending[r].dep = d)
         /\ Back(d)' <=> BackBesides(r, d) \/ (Subtracting(r)' /\ pending'[r].dep = d)
<1>1. \A q \in Runners \ {r} : /\ Subtracting(q)' <=> Subtracting(q)
                               /\ pending'[q] = pending[q]
  BY OthersKept DEF Subtracting
<1>2. QED
  BY <1>1 DEF Back, BackBesides

\* Who counts has a dependency, it is not Nothing.
LEMMA CountingSomething ==
  ASSUME PendingInv, NEW q \in Runners, Counting(q)
  PROVE  pending[q].dep \in AllDeps /\ pending[q] # Nothing
<1>1. pending[q].dep \in AllDeps
  BY DEF PendingInv, Counting
<1>2. QED
  BY <1>1, CounterAssumption DEF Nothing

\* A step of a counter after which nothing has raced met nobody.
LEMMA MetNobody ==
  ASSUME PendingInv, NEW r \in Runners, Add(r) \/ Subtract(r), "race" \notin disturbed'
  PROVE  /\ "race" \notin disturbed
         /\ \A q \in Runners \ {r} : Counting(q) => Origin[pending[q].dep] # Origin[pending[r].dep]
<1>1. ~Overlaps(r, Origin[pending[r].dep]) /\ disturbed' = disturbed
  BY DEF Add, Subtract, Note
<1>2. QED
  BY <1>1, CountingSomething DEF Overlaps

\* An addition takes what was free.
LEMMA AddTakes ==
  ASSUME Typed, PendingInv, LocksInv, NEW r \in Runners, Add(r), "race" \notin disturbed'
  PROVE  /\ ~InUse(pending[r].dep)
         /\ \A d : InUse(d)' <=> InUse(d) \/ d = pending[r].dep
<1> DEFINE e == pending[r].dep
<1>0. RunnerStep(r) /\ pc \in [Runners -> PCs]
  BY DEF RunnerStep, Typed
<1>1. e \in AllDeps /\ ~Live(e) /\ pc[r] = "adding" /\ pc'[r] = "locking"
  BY <1>0 DEF Add, PendingInv, LocksInv
<1>2. \A d : Live(d)' <=> Live(d) \/ d = e
  <2>1. locks' = [locks EXCEPT ![r] = Append(locks[r], e)]
    BY DEF Add
  <2>2. QED
    BY <1>1, <2>1, LiveGrows
<1>3. ~Subtracting(r) /\ ~Subtracting(r)'
  BY <1>1 DEF Subtracting
<1>4. \A d : Back(d)' <=> Back(d)
  BY <1>0, <1>3, BackStep
<1>5. ~Back(e)
  <2>1. ~BackBesides(r, e)
    BY MetNobody DEF BackBesides, Counting
  <2>2. QED
    BY <1>0, <1>3, <2>1, BackStep
<1>6. QED
  BY <1>1, <1>2, <1>4, <1>5 DEF InUse

\* A subtraction gives back what was taken.
LEMMA SubtractGives ==
  ASSUME Typed, PendingInv, CountInv, NEW r \in Runners, Subtract(r), "race" \notin disturbed'
  PROVE  /\ InUse(pending[r].dep)
         /\ \A d : InUse(d)' <=> InUse(d) /\ d # pending[r].dep
<1> DEFINE e == pending[r].dep
<1>0. RunnerStep(r) /\ pc \in [Runners -> PCs]
  BY DEF RunnerStep, Typed
<1>1. e \in AllDeps /\ Subtracting(r) /\ pc'[r] \in {"clearing", "giving up"}
  BY <1>0 DEF Subtract, PendingInv, Subtracting
<1>2. ~Live(e)
  BY <1>1, MetNobody DEF CountInv
<1>3. \A d : Live(d)' <=> Live(d)
  BY LiveIn DEF Subtract
<1>4. ~Subtracting(r)'
  BY <1>1 DEF Subtracting
<1>5. ~BackBesides(r, e)
  BY MetNobody DEF BackBesides, Counting
<1>6. \A d : /\ Back(d) <=> BackBesides(r, d) \/ e = d
             /\ Back(d)' <=> BackBesides(r, d)
  BY <1>0, <1>1, <1>4, BackStep
<1>7. QED
  BY <1>2, <1>3, <1>5, <1>6 DEF InUse

\* Nothing else takes or gives back.
LEMMA OthersKeepUse ==
  ASSUME Typed, PendingInv, LocksInv, NEW r \in Runners, RunnerStep(r), ~Add(r), ~Subtract(r)
  PROVE  used' = used /\ \A d : InUse(d)' <=> InUse(d)
<1>0. pc \in [Runners -> PCs] /\ pending \in [Runners -> PendingType]
  BY DEF Typed, PendingType
<1>1. CASE locks' = locks /\ used' = used /\ ~Subtracting(r) /\ ~Subtracting(r)'
  <2>1. \A d : Live(d)' <=> Live(d)
    BY <1>1, LiveIn
  <2>2. \A d : Back(d)' <=> Back(d)
    BY <1>1, BackStep
  <2>3. QED
    BY <1>1, <2>1, <2>2 DEF InUse
<1>2. CASE Share(r)
  <2>1. Next1(r) \in AllDeps
    BY <1>2, NextDep DEF Share
  <2>2. locks' = [locks EXCEPT ![r] = Append(locks[r], Next1(r))] /\ Live(Next1(r))
    BY <1>2 DEF Share
  <2>3. \A d : Live(d)' <=> Live(d)
    BY <2>1, <2>2, LiveGrows
  <2>4. ~Subtracting(r) /\ ~Subtracting(r)' /\ used' = used
    BY <1>2 DEF Share, Subtracting, counters
  <2>5. \A d : Back(d)' <=> Back(d)
    BY <2>4, BackStep
  <2>6. QED
    BY <2>3, <2>4, <2>5 DEF InUse
<1>3. CASE Drop(r)
  <2>0. PICK h : h = Head(locks[r])
    OBVIOUS
  <2>1. locks[r] # <<>> /\ locks' = [locks EXCEPT ![r] = Tail(locks[r])]
    BY <1>3 DEF Drop
  <2>2. PICK q \in Runners \ {r} : h \in In(locks[q])
    BY <1>3, <2>0 DEF Drop, In
  <2>3. Live(h)'
    BY <2>2, OthersKept, LiveIn
  <2>4. \A d : Live(d)' <=> Live(d)
    BY <2>0, <2>1, <2>3, LiveShrinks
  <2>5. ~Subtracting(r) /\ ~Subtracting(r)' /\ used' = used
    BY <1>3 DEF Drop, Subtracting, counters
  <2>6. \A d : Back(d)' <=> Back(d)
    BY <2>5, BackStep
  <2>7. QED
    BY <2>4, <2>5, <2>6 DEF InUse
<1>4. CASE Release(r)
  <2> DEFINE h == Head(locks[r])
  <2>1. locks[r] # <<>> /\ locks' = [locks EXCEPT ![r] = Tail(locks[r])]
    BY <1>4 DEF Release
  <2>2. \A d : Live(d) <=> Live(d)' \/ d = h
    BY <2>1, LiveShrinks
  <2>3. ~Subtracting(r) /\ used' = used
    BY <1>4 DEF Release, Subtracting, counters
  <2>4. Subtracting(r)'
    BY <1>0, <1>4 DEF Release, Subtracting
  <2>5. pending'[r].dep = h
    BY <1>0, <1>4 DEF Release
  <2>6. \A d : /\ Back(d) <=> BackBesides(r, d)
               /\ Back(d)' <=> BackBesides(r, d) \/ h = d
    BY <2>3, <2>4, <2>5, BackStep
  <2>7. QED
    BY <2>2, <2>3, <2>6 DEF InUse
<1>5. CASE Acquire(r) /\ pc'[r] = "adding"
  BY <1>1, <1>5 DEF Acquire, Subtracting, counters
<1>6. QED
  BY <1>1, <1>2, <1>3, <1>4, <1>5, Kinds DEF Counting

-----------------------------------------------------------------------------
(* The counts.                                                             *)

LEMMA NeedsOf ==
  ASSUME Typed, NEW S \in SUBSET AllDeps
  PROVE  IsFiniteSet(S) /\ (\A d \in S : need[d] \in Nat) /\ Total(S) \in Nat
<1>1. IsFiniteSet(S)
  BY CounterAssumption, FS_Subset
<1>2. \A d \in S : need[d] \in Nat
  BY TokenTypes DEF UInt
<1>3. QED
  BY <1>1, <1>2, UnitsFinite DEF Total

LEMMA TakenType ==
  ASSUME NEW t
  PROVE  Taken(t) \in SUBSET AllDeps
  BY DEF Taken, Dependents

\* An addition or a subtraction changes what is taken from its token by what
\* its dependency needs; nothing else changes what is taken.
LEMMA TotalStep ==
  ASSUME Typed, PendingInv, LocksInv, CountInv, NEW r \in Runners, RunnerStep(r),
         "race" \notin disturbed', NEW t \in Tokens
  PROVE  LET e == pending[r].dep IN
         /\ Total(Taken(t)) \in Nat /\ Total(Taken(t))' \in Nat
         /\ Add(r) /\ t = Origin[e] => Total(Taken(t))' = Total(Taken(t)) + need[e]
         /\ Subtract(r) /\ t = Origin[e] => Total(Taken(t)) = Total(Taken(t))' + need[e]
         /\ (~Add(r) /\ ~Subtract(r)) \/ t # Origin[e] => Total(Taken(t))' = Total(Taken(t))
<1>0. PICK e, A, B : e = pending[r].dep /\ A = Taken(t) /\ B = Taken(t)'
  OBVIOUS
<1>1. A \in SUBSET AllDeps /\ B \in SUBSET AllDeps
  BY <1>0, TakenInUse DEF Dependents
<1>2. Total(Taken(t)) = Total(A) /\ Total(Taken(t))' = Total(B) /\ need' = need
  BY <1>0, NeverChanged DEF Total
<1>3. Total(A) \in Nat /\ Total(B) \in Nat
  BY <1>1, NeedsOf
<1>4. CASE Add(r)
  <2>1. e \in AllDeps /\ need[e] \in Nat
    BY <1>0, <1>4, TokenTypes DEF Add, PendingInv, UInt
  <2>2. ~InUse(e) /\ \A d : InUse(d)' <=> InUse(d) \/ d = e
    BY <1>0, <1>4, AddTakes
  <2>3. CASE t = Origin[e]
    <3>1. B = A \cup {e} /\ e \notin A
      BY <1>0, <2>1, <2>2, <2>3, TakenInUse DEF Dependents
    <3>2. Total(B) = Total(A) + need[e]
      BY <1>1, <2>1, <3>1, NeedsOf, UnitsAdd DEF Total
    <3>3. ~Subtract(r)
      BY <1>4 DEF Add, Subtract
    <3>4. QED
      BY <1>0, <1>2, <1>3, <2>3, <3>2, <3>3, <1>4
  <2>4. CASE t # Origin[e]
    <3>1. B = A
      BY <1>0, <2>2, <2>4, TakenInUse DEF Dependents
    <3>2. QED
      BY <1>0, <1>2, <1>3, <2>4, <3>1
  <2>5. QED
    BY <2>3, <2>4
<1>5. CASE Subtract(r)
  <2>1. e \in AllDeps /\ need[e] \in Nat
    <3>1. e \in AllDeps
      BY <1>0, <1>5 DEF Subtract, PendingInv, Subtracting
    <3>2. QED
      BY <3>1, TokenTypes DEF UInt
  <2>2. InUse(e) /\ \A d : InUse(d)' <=> InUse(d) /\ d # e
    BY <1>0, <1>5, SubtractGives
  <2>3. CASE t = Origin[e]
    <3>1. A = B \cup {e} /\ e \notin B
      BY <1>0, <2>1, <2>2, <2>3, TakenInUse DEF Dependents
    <3>2. Total(A) = Total(B) + need[e]
      BY <1>1, <2>1, <3>1, NeedsOf, UnitsAdd DEF Total
    <3>3. ~Add(r)
      BY <1>5 DEF Add, Subtract
    <3>4. QED
      BY <1>0, <1>2, <1>3, <2>3, <3>2, <3>3, <1>5
  <2>4. CASE t # Origin[e]
    <3>1. B = A
      BY <1>0, <2>2, <2>4, TakenInUse DEF Dependents
    <3>2. QED
      BY <1>0, <1>2, <1>3, <2>4, <3>1
  <2>5. QED
    BY <2>3, <2>4
<1>6. CASE ~Add(r) /\ ~Subtract(r)
  <2>1. \A d : InUse(d)' <=> InUse(d)
    BY <1>6, OthersKeepUse
  <2>2. B = A
    BY <1>0, <2>1, TakenInUse DEF Dependents
  <2>3. QED
    BY <1>0, <1>2, <1>3, <1>6, <2>2
<1>7. QED
  BY <1>4, <1>5, <1>6

\* How the counter moves while nobody races.
LEMMA UsedStep ==
  ASSUME Typed, PendingInv, LocksInv, CountInv, NEW r \in Runners, RunnerStep(r),
         "race" \notin disturbed', NEW t \in Tokens
  PROVE  LET e == pending[r].dep IN
         /\ Add(r) /\ t = Origin[e] => used'[t] = Plus(used[t], need[e])
         /\ Subtract(r) /\ t = Origin[e] => used'[t] = Minus(used[t], need[e])
         /\ (~Add(r) /\ ~Subtract(r)) \/ t # Origin[e] => used'[t] = used[t]
<1> DEFINE e == pending[r].dep
<1>0. used \in [Tokens -> UInt]
  BY DEF Typed
<1>1. ASSUME Add(r) \/ Subtract(r) PROVE pending[r].read = used[Origin[e]]
  <2>1. Counting(r) /\ "race" \notin disturbed
    BY <1>1, MetNobody DEF Add, Subtract, Counting, Subtracting
  <2>2. QED
    BY <2>1 DEF CountInv, Counting
<1>2. Add(r) => used' = [used EXCEPT ![Origin[e]] = Plus(used[Origin[e]], need[e])]
  BY <1>1 DEF Add
<1>3. Subtract(r) => used' = [used EXCEPT ![Origin[e]] = Minus(used[Origin[e]], need[e])]
  BY <1>1 DEF Subtract
<1>4. ~Add(r) /\ ~Subtract(r) => used' = used
  BY OthersKeepUse
<1>5. ~(Add(r) /\ Subtract(r))
  BY DEF Add, Subtract
<1> HIDE DEF e
<1>6. QED
  BY <1>0, <1>2, <1>3, <1>4, <1>5 DEF e

LEMMA ExactStep ==
  ASSUME Typed, PendingInv, LocksInv, CountInv, NEW r \in Runners, RunnerStep(r),
         "race" \notin disturbed'
  PROVE  CountsExact'
<1> SUFFICES ASSUME NEW t \in Tokens PROVE used'[t] = (Total(Taken(t))') % Width
  BY DEF CountsExact
<1> DEFINE e == pending[r].dep
           x == Total(Taken(t))
           y == Total(Taken(t))'
<1>0. x \in Nat /\ y \in Nat
  BY TotalStep
<1>1. used[t] = x % Width
  BY NeverChanged DEF CountInv, CountsExact
<1>2. CASE Add(r) /\ t = Origin[e]
  <2>1. need[e] \in Int
    BY <1>2, TokenTypes DEF Add, PendingInv
  <2>2. used'[t] = Plus(x % Width, need[e]) /\ y = x + need[e]
    BY <1>1, <1>2, TotalStep, UsedStep
  <2> HIDE DEF x, y, e
  <2>3. Plus(x % Width, need[e]) = (x + need[e]) % Width
    <3>1. x \in Int
      BY <1>0
    <3>2. QED
      BY <2>1, <3>1, PlusMod
  <2>4. QED
    BY <2>2, <2>3 DEF y
<1>3. CASE Subtract(r) /\ t = Origin[e]
  <2>1. need[e] \in Int
    BY <1>3, TokenTypes DEF Subtract, PendingInv, Subtracting
  <2>2. used'[t] = Minus(x % Width, need[e]) /\ x = y + need[e]
    BY <1>1, <1>3, TotalStep, UsedStep
  <2> HIDE DEF x, y, e
  <2>3. Minus((y + need[e]) % Width, need[e]) = y % Width
    <3>1. y \in Int
      BY <1>0
    <3>2. QED
      BY <2>1, <3>1, MinusMod
  <2>4. QED
    BY <2>2, <2>3 DEF y
<1>4. CASE (~Add(r) /\ ~Subtract(r)) \/ t # Origin[e]
  <2>1. used'[t] = used[t] /\ y = x
    BY <1>4, TotalStep, UsedStep
  <2>2. QED
    BY <1>1, <2>1
<1>5. QED
  BY <1>2, <1>3, <1>4

\* What a runner has read, and the lock that it gives back.
ReadOf(q) ==
  /\ Counting(q) => pending[q].read = used[Origin[pending[q].dep]]
  /\ Subtracting(q) => ~Live(pending[q].dep)

LEMMA ReadOthers ==
  ASSUME Typed, PendingInv, LocksInv, CountInv, NEW r \in Runners, RunnerStep(r),
         "race" \notin disturbed', NEW q \in Runners, q # r
  PROVE  ReadOf(q)'
<1>0. PICK d : d = pending[q].dep
  OBVIOUS
<1>1. pending'[q] = pending[q] /\ (Counting(q)' <=> Counting(q)) /\ (Subtracting(q)' <=> Subtracting(q))
  BY OthersKept DEF Counting, Subtracting
<1>2. ReadOf(q)
  BY NeverChanged DEF ReadOf, CountInv, Counting
<1>3. ASSUME Counting(q) PROVE used'[Origin[d]] = used[Origin[d]]
  <2>1. d \in AllDeps /\ Origin[d] \in Tokens
    BY <1>0, <1>3, CountingSomething, CounterAssumption
  <2>2. CASE Add(r) \/ Subtract(r)
    <3>1. Origin[d] # Origin[pending[r].dep]
      BY <1>0, <1>3, <2>2, MetNobody
    <3>2. QED
      BY <2>1, <3>1, UsedStep
  <2>3. CASE ~Add(r) /\ ~Subtract(r)
    BY <2>3, OthersKeepUse
  <2>4. QED
    BY <2>2, <2>3
<1>4. ASSUME Subtracting(q), Live(d)' PROVE FALSE
  <2>1. ~Live(d)
    BY <1>0, <1>2, <1>4 DEF ReadOf
  <2>2. pc[r] = "adding" /\ d = pending[r].dep
    BY <1>4, <2>1, LiveStep
  <2>3. Add(r)
    BY <2>2 DEF RunnerStep, Enter, Share, Acquire, GiveUp, Run, Complete, Drop, Release, Subtract,
                End, CheckSame, CheckRead, Checking, Changed
  <2>4. QED
    BY <1>0, <1>4, <2>2, <2>3, MetNobody DEF Counting
<1>5. Subtracting(q)' => (~Live(pending[q].dep))'
  <2>1. Subtracting(q)' => ~(\E p \in Runners : \E i \in DOMAIN locks'[p] : locks'[p][i] = d)
    BY <1>1, <1>4 DEF Live
  <2>2. QED
    BY <1>0, <1>1, <2>1 DEF Live
<1>6. Counting(q)' => pending'[q].read = used'[Origin[pending'[q].dep]]
  BY <1>0, <1>1, <1>2, <1>3 DEF ReadOf
<1>7. QED
  BY <1>5, <1>6 DEF ReadOf

LEMMA ReadOwn ==
  ASSUME Typed, LocksInv, NEW r \in Runners, RunnerStep(r)
  PROVE  ReadOf(r)'
<1>0. /\ pc \in [Runners -> PCs] /\ pending \in [Runners -> PendingType]
      /\ locks \in [Runners -> Seq(AllDeps)]
  BY DEF Typed, PendingType
<1>1. CASE ~Counting(r)'
  BY <1>1 DEF ReadOf, Counting
<1>2. CASE Share(r) \/ Add(r) \/ Drop(r) \/ Subtract(r)
  <2>1. ~Counting(r)'
    BY <1>0, <1>2 DEF Share, Add, Drop, Subtract, Counting, Subtracting
  <2>2. QED
    BY <1>1, <2>1
<1>3. CASE Acquire(r) /\ pc'[r] = "adding"
  <2> DEFINE m == [dep |-> Next1(r), read |-> used[Origin[Next1(r)]]]
  <2>1. pending' = [pending EXCEPT ![r] = m] /\ used' = used
    BY <1>0, <1>3 DEF Acquire, counters
  <2>2. pending'[r] = m
    BY <1>0, <2>1
  <2>3. pending'[r].read = used'[Origin[pending'[r].dep]]
    BY <2>1, <2>2
  <2>4. ~Subtracting(r)'
    BY <1>3 DEF Subtracting
  <2>5. QED
    BY <2>3, <2>4 DEF ReadOf
<1>4. CASE Release(r)
  <2>0. PICK h : h = Head(locks[r])
    OBVIOUS
  <2> DEFINE m == [dep |-> h, read |-> used[Origin[h]]]
  <2>1. /\ pending' = [pending EXCEPT ![r] = m] /\ used' = used
        /\ locks[r] # <<>> /\ locks' = [locks EXCEPT ![r] = Tail(locks[r])]
        /\ \A q \in Runners \ {r} : h \notin In(locks[q])
    BY <1>4, <2>0 DEF Release, counters, In
  <2>2. pending'[r] = m
    BY <1>0, <2>1
  <2>3. pending'[r].read = used'[Origin[pending'[r].dep]] /\ pending'[r].dep = h
    BY <2>1, <2>2
  <2>4. Once(locks[r])
    BY LocksEach DEF LocksOf
  <2>5. h \notin In(locks'[r])
    BY <1>0, <2>0, <2>1, <2>4, TailIn
  <2>6. \A q \in Runners \ {r} : locks'[q] = locks[q]
    BY <1>0, <2>1
  <2>7. ~(\E q \in Runners : \E i \in DOMAIN locks'[q] : locks'[q][i] = h)
    BY <2>1, <2>5, <2>6 DEF In
  <2>8. (~Live(pending[r].dep))'
    BY <2>3, <2>7 DEF Live
  <2>9. QED
    BY <2>3, <2>8 DEF ReadOf
<1>5. QED
  BY <1>1, <1>2, <1>3, <1>4, Kinds

LEMMA CountEach ==
  /\ CountInv <=> ("race" \notin disturbed => CountsExact /\ \A r \in Runners : ReadOf(r))
  /\ CountInv' <=> ("race" \notin disturbed' => CountsExact' /\ \A r \in Runners : ReadOf(r)')
  BY DEF CountInv, ReadOf, Counting

LEMMA CountStep ==
  ASSUME Typed, PendingInv, LocksInv, CountInv, [Next]_vars
  PROVE  CountInv'
<1>1. ASSUME NEW r \in Runners, RunnerStep(r) PROVE CountInv'
  BY <1>1, ExactStep, ReadOthers, ReadOwn, CountEach
<1>2. CASE Beside
  <2>1. "race" \notin disturbed' => "race" \notin disturbed
    BY SplitNext, NeverChanged
  <2>2. CountsExact => CountsExact'
    BY <1>2 DEF Beside, CountsExact, Taken, Total, Live
  <2>3. \A r \in Runners : ReadOf(r) => ReadOf(r)'
    BY <1>2 DEF Beside, ReadOf, Counting, Subtracting, Live
  <2>4. QED
    BY <2>1, <2>2, <2>3, CountEach
<1>3. QED
  BY <1>1, <1>2, SplitNext

-----------------------------------------------------------------------------
(* The limits.                                                             *)

\* A sum that fits is the sum.
LEMMA PlusSmall ==
  ASSUME NEW x \in Nat, NEW y \in Nat, x + y < Width
  PROVE  Plus(x, y) = x + y
<1>1. x + y \in UInt
  BY WidthPositive DEF UInt
<1>2. QED
  BY <1>1, ModSmall DEF Plus

LEMMA WithinStep ==
  ASSUME Typed, PendingInv, LocksInv, CountInv, LimitInv, NEW r \in Runners, RunnerStep(r),
         disturbed' = {}, NEW t \in Tokens, Fits(t)'
  PROVE  Total(Taken(t))' <= limit'[t]
<1> DEFINE e == pending[r].dep
           x == Total(Taken(t))
           y == Total(Taken(t))'
<1>0. /\ disturbed = {} /\ limit' = limit /\ limit = Limit
      /\ need' = need
  BY NeverChanged DEF LimitInv
<1>1. Fits(t)
  BY <1>0 DEF Fits
<1>2. x \in Nat /\ y \in Nat /\ limit[t] \in Nat /\ x <= limit[t]
  BY <1>0, <1>1, TotalStep DEF LimitInv, WithinLimit, Typed, UInt
<1>3. CASE Add(r) /\ t = Origin[e]
  <2>1. e \in AllDeps /\ need[e] \in Nat /\ pc[r] = "adding"
    BY <1>3, TokenTypes DEF Add, PendingInv, UInt
  <2>2. Plus(need[e], pending[r].read) <= limit[t]
    BY <1>0, <1>3, <2>1 DEF LimitInv
  <2>3. pending[r].read = used[t] /\ used[t] = x % Width
    BY <1>0, <1>3, <2>1 DEF CountInv, CountsExact
  <2>4. need[e] + limit[t] < Width
    BY <1>0, <1>1, <1>3, <2>1 DEF Fits, Dependents
  <2>5. y = x + need[e]
    BY <1>0, <1>3, TotalStep
  <2> HIDE DEF x, y, e
  <2>6. x % Width = x
    <3>1. x \in UInt
      BY <1>2, <2>1, <2>4, WidthPositive DEF UInt
    <3>2. QED
      BY <3>1, ModSmall
  <2>7. Plus(need[e], x) = need[e] + x
    <3>1. need[e] + x < Width
      BY <1>2, <2>1, <2>4, WidthPositive
    <3>2. QED
      BY <1>2, <2>1, <3>1, PlusSmall
  <2>8. x + need[e] <= limit[t]
    BY <1>2, <2>1, <2>2, <2>3, <2>6, <2>7
  <2>9. QED
    BY <1>0, <2>5, <2>8 DEF y
<1>4. CASE Subtract(r) /\ t = Origin[e]
  <2>1. need[e] \in Nat
    <3>1. e \in AllDeps
      BY <1>4 DEF Subtract, PendingInv, Subtracting
    <3>2. QED
      BY <3>1, TokenTypes DEF UInt
  <2>2. x = y + need[e]
    BY <1>0, <1>4, TotalStep
  <2> HIDE DEF x, y, e
  <2>3. y <= limit[t]
    BY <1>2, <2>1, <2>2
  <2>4. QED
    BY <1>0, <2>3 DEF y
<1>5. CASE (~Add(r) /\ ~Subtract(r)) \/ t # Origin[e]
  <2>1. y = x
    BY <1>0, <1>5, TotalStep
  <2>2. QED
    BY <1>0, <1>2, <2>1
<1>6. QED
  BY <1>3, <1>4, <1>5

\* What a runner is about to take was compared with the limit.
Compared(q) ==
  pc[q] = "adding" =>
    LET d == pending[q].dep IN Plus(need[d], pending[q].read) <= limit[Origin[d]]

LEMMA ComparedStep ==
  ASSUME Typed, LocksInv, NEW r \in Runners, RunnerStep(r), NEW q \in Runners, Compared(q)
  PROVE  Compared(q)'
<1>0. /\ pc \in [Runners -> PCs] /\ pending \in [Runners -> PendingType]
      /\ need' = need /\ limit' = limit
  BY NeverChanged DEF Typed, PendingType
<1>1. CASE q # r
  <2>1. pending'[q] = pending[q] /\ (pc'[q] = "adding" => pc[q] = "adding")
    BY <1>1, OthersKept
  <2>2. QED
    BY <1>0, <2>1 DEF Compared
<1>2. CASE q = r /\ Acquire(r) /\ pc'[r] = "adding"
  <2>0. PICK d : d = Next1(r)
    OBVIOUS
  <2> DEFINE m == [dep |-> d, read |-> used[Origin[d]]]
  <2>1. d \in AllDeps
    BY <1>2, <2>0, NextDep DEF Acquire
  <2>2. pending' = [pending EXCEPT ![r] = m] /\ ~(Plus(need[d], used[Origin[d]]) > limit[Origin[d]])
    BY <1>0, <1>2, <2>0 DEF Acquire
  <2>3. pending'[r].dep = d /\ pending'[r].read = used[Origin[d]]
    BY <1>0, <2>2
  <2>4. Plus(need[d], used[Origin[d]]) <= limit[Origin[d]]
    <3>1. Plus(need[d], used[Origin[d]]) \in Int /\ limit[Origin[d]] \in Int
      <4>1. need[d] \in Int /\ used[Origin[d]] \in Int /\ limit[Origin[d]] \in Int
        BY <2>1, TokenTypes
      <4>2. Plus(need[d], used[Origin[d]]) \in UInt
        BY <4>1, SumType
      <4>3. QED
        BY <4>1, <4>2 DEF UInt
    <3>2. QED
      BY <2>2, <3>1
  <2>5. QED
    BY <1>0, <1>2, <2>3, <2>4 DEF Compared
<1>3. CASE q = r /\ pc'[r] # "adding"
  BY <1>3 DEF Compared
<1>4. ASSUME pc'[r] = "adding" PROVE Acquire(r)
  BY <1>0, <1>4, Kinds DEF Share, Add, Drop, Release, Subtract, Counting
<1>5. QED
  BY <1>1, <1>2, <1>3, <1>4

LEMMA LimitEach ==
  /\ LimitInv <=> WithinLimit /\ (disturbed = {} => limit = Limit /\ \A q \in Runners : Compared(q))
  /\ LimitInv' <=> WithinLimit' /\ (disturbed' = {} => limit' = Limit /\ \A q \in Runners : Compared(q)')
  BY DEF LimitInv, Compared

LEMMA LimitStep ==
  ASSUME Typed, PendingInv, LocksInv, CountInv, LimitInv, [Next]_vars
  PROVE  LimitInv'
<1>1. ASSUME NEW r \in Runners, RunnerStep(r) PROVE LimitInv'
  <2>1. WithinLimit'
    BY <1>1, WithinStep DEF WithinLimit
  <2>2. disturbed' = {} => disturbed = {} /\ limit' = limit
    BY <1>1, NeverChanged
  <2>3. disturbed' = {} => limit' = Limit /\ \A q \in Runners : Compared(q)'
    BY <1>1, <2>2, ComparedStep, LimitEach
  <2>4. QED
    BY <2>1, <2>3, LimitEach
<1>2. CASE Beside /\ UNCHANGED << limit, disturbed >>
  <2>1. WithinLimit => WithinLimit'
    BY <1>2 DEF Beside, WithinLimit, Fits, Taken, Total, Live
  <2>2. \A q \in Runners : Compared(q) => Compared(q)'
    BY <1>2 DEF Beside, Compared
  <2>3. QED
    BY <1>2, <2>1, <2>2, LimitEach
<1>3. CASE disturbed' = disturbed \cup {"limit"}
  BY <1>3, LimitEach DEF WithinLimit
<1>4. QED
  BY <1>1, <1>2, <1>3, SplitNext

-----------------------------------------------------------------------------
(* The invariant.                                                          *)

LEMMA InitInv == Init => IInv
<1> SUFFICES ASSUME Init PROVE IInv
  OBVIOUS
<1>1. Typed
  BY TypeInit
<1>2. \A r \in Runners : /\ pc[r] \in {"idle", "starting"} /\ locks[r] = <<>> /\ pending[r] = Nothing
                         /\ ~Counting(r)
  BY DEF Init, Counting, Subtracting
<1>3. PendingInv
  BY <1>2 DEF PendingInv, Counting
<1>4. MutexInv
  BY <1>2 DEF MutexInv
<1>5. DOMAIN <<>> = {}
  OBVIOUS
<1>6. LocksInv
  BY <1>2, <1>5 DEF LocksInv
<1>7. \A d : ~Live(d)
  BY <1>2, <1>5 DEF Live
<1>8. \A t \in Tokens : Taken(t) = {}
  BY <1>2, <1>7 DEF Taken, Counting, Subtracting
<1>9. \A t \in Tokens : Total(Taken(t)) = 0
  BY <1>8, UnitsNone DEF Total
<1>10. CountInv
  <2>1. 0 % Width = 0
    <3>1. 0 \in UInt
      BY WidthPositive DEF UInt
    <3>2. QED
      BY <3>1, ModSmall
  <2>2. \A t \in Tokens : used[t] = 0
    BY DEF Init
  <2>3. CountsExact
    BY <1>9, <2>1, <2>2 DEF CountsExact
  <2>4. QED
    BY <1>2, <2>3 DEF CountInv, Counting
<1>11. LimitInv
  <2>1. limit = Limit /\ \A t \in Tokens : limit[t] \in UInt
    BY <1>1 DEF Init, Typed
  <2>2. WithinLimit
    BY <1>9, <2>1 DEF WithinLimit, UInt
  <2>3. QED
    BY <1>2, <2>1, <2>2 DEF LimitInv
<1>12. QED
  BY <1>1, <1>3, <1>4, <1>6, <1>10, <1>11 DEF IInv

LEMMA Invariant == Spec => []IInv
<1>1. IInv /\ [Next]_vars => IInv'
  BY TypeStep, PendingStep, MutexStep, LocksStep, CountStep, LimitStep DEF IInv
<1>2. QED
  BY <1>1, InitInv, PTL DEF Spec

\* _usedTokens is what the live locks have taken, and the locks that are being
\* given back: whatever is shared, refused half-way and given back without the
\* mutex, as long as no two threads count on the same token at once.
THEOREM CountsKept == Spec => []CountsExactUnlessRace
<1>1. IInv => CountsExactUnlessRace
  BY DEF IInv, CountInv, CountsExactUnlessRace
<1>2. QED
  BY <1>1, Invariant, PTL

\* Locks never take more of a token than its limit, until a limit is changed or
\* two threads have raced: comparing before adding is enough.
THEOREM LimitKept == Spec => []WithinLimit
<1>1. IInv => WithinLimit
  BY DEF IInv, LimitInv
<1>2. QED
  BY <1>1, Invariant, PTL

-----------------------------------------------------------------------------
(* No job is left behind.                                                  *)

\* The steps of runners, and the others.
LEMMA SplitRest ==
  ASSUME [Next]_vars
  PROVE  \/ \E r \in Runners : RunnerStep(r)
         \/ /\ UNCHANGED << need, counters, state, mutex, pc, locks, pending, todo >>
            /\ UNCHANGED << limit, disturbed >> \/ disturbed' # {}
  BY DEF Next, Rest, vars, SetLimit, Note

\* A dependency is one of its target, and has one place there.
LEMMA DepPlace ==
  ASSUME NEW d \in AllDeps, NEW j \in Jobs
  PROVE  /\ TargetOf(d) = j <=> \E i \in DOMAIN Deps[j] : Deps[j][i] = d
         /\ \A i, n \in DOMAIN Deps[j] : Deps[j][i] = Deps[j][n] => i = n
         /\ \A i \in DOMAIN Deps[j] : Deps[j][i] \in AllDeps
<1>1. \A i, n \in DOMAIN Deps[j] : Deps[j][i] = Deps[j][n] => i = n
  BY CounterAssumption
<1>2. \E i \in DOMAIN Deps[TargetOf(d)] : Deps[TargetOf(d)][i] = d
  <2>1. \E t \in Jobs : \E i \in DOMAIN Deps[t] : Deps[t][i] = d
    BY DEF AllDeps
  <2>2. QED
    BY <2>1 DEF TargetOf
<1>3. ASSUME NEW i \in DOMAIN Deps[j], Deps[j][i] = d
      PROVE  TargetOf(d) = j
  BY <1>2, <1>3, TargetType, CounterAssumption
<1>4. \A i \in DOMAIN Deps[j] : Deps[j][i] \in AllDeps
  BY DEF AllDeps
<1>5. QED
  BY <1>1, <1>2, <1>3, <1>4

\* Only Changed changes what was seen of a dependency.
LEMMA SeenByChanged ==
  ASSUME NEW r \in Runners, RunnerStep(r), ~Changed(r)
  PROVE  UNCHANGED << oldStatus, unsatisfied >>
<1>1. CASE Enter(r) \/ Share(r) \/ Acquire(r) \/ Add(r) \/ GiveUp(r) \/ Run(r) \/ Complete(r)
  BY <1>1 DEF Enter, Share, Acquire, Add, GiveUp, Run, Complete, counters
<1>2. CASE Drop(r) \/ Release(r) \/ Subtract(r) \/ End(r)
  BY <1>2 DEF Drop, Release, Subtract, End, counters
<1>3. CASE \E d \in AllDeps : CheckSame(r, d) \/ CheckRead(r, d)
  BY <1>3 DEF CheckSame, CheckRead, counters
<1>4. QED
  BY <1>1, <1>2, <1>3 DEF RunnerStep

\* The places of the dependencies of j last seen unsatisfied.
Unseen(j) == {i \in DOMAIN Deps[j] : oldStatus[Deps[j][i]] # "OK"}

LEMMA UnseenFinite ==
  ASSUME NEW j \in Jobs
  PROVE  /\ IsFiniteSet(Unseen(j)) /\ Cardinality(Unseen(j)) \in Nat
         /\ IsFiniteSet(Unseen(j)') /\ Cardinality(Unseen(j)') \in Nat
<1>1. DOMAIN Deps[j] = 1 .. Len(Deps[j]) /\ Len(Deps[j]) \in Nat
  BY DepsOfJob
<1>2. IsFiniteSet(DOMAIN Deps[j])
  BY <1>1, FS_Interval
<1>3. Unseen(j) \subseteq DOMAIN Deps[j] /\ Unseen(j)' \subseteq DOMAIN Deps[j]
  BY DEF Unseen
<1>4. QED
  BY <1>2, <1>3, FS_Subset, FS_CardinalityType

\* What Changed does to the counts of unsatisfied dependencies.
LEMMA Recount ==
  ASSUME Typed, UnsatisfiedInv, NEW d \in AllDeps, NEW s \in {"OK", "WAIT"},
         oldStatus' = [oldStatus EXCEPT ![d] = s],
         unsatisfied' = [unsatisfied EXCEPT ![TargetOf(d)] = Unsatisfied(d, s)]
  PROVE  UnsatisfiedInv'
<1> SUFFICES ASSUME NEW j \in Jobs
             PROVE  unsatisfied'[j] = Cardinality(Unseen(j)')
  BY DEF UnsatisfiedInv, Unseen
<1>1. /\ oldStatus \in [AllDeps -> {"OK", "WAIT"}] /\ unsatisfied \in [Jobs -> Int]
      /\ unsatisfied[j] = Cardinality(Unseen(j)) /\ TargetOf(d) \in Jobs
  BY TargetType DEF Typed, UnsatisfiedInv, Unseen
<1>2. CASE TargetOf(d) # j
  <2>1. \A i \in DOMAIN Deps[j] : Deps[j][i] # d
    BY <1>2, DepPlace
  <2>2. \A i \in DOMAIN Deps[j] : oldStatus'[Deps[j][i]] = oldStatus[Deps[j][i]]
    BY <1>1, <2>1, DepPlace
  <2>3. Unseen(j)' = Unseen(j)
    BY <2>2 DEF Unseen
  <2>4. QED
    BY <1>1, <1>2, <2>3
<1>3. CASE TargetOf(d) = j
  <2>1. PICK p \in DOMAIN Deps[j] : Deps[j][p] = d
    BY <1>3, DepPlace
  <2>2. /\ oldStatus'[Deps[j][p]] = s
        /\ \A i \in DOMAIN Deps[j] \ {p} : oldStatus'[Deps[j][i]] = oldStatus[Deps[j][i]]
    BY <1>1, <2>1, DepPlace
  <2>3. unsatisfied'[j] = Cardinality(Unseen(j)) - (Ok(s) - Ok(oldStatus[d]))
    BY <1>1, <1>3 DEF Unsatisfied
  <2>4. CASE s = "OK"
    <3>1. Unseen(j)' = Unseen(j) \ {p}
      BY <2>2, <2>4 DEF Unseen
    <3>2. p \in Unseen(j) <=> oldStatus[d] # "OK"
      BY <2>1 DEF Unseen
    <3>3. Cardinality(Unseen(j)') = IF p \in Unseen(j) THEN Cardinality(Unseen(j)) - 1
                                                       ELSE Cardinality(Unseen(j))
      BY <3>1, UnseenFinite, FS_RemoveElement
    <3>4. QED
      BY <2>3, <2>4, <3>2, <3>3, UnseenFinite DEF Ok
  <2>5. CASE s = "WAIT"
    <3>1. Unseen(j)' = Unseen(j) \cup {p}
      BY <2>2, <2>5 DEF Unseen
    <3>2. p \in Unseen(j) <=> oldStatus[d] # "OK"
      BY <2>1 DEF Unseen
    <3>3. Cardinality(Unseen(j)') = IF p \in Unseen(j) THEN Cardinality(Unseen(j))
                                                       ELSE Cardinality(Unseen(j)) + 1
      BY <3>1, UnseenFinite, FS_AddElement
    <3>4. QED
      BY <2>3, <2>5, <3>2, <3>3, UnseenFinite DEF Ok
  <2>6. QED
    BY <2>4, <2>5
<1>4. QED
  BY <1>2, <1>3

\* What a check that is under way tells.
LEMMA InformingSomething ==
  ASSUME Typed, PendingInv, NEW r \in Runners, Informing(r)
  PROVE  /\ pending[r].dep \in AllDeps /\ pending[r].dep # Nobody
         /\ TargetOf(pending[r].dep) \in Jobs
<1>1. pending[r].dep \in AllDeps
  BY DEF PendingInv, Informing
<1>2. QED
  BY <1>1, TargetType, CounterAssumption

LEMMA UnsatisfiedStep ==
  ASSUME Typed, PendingInv, UnsatisfiedInv, [Next]_vars
  PROVE  UnsatisfiedInv'
<1>1. ASSUME NEW r \in Runners, Changed(r)
      PROVE  UnsatisfiedInv'
  <2> DEFINE d == pending[r].dep
             s == IF pending[r].read = 1 THEN "OK" ELSE "WAIT"
  <2>1. d \in AllDeps
    BY <1>1, InformingSomething DEF Changed, Informing
  <2>2. /\ oldStatus' = [oldStatus EXCEPT ![d] = s]
        /\ unsatisfied' = [unsatisfied EXCEPT ![TargetOf(d)] = Unsatisfied(d, s)]
    BY <1>1 DEF Changed
  <2>3. s \in {"OK", "WAIT"}
    OBVIOUS
  <2> HIDE DEF d, s
  <2>4. QED
    BY <2>1, <2>2, <2>3, Recount
<1>2. CASE UNCHANGED << oldStatus, unsatisfied >>
  BY <1>2 DEF UnsatisfiedInv
<1>3. QED
  BY <1>1, <1>2, SplitRest, SeenByChanged DEF counters

\* What a runner has to check.
ChecksOf(r) ==
  /\ pc[r] \in {"idle", "starting", "locking", "executing"} => Idle(r)
  /\ pc[r] = "adding" \/ Subtracting(r) => todo[r] = {}

LEMMA ChecksStep ==
  ASSUME Typed, ChecksInv, [Next]_vars
  PROVE  ChecksInv'
<1>1. ASSUME NEW r \in Runners, RunnerStep(r)
      PROVE  ChecksInv'
  <2>0. /\ pc \in [Runners -> PCs] /\ pending \in [Runners -> PendingType]
        /\ todo \in [Runners -> SUBSET AllDeps]
    BY DEF Typed, PendingType
  <2>1. ASSUME NEW q \in Runners, q # r
        PROVE  ChecksOf(q)'
    <3>1. /\ pending'[q] = pending[q] /\ todo'[q] = todo[q]
          /\ pc'[q] = pc[q] \/ (pc[q] = "idle" /\ pc'[q] = "starting")
      BY <1>1, <2>1, OthersKept
    <3>2. QED
      BY <3>1 DEF ChecksInv, ChecksOf, Idle, Subtracting
  <2>2. ChecksOf(r)'
    <3> USE <2>0 DEF ChecksInv, ChecksOf, Idle, Subtracting
    <3>1. CASE Enter(r) \/ Share(r) \/ Add(r) \/ GiveUp(r) \/ Run(r)
      BY <3>1 DEF Enter, Share, Add, GiveUp, Run
    <3>2. CASE Acquire(r)
      BY <3>2 DEF Acquire
    <3>3. CASE Complete(r) \/ Drop(r) \/ Release(r) \/ Subtract(r) \/ End(r)
      BY <3>3 DEF Complete, Drop, Release, Subtract, End
    <3>4. CASE \E d \in AllDeps : CheckSame(r, d) \/ CheckRead(r, d)
      BY <3>4 DEF CheckSame, CheckRead, Checking
    <3>5. CASE Changed(r)
      <4>1. pc[r] \in {"refused", "giving up", "clearing"} /\ pc'[r] = pc[r]
        BY <3>5 DEF Changed
      <4>2. QED
        BY <4>1
    <3>6. QED
      BY <1>1, <3>1, <3>2, <3>3, <3>4, <3>5 DEF RunnerStep
  <2>3. QED
    BY <2>1, <2>2 DEF ChecksInv, ChecksOf
<1>2. CASE UNCHANGED << pc, pending, todo >>
  BY <1>2 DEF ChecksInv, Idle, Subtracting
<1>3. QED
  BY <1>1, <1>2, SplitRest

\* A runner that informs the target of a dependency does nothing else first, and
\* it forgets no dependency that it has to check.
LEMMA ChecksDone ==
  ASSUME Typed, ChecksInv, NEW r \in Runners, RunnerStep(r)
  PROVE  /\ Informing(r) => Changed(r)
         /\ \A d \in todo[r] : d \in todo'[r] \/ CheckSame(r, d) \/ CheckRead(r, d)
<1>0. /\ pc \in [Runners -> PCs] /\ pending \in [Runners -> PendingType]
      /\ todo \in [Runners -> SUBSET AllDeps]
  BY DEF Typed, PendingType
<1> USE <1>0 DEF ChecksInv, Idle, Informing, Subtracting
<1>1. CASE Enter(r) \/ Share(r) \/ Add(r) \/ GiveUp(r) \/ Run(r)
  BY <1>1 DEF Enter, Share, Add, GiveUp, Run
<1>2. CASE Acquire(r)
  BY <1>2 DEF Acquire
<1>3. CASE Complete(r) \/ Drop(r) \/ Release(r) \/ Subtract(r) \/ End(r)
  BY <1>3 DEF Complete, Drop, Release, Subtract, End
<1>4. ASSUME NEW e \in AllDeps, CheckSame(r, e) \/ CheckRead(r, e)
      PROVE  /\ ~Informing(r)
             /\ \A d \in todo[r] : d \in todo'[r] \/ d = e
  BY <1>4 DEF CheckSame, CheckRead, Checking
<1>5. CASE Changed(r)
  BY <1>5 DEF Changed
<1>6. QED
  BY <1>1, <1>2, <1>3, <1>4, <1>5 DEF RunnerStep

\* A status changes with the counter of its token, and only with it.
LEMMA StatusKept ==
  ASSUME Typed, PendingInv, LocksInv, CountInv, NEW r \in Runners, RunnerStep(r),
         disturbed' = {}, NEW d \in AllDeps,
         Add(r) \/ Subtract(r) => Origin[d] # Origin[pending[r].dep]
  PROVE  Status(d)' = Status(d)
<1>1. Origin[d] \in Tokens /\ need' = need /\ limit' = limit
  BY NeverChanged, TokenTypes
<1>2. "race" \notin disturbed'
  OBVIOUS
<1>3. used'[Origin[d]] = used[Origin[d]]
  BY <1>1, <1>2, UsedStep
<1>4. QED
  BY <1>1, <1>3 DEF Status

\* What a runner has read of the status of d, or was refused, and has still to use.
Watches(q, d) == \/ pending[q] # Nothing /\ d = pending[q].dep
                 \/ pc[q] = "refused" /\ d \in todo[q]

\* While nothing is disturbed, nobody counts on a token that another watches.
LEMMA MetNoWatch ==
  ASSUME NEW r \in Runners, Add(r) \/ Subtract(r), disturbed' = {},
         NEW q \in Runners, q # r, NEW d \in AllDeps, Watches(q, d)
  PROVE  Origin[d] # Origin[pending[r].dep]
<1>1. ~Overlaps(r, Origin[pending[r].dep])
  BY DEF Add, Subtract, Note
<1>2. QED
  BY <1>1 DEF Overlaps, Watches

\* StatusInv for one runner.
StatusOf(q) ==
  /\ Informing(q) => pending[q].read = Ok(Status(pending[q].dep))
  /\ pc[q] = "refused" => \A d \in AllDeps : d \in todo[q] \/ d = pending[q].dep =>
       TargetOf(d) = q[1] /\ Status(d) = "WAIT" /\ ~Live(d)

LEMMA StatusEach ==
  /\ StatusInv <=> (disturbed = {} => \A q \in Runners : StatusOf(q))
  /\ StatusInv' <=> (disturbed' = {} => \A q \in Runners : StatusOf(q)')
  BY DEF StatusInv, StatusOf

LEMMA StatusOthers ==
  ASSUME Typed, PendingInv, MutexInv, LocksInv, CountInv, NEW r \in Runners, RunnerStep(r),
         disturbed' = {}, NEW q \in Runners, q # r, StatusOf(q)
  PROVE  StatusOf(q)'
<1>1. /\ pending'[q] = pending[q] /\ todo'[q] = todo[q]
      /\ pc'[q] = pc[q] \/ (pc[q] = "idle" /\ pc'[q] = "starting")
  BY OthersKept
<1>2. \A d \in AllDeps : Watches(q, d) => Status(d)' = Status(d)
  BY MetNoWatch, StatusKept
<1>3. ASSUME Informing(q)' PROVE (pending[q].read = Ok(Status(pending[q].dep)))'
  <2>0. PICK d : d = pending[q].dep
    OBVIOUS
  <2>1. Informing(q)
    BY <1>1, <1>3 DEF Informing
  <2>2. d \in AllDeps /\ Watches(q, d)
    BY <2>0, <2>1, InformingSomething DEF Informing, Watches
  <2>3. pending'[q].read = Ok(Status(d)) /\ Status(d)' = Status(d) /\ pending'[q].dep = d
    BY <1>1, <1>2, <2>0, <2>1, <2>2 DEF StatusOf
  <2>4. QED
    BY <2>3 DEF Ok, Status
<1>4. ASSUME pc'[q] = "refused", NEW d \in AllDeps, d \in todo'[q] \/ d = pending'[q].dep
      PROVE  TargetOf(d) = q[1] /\ Status(d)' = "WAIT" /\ ~Live(d)'
  <2>1. pc[q] = "refused" /\ (d \in todo[q] \/ d = pending[q].dep)
    BY <1>1, <1>4
  <2>2. Watches(q, d)
    BY <2>1, CounterAssumption DEF Watches, Nothing
  <2>3. TargetOf(d) = q[1] /\ Status(d) = "WAIT" /\ ~Live(d)
    BY <2>1 DEF StatusOf
  <2>4. pc[r] # "adding"
    BY <2>1 DEF MutexInv
  <2>5. ~Live(d)'
    BY <2>3, <2>4, LiveStep
  <2>6. QED
    BY <1>2, <2>2, <2>3, <2>5
<1>5. QED
  BY <1>3, <1>4 DEF StatusOf

\* A runner is refused by Acquire; afterwards it has only less to check.
LEMMA RefusedBy ==
  ASSUME Typed, ChecksInv, NEW r \in Runners, RunnerStep(r), pc'[r] = "refused",
         NEW d \in AllDeps, d \in todo'[r] \/ d = pending'[r].dep
  PROVE  \/ pc[r] = "refused" /\ (d \in todo[r] \/ d = pending[r].dep) /\ locks' = locks
         \/ Acquire(r) /\ d = Next1(r) /\ Plus(need[d], used[Origin[d]]) > limit[Origin[d]]
<1>0. /\ pc \in [Runners -> PCs] /\ pending \in [Runners -> PendingType]
      /\ todo \in [Runners -> SUBSET AllDeps] /\ d # Nobody
  BY CounterAssumption DEF Typed, PendingType
<1>1. CASE Enter(r) \/ Share(r) \/ Add(r) \/ GiveUp(r) \/ Run(r) \/ Complete(r)
  BY <1>0, <1>1 DEF Enter, Share, Add, GiveUp, Run, Complete
<1>2. CASE Drop(r) \/ Release(r) \/ Subtract(r) \/ End(r)
  BY <1>0, <1>2 DEF Drop, Release, Subtract, End
<1>3. CASE Acquire(r)
  <2>1. pending[r] = Nothing
    BY <1>3 DEF Acquire, ChecksInv, Idle
  <2>2. pending' = pending /\ todo' = [todo EXCEPT ![r] = {Next1(r)}]
    BY <1>0, <1>3 DEF Acquire
  <2>3. d = Next1(r)
    BY <1>0, <2>1, <2>2 DEF Nothing
  <2>4. Plus(need[d], used[Origin[d]]) > limit[Origin[d]]
    BY <1>0, <1>3, <2>3 DEF Acquire
  <2>5. QED
    BY <1>3, <2>3, <2>4
<1>4. CASE \E e \in AllDeps : CheckSame(r, e) \/ CheckRead(r, e)
  <2>1. PICK e \in AllDeps : CheckSame(r, e) \/ CheckRead(r, e)
    BY <1>4
  <2>2. pc' = pc /\ locks' = locks /\ e \in todo[r] /\ todo'[r] = todo[r] \ {e}
    BY <1>0, <2>1 DEF CheckSame, CheckRead
  <2>3. pending'[r] = pending[r] \/ pending'[r].dep = e
    BY <1>0, <2>1 DEF CheckSame, CheckRead
  <2>4. QED
    BY <2>2, <2>3
<1>5. CASE Changed(r)
  <2>1. pending'[r] = Nothing /\ todo' = todo /\ locks' = locks
    BY <1>0, <1>5 DEF Changed
  <2>2. pc[r] = "refused"
    BY <1>0, <1>5 DEF Changed
  <2>3. QED
    BY <1>0, <2>1, <2>2 DEF Nothing
<1>6. QED
  BY <1>1, <1>2, <1>3, <1>4, <1>5 DEF RunnerStep

\* Who informs has just read.
LEMMA InformsBy ==
  ASSUME Typed, ChecksInv, NEW r \in Runners, RunnerStep(r), Informing(r)'
  PROVE  \E d \in AllDeps : CheckRead(r, d)
<1>0. pc \in [Runners -> PCs] /\ pending \in [Runners -> PendingType]
  BY DEF Typed, PendingType
<1> USE <1>0 DEF Informing, ChecksInv, Idle
<1>1. CASE Enter(r) \/ Share(r) \/ Add(r) \/ GiveUp(r) \/ Run(r) \/ Complete(r)
  BY <1>1 DEF Enter, Share, Add, GiveUp, Run, Complete
<1>2. CASE Drop(r) \/ Release(r) \/ Subtract(r) \/ End(r)
  BY <1>2 DEF Drop, Release, Subtract, End
<1>3. CASE Acquire(r)
  BY <1>3 DEF Acquire
<1>4. CASE \E d \in AllDeps : CheckSame(r, d)
  BY <1>4 DEF CheckSame, Checking
<1>5. CASE Changed(r)
  BY <1>5 DEF Changed
<1>6. QED
  BY <1>1, <1>2, <1>3, <1>4, <1>5 DEF RunnerStep

LEMMA StatusOwn ==
  ASSUME Typed, PendingInv, LocksInv, CountInv, ChecksInv, NEW r \in Runners, RunnerStep(r),
         disturbed' = {}, StatusOf(r)
  PROVE  StatusOf(r)'
<1>0. /\ pc \in [Runners -> PCs] /\ pending \in [Runners -> PendingType]
      /\ need' = need /\ limit' = limit
  BY NeverChanged DEF Typed, PendingType
<1>1. ASSUME Informing(r)' PROVE (pending[r].read = Ok(Status(pending[r].dep)))'
  <2>1. PICK d \in AllDeps : CheckRead(r, d)
    BY <1>1, InformsBy
  <2>2. pending'[r] = [dep |-> d, read |-> Ok(Status(d))] /\ used' = used
    BY <1>0, <2>1 DEF CheckRead, counters
  <2>3. pending'[r].dep = d /\ pending'[r].read = Ok(Status(d)) /\ Status(d)' = Status(d)
    BY <1>0, <2>2 DEF Status
  <2>4. QED
    BY <2>3 DEF Ok, Status
<1>2. ASSUME pc'[r] = "refused", NEW d \in AllDeps, d \in todo'[r] \/ d = pending'[r].dep
      PROVE  TargetOf(d) = r[1] /\ Status(d)' = "WAIT" /\ ~Live(d)'
  <2>1. ~Add(r) /\ ~Subtract(r)
    BY <1>0, <1>2 DEF Add, Subtract
  <2>2. Status(d)' = Status(d)
    BY <2>1, StatusKept
  <2>3. CASE pc[r] = "refused" /\ (d \in todo[r] \/ d = pending[r].dep) /\ locks' = locks
    BY <2>2, <2>3, LiveIn DEF StatusOf
  <2>4. CASE Acquire(r) /\ d = Next1(r) /\ Plus(need[d], used[Origin[d]]) > limit[Origin[d]]
    <3>1. Len(locks[r]) + 1 \in DOMAIN Deps[r[1]] /\ Deps[r[1]][Len(locks[r]) + 1] = d
      BY <2>4, NextDep DEF Acquire, Next1
    <3>2. TargetOf(d) = r[1]
      BY <3>1, DepPlace, RunnerJob
    <3>3. ~Live(d)'
      BY <2>4, LiveIn DEF Acquire
    <3>4. Status(d) = "WAIT"
      <4>1. need[d] \in Int /\ used[Origin[d]] \in Int /\ limit[Origin[d]] \in Int
        BY TokenTypes
      <4>2. Plus(need[d], used[Origin[d]]) = Plus(used[Origin[d]], need[d])
        BY <4>1 DEF Plus
      <4>3. Plus(used[Origin[d]], need[d]) \in Int
        <5>1. Plus(used[Origin[d]], need[d]) \in UInt
          BY <4>1, SumType
        <5>2. QED
          BY <5>1 DEF UInt
      <4>4. ~(Plus(used[Origin[d]], need[d]) <= limit[Origin[d]])
        BY <2>4, <4>1, <4>2, <4>3
      <4>5. QED
        BY <4>4 DEF Status
    <3>5. QED
      BY <2>2, <3>2, <3>3, <3>4
  <2>5. QED
    BY <1>2, <2>3, <2>4, RefusedBy
<1>3. QED
  BY <1>1, <1>2 DEF StatusOf

LEMMA StatusStep ==
  ASSUME Typed, PendingInv, MutexInv, LocksInv, CountInv, ChecksInv, StatusInv, [Next]_vars
  PROVE  StatusInv'
<1>1. ASSUME NEW r \in Runners, RunnerStep(r), disturbed' = {}
      PROVE  \A q \in Runners : StatusOf(q)'
  <2>1. disturbed = {}
    BY <1>1, NeverChanged
  <2>2. QED
    BY <1>1, <2>1, StatusOthers, StatusOwn, StatusEach
<1>2. CASE UNCHANGED << need, used, limit, disturbed, pc, locks, pending, todo >>
  BY <1>2 DEF StatusInv, Informing, Status, Live
<1>3. QED
  BY <1>1, <1>2, StatusEach, SplitRest DEF counters

-----------------------------------------------------------------------------
(* What was left, and who tells it.                                        *)

\* LeftInv for one job.
LeftOf(j) ==
  \/ Short(j)
  \/ \E k \in Threads : Busy(<<j, k>>)
  \/ state[j] = "DONE" /\ \A k \in Threads : pc[<<j, k>>] # "refused"

LEMMA LeftEach ==
  /\ LeftInv <=> (disturbed = {} => \A j \in Jobs : LeftOf(j))
  /\ LeftInv' <=> (disturbed' = {} => \A j \in Jobs : LeftOf(j)')
  BY DEF LeftInv, LeftOf

\* The runners of a job.
LEMMA RunnersOf ==
  ASSUME NEW j \in Jobs
  PROVE  /\ \A k \in Threads : <<j, k>> \in Runners /\ <<j, k>>[1] = j
         /\ \A r \in Runners : r[1] = j => \E k \in Threads : r = <<j, k>>
  BY DEF Runners

\* A runner that is busy stays busy while another makes a step.
LEMMA OthersBusy ==
  ASSUME Typed, NEW r \in Runners, RunnerStep(r), NEW q \in Runners, q # r
  PROVE  /\ Busy(q) => Busy(q)'
         /\ pc'[q] = "refused" => pc[q] = "refused"
<1>1. /\ pending'[q] = pending[q] /\ todo'[q] = todo[q]
      /\ pc'[q] = pc[q] \/ (pc[q] = "idle" /\ pc'[q] = "starting")
  BY OthersKept
<1>2. QED
  BY <1>1 DEF Busy, Idle

\* A runner sets the state of its own job only.
LEMMA StateKept ==
  ASSUME Typed, NEW r \in Runners, RunnerStep(r), NEW j \in Jobs
  PROVE  \/ state'[j] = state[j]
         \/ j = r[1] /\ (GiveUp(r) \/ Run(r) \/ Complete(r))
<1>0. state \in [Jobs -> {"WAITING", "READY", "RUNNING", "DONE"}] /\ r[1] \in Jobs
  BY RunnerJob DEF Typed
<1>1. CASE GiveUp(r) \/ Run(r) \/ Complete(r)
  BY <1>0, <1>1 DEF GiveUp, Run, Complete
<1>2. CASE Enter(r) \/ Share(r) \/ Acquire(r) \/ Add(r)
  BY <1>2 DEF Enter, Share, Acquire, Add
<1>3. CASE Drop(r) \/ Release(r) \/ Subtract(r) \/ End(r) \/ Changed(r)
  BY <1>3 DEF Drop, Release, Subtract, End, Changed
<1>4. CASE \E d \in AllDeps : CheckSame(r, d) \/ CheckRead(r, d)
  BY <1>4 DEF CheckSame, CheckRead
<1>5. QED
  BY <1>1, <1>2, <1>3, <1>4 DEF RunnerStep

\* A job keeps what it lacks while no dependency changes.
LEMMA ShortKept ==
  ASSUME oldStatus' = oldStatus, NEW j \in Jobs
  PROVE  Short(j)' <=> Short(j)
  BY DEF Short

\* A busy runner stays busy, or ends its job, or was refused and still would be.
LEMMA BusyStep ==
  ASSUME Typed, NEW r \in Runners, RunnerStep(r), ~Changed(r), StatusOf(r), Busy(r)
  PROVE  Busy(r)' \/ Complete(r) \/ Short(r[1])
<1>0. /\ pc \in [Runners -> PCs] /\ pending \in [Runners -> PendingType]
      /\ todo \in [Runners -> SUBSET AllDeps]
  BY DEF Typed, PendingType
<1>1. CASE Enter(r) \/ Share(r) \/ Add(r) \/ Run(r)
  BY <1>0, <1>1 DEF Enter, Share, Add, Run, Busy
<1>2. CASE Acquire(r)
  <2>1. pc'[r] = "adding" \/ (pc'[r] = "refused" /\ todo'[r] # {})
    BY <1>0, <1>2 DEF Acquire
  <2>2. QED
    BY <2>1 DEF Busy, Idle
<1>3. ~GiveUp(r)
  BY DEF GiveUp, Busy
<1>4. ~Drop(r) /\ ~Release(r) /\ ~Subtract(r) /\ ~End(r)
  BY DEF Drop, Release, Subtract, End, Busy
<1>5. ASSUME NEW d \in AllDeps, CheckSame(r, d) PROVE Short(r[1])
  <2>1. pc[r] = "refused" /\ d \in todo[r] /\ (Live(d) \/ Status(d) = oldStatus[d])
    BY <1>5 DEF CheckSame, Checking, Busy
  <2>2. TargetOf(d) = r[1] /\ oldStatus[d] = "WAIT"
    BY <2>1 DEF StatusOf
  <2>3. \E i \in DOMAIN Deps[r[1]] : Deps[r[1]][i] = d
    BY <2>2, DepPlace, RunnerJob
  <2>4. QED
    BY <2>2, <2>3 DEF Short
<1>6. ASSUME NEW d \in AllDeps, CheckRead(r, d) PROVE Busy(r)'
  <2>1. PICK n \in {0, 1} : n = Ok(Status(d))
    BY DEF Ok
  <2>2. pending'[r] = [dep |-> d, read |-> n] /\ pc'[r] = "refused"
    BY <1>0, <1>6, <2>1 DEF CheckRead, Checking, Busy
  <2>3. pending'[r] # Nothing
    BY <2>2, PendingOf
  <2>4. QED
    BY <2>2, <2>3 DEF Busy, Idle
<1>7. QED
  BY <1>1, <1>2, <1>3, <1>4, <1>5, <1>6 DEF RunnerStep

\* A runner that is refused has something to check.
LEMMA RefusedBusy ==
  ASSUME Typed, NEW r \in Runners, RunnerStep(r), pc'[r] = "refused"
  PROVE  pc[r] = "refused" \/ Busy(r)'
<1>0. pc \in [Runners -> PCs] /\ todo \in [Runners -> SUBSET AllDeps]
  BY DEF Typed
<1>1. CASE Acquire(r)
  <2>1. todo'[r] # {}
    BY <1>0, <1>1 DEF Acquire
  <2>2. QED
    BY <2>1 DEF Busy, Idle
<1>2. CASE Enter(r) \/ Share(r) \/ Add(r) \/ GiveUp(r) \/ Run(r) \/ Complete(r)
  BY <1>0, <1>2 DEF Enter, Share, Add, GiveUp, Run, Complete
<1>3. CASE Drop(r) \/ Release(r) \/ Subtract(r) \/ End(r)
  BY <1>0, <1>3 DEF Drop, Release, Subtract, End
<1>4. CASE \E d \in AllDeps : CheckSame(r, d) \/ CheckRead(r, d)
  BY <1>4 DEF CheckSame, CheckRead
<1>5. CASE Changed(r)
  BY <1>0, <1>5 DEF Changed
<1>6. QED
  BY <1>1, <1>2, <1>3, <1>4, <1>5 DEF RunnerStep

\* Who completes holds the mutex alone: nobody is being refused.
LEMMA CompleteAlone ==
  ASSUME Typed, MutexInv, NEW r \in Runners, Complete(r), NEW q \in Runners
  PROVE  pc'[q] # "refused" /\ state'[r[1]] = "DONE"
<1>1. Nobody \notin Runners /\ mutex = Nobody
  BY CounterAssumption DEF Complete
<1>2. pc[q] # "refused"
  BY <1>1 DEF MutexInv
<1>3. pc \in [Runners -> PCs] /\ state \in [Jobs -> {"WAITING", "READY", "RUNNING", "DONE"}]
  BY DEF Typed
<1>4. pc' = [pc EXCEPT ![r] = "clearing"] /\ state' = [state EXCEPT ![r[1]] = "DONE"]
  BY DEF Complete
<1>5. QED
  BY <1>2, <1>3, <1>4, RunnerJob

\* The steps in which no dependency changes.
LEMMA LeftUnseen ==
  ASSUME Typed, MutexInv, NEW r \in Runners, RunnerStep(r), ~Changed(r), StatusOf(r),
         NEW j \in Jobs, LeftOf(j)
  PROVE  LeftOf(j)'
<1>0. Short(j) => Short(j)'
  BY ShortKept, SeenByChanged
<1>1. CASE Short(j)
  BY <1>0, <1>1 DEF LeftOf
<1>2. ASSUME Complete(r), j = r[1] PROVE LeftOf(j)'
  <2>1. state'[j] = "DONE" /\ \A k \in Threads : pc'[<<j, k>>] # "refused"
    BY <1>2, CompleteAlone, RunnersOf
  <2>2. QED
    BY <2>1 DEF LeftOf
<1>3. ASSUME NEW k \in Threads, Busy(<<j, k>>)' PROVE LeftOf(j)'
  BY <1>3 DEF LeftOf
<1>4. ASSUME NEW q \in Runners, q[1] = j, Busy(q)' PROVE LeftOf(j)'
  <2>1. PICK k \in Threads : q = <<j, k>>
    BY <1>4, RunnersOf
  <2>2. QED
    BY <1>3, <1>4, <2>1 DEF Busy, Idle
<1>5. ASSUME NEW k \in Threads, Busy(<<j, k>>) PROVE LeftOf(j)'
  <2>1. PICK q \in Runners : q = <<j, k>> /\ q[1] = j /\ Busy(q)
    BY <1>5, RunnersOf
  <2>2. CASE q # r
    BY <1>4, <2>1, <2>2, OthersBusy
  <2>3. CASE q = r
    BY <1>1, <1>2, <1>4, <2>1, <2>3, BusyStep
  <2>4. QED
    BY <2>2, <2>3
<1>6. ASSUME state[j] = "DONE", \A k \in Threads : pc[<<j, k>>] # "refused"
      PROVE  LeftOf(j)'
  <2>1. \A q \in Runners : q[1] = j => pc[q] # "refused"
    BY <1>6, RunnersOf
  <2>2. CASE j = r[1] /\ (GiveUp(r) \/ Run(r) \/ Complete(r))
    <3>1. ~GiveUp(r)
      BY <2>1, <2>2 DEF GiveUp
    <3>2. CASE Run(r)
      <4>1. Busy(r)'
        BY <3>2 DEF Run, Busy, Typed
      <4>2. QED
        BY <1>4, <2>2, <4>1
    <3>3. QED
      BY <1>2, <2>2, <3>1, <3>2
  <2>3. CASE state'[j] = state[j]
    <3>1. CASE \E q \in Runners : q[1] = j /\ pc'[q] = "refused"
      <4>1. PICK q \in Runners : q[1] = j /\ pc'[q] = "refused"
        BY <3>1
      <4>2. q = r
        BY <2>1, <4>1, OthersBusy
      <4>3. Busy(r)'
        BY <2>1, <4>1, <4>2, RefusedBusy
      <4>4. QED
        BY <1>4, <4>1, <4>2, <4>3
    <3>2. CASE \A q \in Runners : q[1] = j => pc'[q] # "refused"
      <4>1. \A k \in Threads : pc'[<<j, k>>] # "refused"
        BY <3>2, RunnersOf
      <4>2. QED
        BY <1>6, <2>3, <4>1 DEF LeftOf
    <3>3. QED
      BY <3>1, <3>2
  <2>4. QED
    BY <2>2, <2>3, StateKept
<1>7. QED
  BY <1>1, <1>5, <1>6 DEF LeftOf

\* What Changed does: d is seen as s.
Sees(r, d, s) ==
  /\ d = pending[r].dep /\ d \in AllDeps
  /\ s = IF pending[r].read = 1 THEN "OK" ELSE "WAIT"

LEMMA ChangedSees ==
  ASSUME Typed, PendingInv, NEW r \in Runners, Changed(r), NEW d, NEW s, Sees(r, d, s)
  PROVE  /\ Informing(r) /\ TargetOf(d) \in Jobs
         /\ oldStatus' = [oldStatus EXCEPT ![d] = s]
         /\ oldStatus'[d] = s /\ \A e \in AllDeps \ {d} : oldStatus'[e] = oldStatus[e]
         /\ unsatisfied'[TargetOf(d)] = Unsatisfied(d, s)
         /\ IF Unsatisfied(d, s) = 0
            THEN \E k \in Threads : pc[<<TargetOf(d), k>>] = "idle" /\ pc'[<<TargetOf(d), k>>] = "starting"
            ELSE pc' = pc
         /\ \A q \in Runners : pc'[q] = pc[q] \/ pc'[q] = "starting"
         /\ state' = state
<1>0. /\ oldStatus \in [AllDeps -> {"OK", "WAIT"}] /\ unsatisfied \in [Jobs -> Int]
      /\ pc \in [Runners -> PCs]
  BY DEF Typed
<1>1. Informing(r) /\ TargetOf(d) \in Jobs /\ d \in AllDeps
  BY TargetType DEF Sees, Changed, Informing
<1>2. /\ oldStatus' = [oldStatus EXCEPT ![d] = s]
      /\ unsatisfied' = [unsatisfied EXCEPT ![TargetOf(d)] = Unsatisfied(d, s)]
      /\ IF Unsatisfied(d, s) = 0
         THEN \E k \in Threads : /\ pc[<<TargetOf(d), k>>] = "idle"
                                 /\ pc' = [pc EXCEPT ![<<TargetOf(d), k>>] = "starting"]
         ELSE pc' = pc
      /\ state' = state
  BY DEF Sees, Changed
<1>3. CASE Unsatisfied(d, s) = 0
  <2>1. PICK k \in Threads : /\ pc[<<TargetOf(d), k>>] = "idle"
                             /\ pc' = [pc EXCEPT ![<<TargetOf(d), k>>] = "starting"]
    BY <1>2, <1>3
  <2>2. <<TargetOf(d), k>> \in Runners
    BY <1>1 DEF Runners
  <2>3. /\ pc'[<<TargetOf(d), k>>] = "starting"
        /\ \A q \in Runners : pc'[q] = pc[q] \/ pc'[q] = "starting"
    BY <1>0, <2>1, <2>2
  <2>4. QED
    BY <1>0, <1>1, <1>2, <1>3, <2>1, <2>3
<1>4. CASE Unsatisfied(d, s) # 0
  BY <1>0, <1>1, <1>2, <1>4
<1>5. QED
  BY <1>3, <1>4

\* The step in which a job learns of a dependency.
LEMMA LeftChanged ==
  ASSUME Typed, PendingInv, UnsatisfiedInv, NEW r \in Runners, Changed(r), StatusOf(r),
         NEW j \in Jobs, LeftOf(j)
  PROVE  LeftOf(j)'
<1>1. PICK d, s : Sees(r, d, s)
  <2>1. pending[r].dep \in AllDeps
    BY InformingSomething DEF Changed, Informing
  <2>2. QED
    BY <2>1 DEF Sees
<1>2. /\ d \in AllDeps /\ s \in {"OK", "WAIT"} /\ Informing(r) /\ RunnerStep(r)
      /\ pc[r] = "refused" => TargetOf(d) = r[1]
  BY <1>1, ChangedSees DEF Sees, StatusOf, RunnerStep
<1>3. \A i \in DOMAIN Deps[j] : Deps[j][i] \in AllDeps
  BY DEF AllDeps
<1>4. CASE TargetOf(d) # j
  <2>1. \A i \in DOMAIN Deps[j] : oldStatus'[Deps[j][i]] = oldStatus[Deps[j][i]]
    <3>1. \A i \in DOMAIN Deps[j] : Deps[j][i] # d
      BY <1>2, <1>4, DepPlace
    <3>2. QED
      BY <1>1, <1>3, <3>1, ChangedSees
  <2>2. Short(j) => Short(j)'
    BY <2>1 DEF Short
  <2>3. ASSUME NEW q \in Runners, q[1] = j, Busy(q) PROVE Busy(q)'
    <3>1. CASE q # r
      BY <1>2, <2>3, <3>1, OthersBusy
    <3>2. CASE q = r
      <4>1. pc[r] = "refused"
        BY <1>2, <2>3, <3>2 DEF Busy, Informing
      <4>2. QED
        BY <1>2, <1>4, <2>3, <3>2, <4>1
    <3>3. QED
      BY <3>1, <3>2
  <2>4. ASSUME NEW k \in Threads, Busy(<<j, k>>) PROVE Busy(<<j, k>>)'
    <3>1. PICK q \in Runners : q = <<j, k>> /\ q[1] = j /\ Busy(q)
      BY <2>4, RunnersOf
    <3>2. Busy(q)'
      BY <2>3, <3>1
    <3>3. QED
      BY <3>1, <3>2 DEF Busy, Idle
  <2>5. ASSUME NEW k \in Threads, pc[<<j, k>>] # "refused" PROVE pc'[<<j, k>>] # "refused"
    BY <1>1, <2>5, ChangedSees, RunnersOf
  <2>6. state'[j] = state[j]
    BY <1>1, ChangedSees
  <2>7. QED
    BY <2>2, <2>4, <2>5, <2>6 DEF LeftOf
<1>5. CASE TargetOf(d) = j /\ s = "WAIT"
  <2>1. PICK i \in DOMAIN Deps[j] : Deps[j][i] = d
    BY <1>2, <1>5, DepPlace
  <2>2. oldStatus'[Deps[j][i]] = "WAIT"
    BY <1>1, <1>5, <2>1, ChangedSees
  <2>3. QED
    BY <2>2 DEF LeftOf, Short
<1>6. CASE TargetOf(d) = j /\ s = "OK" /\ Unsatisfied(d, s) = 0
  <2>1. PICK k \in Threads : pc'[<<j, k>>] = "starting"
    BY <1>1, <1>6, ChangedSees
  <2>2. Busy(<<j, k>>)'
    BY <2>1 DEF Busy
  <2>3. QED
    BY <2>2 DEF LeftOf
<1>7. CASE TargetOf(d) = j /\ s = "OK" /\ Unsatisfied(d, s) # 0
  <2>1. UnsatisfiedInv'
    BY <1>1, <1>2, <1>7, ChangedSees, UnsatisfiedStep DEF Next, Sees
  <2>2. unsatisfied'[j] = Cardinality(Unseen(j)') /\ unsatisfied'[j] # 0
    BY <1>1, <1>7, <2>1, ChangedSees DEF UnsatisfiedInv, Unseen
  <2>3. Unseen(j)' # {}
    BY <2>2, FS_EmptySet
  <2>4. PICK i \in DOMAIN Deps[j] : oldStatus'[Deps[j][i]] # "OK"
    BY <2>3 DEF Unseen
  <2>5. oldStatus' \in [AllDeps -> {"OK", "WAIT"}]
    <3>1. oldStatus \in [AllDeps -> {"OK", "WAIT"}]
      BY DEF Typed
    <3>2. oldStatus' = [oldStatus EXCEPT ![d] = s]
      BY <1>1, ChangedSees
    <3>3. QED
      BY <1>7, <3>1, <3>2
  <2>6. oldStatus'[Deps[j][i]] = "WAIT"
    BY <1>3, <2>4, <2>5
  <2>7. QED
    BY <2>6 DEF LeftOf, Short
<1>8. QED
  BY <1>2, <1>4, <1>5, <1>6, <1>7

LEMMA LeftStep ==
  ASSUME Typed, PendingInv, MutexInv, UnsatisfiedInv, StatusInv, LeftInv, [Next]_vars
  PROVE  LeftInv'
<1>1. ASSUME NEW r \in Runners, RunnerStep(r), disturbed' = {}, NEW j \in Jobs
      PROVE  LeftOf(j)'
  <2>1. StatusOf(r) /\ LeftOf(j)
    BY <1>1, NeverChanged, StatusEach, LeftEach
  <2>2. QED
    BY <1>1, <2>1, LeftUnseen, LeftChanged
<1>2. CASE UNCHANGED << oldStatus, disturbed, state, pc, pending, todo >>
  BY <1>2 DEF LeftInv, Short, Busy, Idle
<1>3. QED
  BY <1>1, <1>2, LeftEach, SplitRest DEF counters

\* ToldInv for one dependency.
ToldOf(d) == oldStatus[d] = "WAIT" /\ need[d] <= limit[Origin[d]] => Told(d)

LEMMA ToldEach ==
  /\ ToldInv <=> (disturbed = {} => \A d \in AllDeps : ToldOf(d))
  /\ ToldInv' <=> (disturbed' = {} => \A d \in AllDeps : ToldOf(d)')
  BY DEF ToldInv, ToldOf

\* A token of which nothing is taken is free.
LEMMA FreeUsed ==
  ASSUME Typed, CountInv, "race" \notin disturbed, NEW t \in Tokens, Taken(t) = {}
  PROVE  used[t] = 0
<1>1. used[t] = Total(Taken(t)) % Width
  BY DEF CountInv, CountsExact
<1>2. Total(Taken(t)) = 0
  BY UnitsNone DEF Total
<1>3. 0 \in UInt
  BY WidthPositive DEF UInt
<1>4. QED
  BY <1>1, <1>2, <1>3, ModSmall

LEMMA FromZero ==
  ASSUME NEW n \in UInt
  PROVE  Plus(0, n) = n
<1>1. 0 + n = n
  BY DEF UInt
<1>2. QED
  BY <1>1, ModSmall DEF Plus

\* What fits a free token is not refused: somebody has what d waits for.
LEMMA ShortUse ==
  ASSUME Typed, CountInv, "race" \notin disturbed, NEW d \in AllDeps,
         need[d] <= limit[Origin[d]], Status(d) = "WAIT"
  PROVE  \E x \in Dependents(Origin[d]) : InUse(x)
<1>1. SUFFICES ASSUME Taken(Origin[d]) = {} PROVE Status(d) = "OK"
  BY TakenInUse
<1>2. Origin[d] \in Tokens /\ need[d] \in UInt
  BY TokenTypes
<1>3. used[Origin[d]] = 0
  BY <1>1, <1>2, FreeUsed
<1>4. Plus(0, need[d]) = need[d]
  BY <1>2, FromZero
<1>5. QED
  BY <1>3, <1>4 DEF Status

\* What is in use tells the dependents of its token.
LEMMA UseTells ==
  ASSUME NEW d
  PROVE  /\ (\E x \in Dependents(Origin[d]) : InUse(x)) => Told(d)
         /\ (\E x \in Dependents(Origin[d]) : InUse(x)') => Told(d)'
  BY TakenInUse DEF Told

\* Who has what a dependency waits for tells it, or gives it back and then has
\* to check it.
LEMMA UseStep ==
  ASSUME Typed, PendingInv, LocksInv, CountInv, NEW r \in Runners, RunnerStep(r),
         "race" \notin disturbed', NEW d \in AllDeps, NEW x \in Dependents(Origin[d]), InUse(x)
  PROVE  InUse(x)' \/ d \in todo'[r]
<1>1. CASE Add(r)
  BY <1>1, AddTakes
<1>2. CASE Subtract(r)
  <2>1. CASE x = pending[r].dep
    <3>1. todo' = [todo EXCEPT ![r] = Dependents(Origin[x])]
      BY <1>2, <2>1 DEF Subtract
    <3>2. todo \in [Runners -> SUBSET AllDeps]
      BY DEF Typed
    <3>3. QED
      BY <3>1, <3>2 DEF Dependents
  <2>2. CASE x # pending[r].dep
    BY <1>2, <2>2, SubtractGives
  <2>3. QED
    BY <2>1, <2>2
<1>3. CASE ~Add(r) /\ ~Subtract(r)
  BY <1>3, OthersKeepUse
<1>4. QED
  BY <1>1, <1>2, <1>3

LEMMA ToldRunner ==
  ASSUME Typed, PendingInv, LocksInv, CountInv, ChecksInv, NEW r \in Runners, RunnerStep(r),
         disturbed' = {}, StatusOf(r), NEW d \in AllDeps, ToldOf(d),
         oldStatus'[d] = "WAIT", need'[d] <= limit'[Origin[d]]
  PROVE  Told(d)'
<1>0. need' = need /\ limit' = limit /\ "race" \notin disturbed /\ "race" \notin disturbed'
  BY NeverChanged
<1>1. ASSUME \E x \in Dependents(Origin[d]) : InUse(x) PROVE Told(d)'
  <2>1. PICK x \in Dependents(Origin[d]) : InUse(x)
    BY <1>1
  <2>2. CASE InUse(x)'
    BY <2>1, <2>2, UseTells
  <2>3. CASE d \in todo'[r]
    BY <2>3 DEF Told
  <2>4. QED
    BY <1>0, <2>1, <2>2, <2>3, UseStep
<1>2. ASSUME Status(d) = "WAIT" PROVE Told(d)'
  BY <1>0, <1>1, <1>2, ShortUse
<1>3. CASE Changed(r) /\ d = pending[r].dep
  <2>1. PICK s : Sees(r, d, s)
    BY <1>3 DEF Sees
  <2>2. s = "WAIT" /\ Informing(r)
    BY <1>3, <2>1, ChangedSees
  <2>3. Status(d) = "WAIT"
    BY <1>3, <2>1, <2>2 DEF StatusOf, Sees, Status, Ok
  <2>4. QED
    BY <1>2, <2>3
<1>4. CASE ~(Changed(r) /\ d = pending[r].dep)
  <2>1. oldStatus[d] = "WAIT"
    <3>1. CASE Changed(r)
      <4>1. PICK e, s : Sees(r, e, s) /\ e # d
        <5>1. pending[r].dep \in AllDeps
          BY <3>1, InformingSomething DEF Changed, Informing
        <5>2. QED
          BY <1>4, <3>1, <5>1 DEF Sees
      <4>2. QED
        BY <3>1, <4>1, ChangedSees
    <3>2. CASE ~Changed(r)
      BY <3>2, SeenByChanged
    <3>3. QED
      BY <3>1, <3>2
  <2>2. Told(d)
    BY <1>0, <2>1 DEF ToldOf
  <2>3. CASE Taken(Origin[d]) # {}
    BY <1>1, <2>3, TakenInUse
  <2>4. ASSUME NEW q \in Runners, d \in todo[q] PROVE Told(d)'
    <3>1. CASE q # r
      BY <2>4, <3>1, OthersKept DEF Told
    <3>2. CASE q = r
      <4>1. CASE d \in todo'[r]
        BY <4>1 DEF Told
      <4>2. CASE CheckSame(r, d)
        <5>1. CASE Live(d)
          <6>1. d \in Dependents(Origin[d]) /\ InUse(d)
            BY <5>1 DEF Dependents, InUse
          <6>2. QED
            BY <1>1, <6>1
        <5>2. CASE Status(d) = oldStatus[d]
          BY <1>2, <2>1, <5>2
        <5>3. QED
          BY <4>2, <5>1, <5>2 DEF CheckSame
      <4>3. CASE CheckRead(r, d)
        <5>1. Status(d) = "OK" /\ pending' = [pending EXCEPT ![r] = [dep |-> d, read |-> Ok(Status(d))]]
          BY <2>1, <4>3 DEF CheckRead, Status
        <5>2. pending'[r] = [dep |-> d, read |-> 1]
          BY <5>1 DEF Typed, Ok
        <5>3. pending'[r] # Nothing /\ pending'[r].dep = d /\ pending'[r].read = 1
          BY <5>2, PendingOf
        <5>4. pc'[r] \in {"refused", "giving up", "clearing"}
          BY <4>3 DEF CheckRead, Checking
        <5>5. QED
          BY <5>3, <5>4 DEF Told, Informing
      <4>4. QED
        BY <2>4, <3>2, <4>1, <4>2, <4>3, ChecksDone
    <3>3. QED
      BY <3>1, <3>2
  <2>5. ASSUME NEW q \in Runners, Informing(q), pending[q].dep = d, pending[q].read = 1
        PROVE  Told(d)'
    <3>1. q # r
      BY <1>4, <2>5, ChecksDone
    <3>2. pending'[q] = pending[q] /\ pc'[q] = pc[q]
      BY <2>5, <3>1, OthersKept DEF Informing
    <3>3. QED
      BY <2>5, <3>2 DEF Told, Informing
  <2>6. QED
    BY <2>2, <2>3, <2>4, <2>5 DEF Told
<1>5. QED
  BY <1>3, <1>4

LEMMA ToldStep ==
  ASSUME Typed, PendingInv, LocksInv, CountInv, ChecksInv, StatusInv, ToldInv, [Next]_vars
  PROVE  ToldInv'
<1>1. ASSUME NEW r \in Runners, RunnerStep(r), disturbed' = {}, NEW d \in AllDeps
      PROVE  ToldOf(d)'
  <2>1. StatusOf(r) /\ ToldOf(d)
    BY <1>1, NeverChanged, StatusEach, ToldEach
  <2>2. QED
    BY <1>1, <2>1, ToldRunner DEF ToldOf
<1>2. CASE UNCHANGED << need, limit, oldStatus, disturbed, pc, locks, pending, todo >>
  <2>1. \A x : InUse(x)' <=> InUse(x)
    BY <1>2 DEF InUse, Live, Back, Subtracting
  <2>2. \A d \in AllDeps : Taken(Origin[d])' = Taken(Origin[d])
    BY <2>1, TakenInUse
  <2>3. \A q \in Runners : Informing(q)' <=> Informing(q)
    BY <1>2 DEF Informing
  <2>4. \A d \in AllDeps : Told(d) => Told(d)'
    BY <1>2, <2>2, <2>3 DEF Told
  <2>5. QED
    BY <1>2, <2>4 DEF ToldInv
<1>3. QED
  BY <1>1, <1>2, ToldEach, SplitRest DEF counters

-----------------------------------------------------------------------------
(* The invariant of NoneLeftBehind.                                        *)

LEMMA InitLeft == Init => NeverLeft
<1> SUFFICES ASSUME Init PROVE NeverLeft
  OBVIOUS
<1>1. IInv
  BY InitInv
<1>2. \A r \in Runners : /\ pc[r] \in {"idle", "starting"} /\ pending[r] = Nothing /\ todo[r] = {}
                         /\ ~Informing(r)
  BY DEF Init, Informing
<1>3. UnsatisfiedInv
  BY DEF Init, UnsatisfiedInv
<1>4. ChecksInv
  BY <1>2 DEF ChecksInv, Idle, Subtracting
<1>5. StatusInv
  BY <1>2 DEF StatusInv
<1>6. LeftInv
  <2> SUFFICES ASSUME NEW j \in Jobs PROVE LeftOf(j)
    BY LeftEach
  <2>1. unsatisfied[j] = Cardinality(Unseen(j))
    BY <1>3 DEF UnsatisfiedInv, Unseen
  <2>2. CASE unsatisfied[j] = 0
    <3>1. PICK k \in Threads : k = CHOOSE t \in Threads : TRUE
      BY CounterAssumption
    <3>2. <<j, k>> \in Runners /\ <<j, k>>[1] = j /\ <<j, k>>[2] = k
      BY DEF Runners
    <3>3. pc[<<j, k>>] = "starting"
      BY <2>2, <3>1, <3>2 DEF Init
    <3>4. QED
      BY <3>3 DEF LeftOf, Busy
  <2>3. CASE unsatisfied[j] # 0
    <3>1. Unseen(j) # {}
      BY <2>1, <2>3, FS_EmptySet
    <3>2. PICK i \in DOMAIN Deps[j] : oldStatus[Deps[j][i]] # "OK"
      BY <3>1 DEF Unseen
    <3>3. Deps[j][i] \in AllDeps
      BY DEF AllDeps
    <3>4. oldStatus[Deps[j][i]] = "WAIT"
      BY <1>1, <3>2, <3>3 DEF IInv, Typed
    <3>5. QED
      BY <3>4 DEF LeftOf, Short
  <2>4. QED
    BY <2>2, <2>3
<1>7. ToldInv
  <2>1. ASSUME NEW d \in AllDeps, oldStatus[d] = "WAIT", need[d] <= limit[Origin[d]]
        PROVE  Told(d)
    <3>1. Status(d) = "WAIT" /\ "race" \notin disturbed
      BY <2>1 DEF Init
    <3>2. QED
      BY <1>1, <2>1, <3>1, ShortUse, UseTells DEF IInv
  <2>2. QED
    BY <2>1 DEF ToldInv
<1>8. QED
  BY <1>3, <1>4, <1>5, <1>6, <1>7 DEF NeverLeft

LEMMA InvariantLeft == Spec => [](IInv /\ NeverLeft)
<1>1. IInv /\ NeverLeft /\ [Next]_vars => IInv'
  BY TypeStep, PendingStep, MutexStep, LocksStep, CountStep, LimitStep DEF IInv
<1>2. IInv /\ NeverLeft /\ [Next]_vars => NeverLeft'
  BY UnsatisfiedStep, ChecksStep, StatusStep, LeftStep, ToldStep DEF IInv, NeverLeft
<1>3. QED
  BY <1>1, <1>2, InitInv, InitLeft, PTL DEF Spec

\* Every variable keeps its type.  _unsatisfied, which is only moved by the
\* differences of statuses, never goes below zero, whatever is refused, shared and
\* given back without the mutex, as long as no two threads count at once: it is
\* the number of the dependencies that were last seen unsatisfied.
THEOREM TypesKept == Spec => []TypeOK
<1>1. ASSUME NEW j \in Jobs, UnsatisfiedInv
      PROVE  unsatisfied[j] \in Nat
  <2>1. unsatisfied[j] = Cardinality(Unseen(j))
    BY <1>1 DEF UnsatisfiedInv, Unseen
  <2>2. QED
    BY <2>1, UnseenFinite
<1>2. ASSUME IInv, NeverLeft
      PROVE  TypeOK
  <2>1. unsatisfied = [j \in Jobs |-> unsatisfied[j]]
    BY <1>2 DEF IInv, Typed
  <2>2. \A j \in Jobs : unsatisfied[j] \in Nat
    BY <1>1, <1>2 DEF NeverLeft
  <2>3. unsatisfied \in [Jobs -> Nat]
    BY <2>1, <2>2
  <2>4. QED
    BY <1>2, <2>3 DEF IInv, TypeOK
<1>3. QED
  BY <1>2, InvariantLeft, PTL

\* When no runner is left, and no two threads have raced and no limit has
\* changed, every job is done or has a dependency that its token cannot serve:
\* whatever was refused, shared and given back on the way, the check of the
\* dependents of a token always finds the job that waits for it.
THEOREM NobodyLeftBehind == Spec => []NoneLeftBehind
<1>1. ASSUME IInv, NeverLeft, Quiet, disturbed = {}, NEW j \in Jobs, state[j] # "DONE"
      PROVE  \E i \in DOMAIN Deps[j] : Status(Deps[j][i]) # "OK"
  <2>1. \A r \in Runners : /\ pc[r] = "idle" /\ todo[r] = {} /\ locks[r] = <<>>
                           /\ ~Busy(r) /\ ~Informing(r) /\ ~Subtracting(r)
    BY <1>1 DEF Quiet, NeverLeft, ChecksInv, Idle, IInv, LocksInv, Busy, Informing, Subtracting
  <2>2. \A k \in Threads : ~Busy(<<j, k>>)
    BY <2>1, RunnersOf
  <2>3. PICK i \in DOMAIN Deps[j] : oldStatus[Deps[j][i]] = "WAIT"
    BY <1>1, <2>2 DEF NeverLeft, LeftInv, Short
  <2>4. PICK d \in AllDeps : d = Deps[j][i] /\ oldStatus[d] = "WAIT"
    BY <2>3 DEF AllDeps
  <2>5. DOMAIN <<>> = {}
    OBVIOUS
  <2>6. \A x : ~InUse(x)
    BY <2>1, <2>5 DEF InUse, Live, Back
  <2>7. \A t : Taken(t) = {}
    BY <2>6, TakenInUse
  <2>8. ~Told(d)
    BY <2>1, <2>7 DEF Told
  <2>9. ~(need[d] <= limit[Origin[d]])
    BY <1>1, <2>4, <2>8 DEF NeverLeft, ToldInv
  <2>10. Typed /\ CountInv /\ Origin[d] \in Tokens /\ need[d] \in UInt
    BY <1>1, TokenTypes DEF IInv
  <2>11. used[Origin[d]] = 0
    BY <1>1, <2>7, <2>10, FreeUsed
  <2>12. Plus(0, need[d]) = need[d]
    BY <2>10, FromZero
  <2>13. QED
    BY <2>4, <2>9, <2>11, <2>12 DEF Status
<1>2. IInv /\ NeverLeft => NoneLeftBehind
  BY <1>1 DEF NoneLeftBehind
<1>3. QED
  BY <1>2, InvariantLeft, PTL

=============================================================================
