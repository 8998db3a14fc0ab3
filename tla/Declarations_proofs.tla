------------------------ MODULE Declarations_proofs ------------------------
(***************************************************************************)
(* Proofs about Variables, for keys of any length and any set of           *)
(* variables, and about Register, for any types, files and arrays.         *)
(***************************************************************************)
EXTENDS Register, Variables, WellFoundedInduction, SequenceTheorems, FiniteSetTheorems, TLAPS

-----------------------------------------------------------------------------
(* Induction over natural numbers, as a fact about sets: WFMin gives the   *)
(* least number that is not in the set.                                    *)

LEMMA NatSet ==
  ASSUME NEW T \in SUBSET Nat, 0 \in T, \A n \in T : n + 1 \in T
  PROVE  T = Nat
<1>1. SUFFICES ASSUME Nat \ T # {} PROVE FALSE
  OBVIOUS
<1>2. IsWellFoundedOn(OpToRel(<, Nat), Nat)
  BY NatLessThanWellFounded
<1>3. PICK x \in Nat \ T : \A y \in Nat \ T : ~ (<<y, x>> \in OpToRel(<, Nat))
  BY <1>1, <1>2, WFMin
<1>4. \A y \in Nat \ T : ~(y < x)
  BY <1>3 DEF OpToRel
<1>5. x \in Nat /\ x \notin T /\ x # 0
  OBVIOUS
<1>6. x - 1 \in Nat /\ x - 1 < x /\ (x - 1) + 1 = x
  BY <1>5
<1>7. x - 1 \in T
  BY <1>4, <1>6
<1>8. QED
  BY <1>5, <1>6, <1>7

-----------------------------------------------------------------------------
(* Variables.                                                              *)

LEMMA KeyParts ==
  ASSUME NEW key \in Keys
  PROVE  key \in Seq(Parts) /\ Len(key) \in Nat \ {0}
<1>1. PICK n \in 1 .. MaxDepth : key \in [1 .. n -> Parts]
  BY DEF Keys
<1>2. n \in Nat
  BY VariablesAssumption
<1>3. QED
  BY <1>1, <1>2

\* Without a namespace there is the name alone.
LEMMA NameAlone ==
  ASSUME NEW key \in Keys
  PROVE  InNamespace(key, 0) = <<Last(key)>>
<1>1. SubSeq(key, 1, 0) = <<>>
  BY KeyParts
<1>2. <<Last(key)>> \in Seq({Last(key)})
  OBVIOUS
<1>3. <<>> \o <<Last(key)>> = <<Last(key)>>
  BY <1>2, ConcatEmptySeq
<1>4. QED
  BY <1>1, <1>3 DEF InNamespace

\* The loop does at most as many steps as the key has parts, so that what it
\* finds satisfies its equation.
LEMMA LookStarts == \A key, x, y : Look(key, 0, x) = Look(key, 0, y)
  BY DEF Look

Looks(key, s, n) == s = [k \in 0 .. n |-> Look(key, k, s[k - 1])]
LEMMA LooksExist ==
  ASSUME NEW key
  PROVE  \A n \in Nat : \E s : Looks(key, s, n)
<1> DEFINE T == {n \in Nat : \E s : Looks(key, s, n)}
<1>1. 0 \in T
  <2> DEFINE s == [k \in 0 .. 0 |-> Look(key, 0, 0)]
  <2>1. \A k \in 0 .. 0 : Look(key, k, s[k - 1]) = Look(key, 0, 0)
    BY LookStarts
  <2> HIDE DEF s
  <2>2. s = [k \in 0 .. 0 |-> Look(key, k, s[k - 1])]
    BY <2>1 DEF s
  <2>3. QED
    BY <2>2 DEF Looks
<1>2. ASSUME NEW n \in T PROVE n + 1 \in T
  <2>1. PICK s : Looks(key, s, n)
    OBVIOUS
  <2> DEFINE r == [k \in 0 .. n + 1 |-> IF k = n + 1 THEN Look(key, k, s[n]) ELSE s[k]]
  <2>2. n \in Nat
    OBVIOUS
  <2>3. ASSUME NEW k \in 0 .. n + 1 PROVE r[k] = Look(key, k, r[k - 1])
    <3>1. CASE k = n + 1
      <4>1. r[k - 1] = s[n]
        BY <2>2, <3>1
      <4>2. QED
        BY <2>2, <3>1, <4>1
    <3>2. CASE k \in 0 .. n /\ k # 0
      <4>1. r[k] = s[k] /\ r[k - 1] = s[k - 1] /\ k # n + 1
        BY <2>2, <3>2
      <4>2. s[k] = Look(key, k, s[k - 1])
        BY <2>1, <3>2 DEF Looks
      <4>3. QED
        BY <4>1, <4>2
    <3>3. CASE k = 0
      <4>1. r[k] = s[k] /\ s[k] = Look(key, k, s[k - 1])
        BY <2>1, <2>2, <3>3 DEF Looks
      <4>2. QED
        BY <3>3, <4>1, LookStarts
    <3>4. QED
      BY <2>2, <3>1, <3>2, <3>3
  <2> HIDE DEF r
  <2>4. r = [k \in 0 .. n + 1 |-> r[k]]
    BY DEF r
  <2>5. Looks(key, r, n + 1)
    BY <2>3, <2>4 DEF Looks
  <2>6. QED
    BY <2>2, <2>5
<1> HIDE DEF T
<1>3. T = Nat
  BY <1>1, <1>2, NatSet DEF T
<1>4. QED
  BY <1>3 DEF T

LEMMA FindEquation ==
  ASSUME NEW key \in Keys
  PROVE  \E s : Looks(key, s, Len(key) - 1) /\ Find(key) = s[Len(key) - 1]
<1>1. \E s : Looks(key, s, Len(key) - 1)
  BY LooksExist, KeyParts
<1>2. QED
  BY <1>1 DEF Find, Looks

\* The namespaces of at most k parts that have the variable.
Around(key, k) == {i \in 0 .. k : InNamespace(key, i) \in variables}

\* What the loop finds with k parts before the dot: the innermost of them.
Innermost(key, s, k) ==
  /\ Around(key, k) = {} /\ (key[1] # Empty \/ k = 0) => s[k] = Missing
  /\ Around(key, k) # {} =>
       \E i \in Around(key, k) :
         /\ \A j \in Around(key, k) : j <= i
         /\ i > 0 \/ key[1] # Empty \/ k = 0 => s[k] = InNamespace(key, i)

LEMMA LookInnermost ==
  ASSUME NEW key \in Keys, NEW s, NEW n \in Nat, Looks(key, s, n)
  PROVE  \A k \in 0 .. n : Innermost(key, s, k)
<1> DEFINE T == {k \in Nat : k <= n => Innermost(key, s, k)}
<1>0. \A k \in 0 .. n : s[k] = Look(key, k, s[k - 1])
  BY DEF Looks
<1>1. 0 \in T
  <2>1. s[0] = IF InNamespace(key, 0) \in variables THEN InNamespace(key, 0) ELSE Missing
    <3>1. s[0] = Look(key, 0, s[0 - 1])
      BY <1>0
    <3>2. QED
      BY <3>1, NameAlone DEF Look
  <2>2. Innermost(key, s, 0)
    BY <2>1 DEF Innermost, Around
  <2>3. QED
    BY <2>2
<1>2. ASSUME NEW k \in T PROVE k + 1 \in T
  <2>1. SUFFICES ASSUME k + 1 <= n PROVE Innermost(key, s, k + 1)
    OBVIOUS
  <2>2. k \in 0 .. n /\ k + 1 \in 0 .. n /\ Innermost(key, s, k) /\ (k + 1) - 1 = k
    BY <2>1
  <2>3. s[k + 1] = Look(key, k + 1, s[k])
    BY <1>0, <2>2
  <2>4. CASE InNamespace(key, k + 1) \in variables
    <3>1. s[k + 1] = InNamespace(key, k + 1)
      BY <2>2, <2>3, <2>4 DEF Look
    <3>2. k + 1 \in Around(key, k + 1) /\ \A j \in Around(key, k + 1) : j <= k + 1
      BY <2>2, <2>4 DEF Around
    <3>3. QED
      BY <3>1, <3>2 DEF Innermost
  <2>5. CASE InNamespace(key, k + 1) \notin variables
    <3>1. Around(key, k + 1) = Around(key, k)
      BY <2>2, <2>5 DEF Around
    <3>2. CASE k + 1 = 1 /\ key[1] = Empty
      <4>1. Around(key, k) \subseteq {0}
        BY <2>2, <3>2 DEF Around
      <4>2. QED
        BY <2>2, <3>1, <3>2, <4>1 DEF Innermost
    <3>3. CASE ~(k + 1 = 1 /\ key[1] = Empty)
      <4>1. s[k + 1] = s[k]
        BY <2>2, <2>3, <2>5, <3>3 DEF Look
      <4>2. QED
        BY <2>2, <3>1, <3>3, <4>1 DEF Innermost
    <3>4. QED
      BY <3>2, <3>3
  <2>6. QED
    BY <2>4, <2>5
<1> HIDE DEF T
<1>3. T = Nat
  BY <1>1, <1>2, NatSet DEF T
<1>4. QED
  BY <1>3 DEF T

\* find gives the variable in the innermost namespace that has one, for keys of
\* any number of parts and any set of variables, and comes to an end unless the
\* key starts with a dot.
THEOREM InnermostFound == VariablesSpec => []FoundInnermost
<1>1. FoundInnermost
  <2> SUFFICES ASSUME NEW key \in Keys
               PROVE  LET around == {k \in 0 .. Len(key) - 1 : InNamespace(key, k) \in variables} IN
                      /\ around # {} /\ (Max(around) > 0 \/ key[1] # Empty \/ Len(key) = 1) =>
                           Find(key) = InNamespace(key, Max(around))
                      /\ around = {} /\ (key[1] # Empty \/ Len(key) = 1) => Find(key) = Missing
    BY DEF FoundInnermost
  <2> DEFINE n == Len(key) - 1
             around == Around(key, n)
  <2>1. n \in Nat /\ (n = 0 <=> Len(key) = 1)
    BY KeyParts
  <2>2. PICK s : Looks(key, s, n) /\ Find(key) = s[n]
    BY FindEquation
  <2>3. Innermost(key, s, n)
    BY <2>1, <2>2, LookInnermost
  <2>4. CASE around = {}
    BY <2>1, <2>2, <2>3, <2>4 DEF Innermost, Around
  <2>5. CASE around # {}
    <3>1. PICK i \in around :
            /\ \A j \in around : j <= i
            /\ i > 0 \/ key[1] # Empty \/ n = 0 => s[n] = InNamespace(key, i)
      BY <2>3, <2>5 DEF Innermost
    <3>2. around \subseteq Nat
      BY <2>1 DEF Around
    <3>3. Max(around) = i
      BY <3>1, <3>2 DEF Max
    <3>4. QED
      BY <2>1, <2>2, <3>1, <3>3 DEF Around
  <2>6. QED
    BY <2>4, <2>5
<1>2. QED
  BY <1>1, PTL

-----------------------------------------------------------------------------
(* The ways up of Register: iterations of a function.                      *)

Iterates(f, t, s, n) == s[0] = t /\ \A k \in 0 .. n - 1 : s[k + 1] = f[s[k]]

LEMMA IteratesAgree ==
  ASSUME NEW f, NEW t, NEW n \in Nat, NEW m \in Nat, NEW r, NEW s,
         Iterates(f, t, r, n), Iterates(f, t, s, m)
  PROVE  \A k \in Nat : k <= n /\ k <= m => r[k] = s[k]
<1> DEFINE T == {k \in Nat : k <= n /\ k <= m => r[k] = s[k]}
<1>1. 0 \in T
  BY DEF Iterates
<1>2. ASSUME NEW k \in T PROVE k + 1 \in T
  <2>1. SUFFICES ASSUME k + 1 <= n, k + 1 <= m PROVE r[k + 1] = s[k + 1]
    OBVIOUS
  <2>2. k \in 0 .. n - 1 /\ k \in 0 .. m - 1 /\ r[k] = s[k]
    BY <2>1
  <2>3. QED
    BY <2>2 DEF Iterates
<1> HIDE DEF T
<1>3. T = Nat
  BY <1>1, <1>2, NatSet DEF T
<1>4. QED
  BY <1>3 DEF T

LEMMA IteratesExist ==
  ASSUME NEW S, NEW f \in [S -> S], NEW t \in S
  PROVE  \A n \in Nat : \E s \in [0 .. n -> S] : Iterates(f, t, s, n)
<1> DEFINE T == {n \in Nat : \E s \in [0 .. n -> S] : Iterates(f, t, s, n)}
<1>1. 0 \in T
  <2>1. [k \in 0 .. 0 |-> t] \in [0 .. 0 -> S] /\ Iterates(f, t, [k \in 0 .. 0 |-> t], 0)
    BY DEF Iterates
  <2>2. QED
    BY <2>1
<1>2. ASSUME NEW n \in T PROVE n + 1 \in T
  <2>1. PICK s \in [0 .. n -> S] : Iterates(f, t, s, n)
    OBVIOUS
  <2> DEFINE r == [k \in 0 .. n + 1 |-> IF k = n + 1 THEN f[s[n]] ELSE s[k]]
  <2>2. r \in [0 .. n + 1 -> S]
    OBVIOUS
  <2>3. Iterates(f, t, r, n + 1)
    BY <2>1 DEF Iterates
  <2>4. QED
    BY <2>2, <2>3
<1> HIDE DEF T
<1>3. T = Nat
  BY <1>1, <1>2, NatSet DEF T
<1>4. QED
  BY <1>3 DEF T

WayUp(S, f, t, up) ==
  up \in [Nat -> S] /\ up[0] = t /\ \A i \in Nat : up[i + 1] = f[up[i]]

LEMMA Iteration ==
  ASSUME NEW S, NEW f \in [S -> S], NEW t \in S
  PROVE  \E up : WayUp(S, f, t, up)
<1> DEFINE Way(n) == CHOOSE s \in [0 .. n -> S] : Iterates(f, t, s, n)
           up == [i \in Nat |-> Way(i)[i]]
<1>1. \A n \in Nat : Way(n) \in [0 .. n -> S] /\ Iterates(f, t, Way(n), n)
  BY IteratesExist
<1> HIDE DEF Way
<1>2. up \in [Nat -> S]
  BY <1>1
<1>3. up[0] = t
  BY <1>1 DEF Iterates
<1>4. ASSUME NEW i \in Nat PROVE up[i + 1] = f[up[i]]
  <2>1. Way(i + 1)[i] = Way(i)[i]
    BY <1>1, IteratesAgree
  <2>2. Way(i + 1)[i + 1] = f[Way(i + 1)[i]]
    BY <1>1 DEF Iterates
  <2>3. QED
    BY <2>1, <2>2
<1>5. QED
  BY <1>2, <1>3, <1>4 DEF WayUp

\* Climb, in the objects o.
ParentIn(o, t) == IF t = 0 THEN 0 ELSE o[t].parent
ClimbIn(o, t) == LET up[i \in Nat] == IF i = 0 THEN t ELSE ParentIn(o, up[i - 1]) IN up

LEMMA ClimbIs == \A t : Climb(t) = ClimbIn(objects, t)
  BY DEF Climb, ClimbIn, ParentOf, ParentIn

LEMMA ClimbIsNext == \A t : Climb(t)' = ClimbIn(objects', t)
  BY DEF Climb, ClimbIn, ParentOf, ParentIn

\* Parents are objects, and 0 when there is none.
Places(o) == 0 .. Len(o)
Tree(o) == o \in Seq([name : AllNames, parent : Nat, placeholder : BOOLEAN])
           /\ \A u \in DOMAIN o : o[u].parent \in Places(o)

LEMMA ClimbSteps ==
  ASSUME NEW o, Tree(o), NEW t \in Places(o)
  PROVE  /\ ClimbIn(o, t) \in [Nat -> Places(o)]
         /\ ClimbIn(o, t)[0] = t
         /\ \A i \in Nat : ClimbIn(o, t)[i + 1] = ParentIn(o, ClimbIn(o, t)[i])
<1> SUFFICES ASSUME NEW S, S = Places(o), NEW f, f = [u \in S |-> ParentIn(o, u)]
             PROVE  /\ ClimbIn(o, t) \in [Nat -> Places(o)]
                    /\ ClimbIn(o, t)[0] = t
                    /\ \A i \in Nat : ClimbIn(o, t)[i + 1] = ParentIn(o, ClimbIn(o, t)[i])
  OBVIOUS
<1> DEFINE Rule(up) == up = [i \in Nat |-> IF i = 0 THEN t ELSE ParentIn(o, up[i - 1])]
<1>1. f \in [S -> S]
  BY DEF Tree, ParentIn, Places
<1>2. PICK up \in [Nat -> S] : up[0] = t /\ \A i \in Nat : up[i + 1] = f[up[i]]
  <2>1. PICK up : WayUp(S, f, t, up)
    BY <1>1, Iteration
  <2>2. QED
    BY <2>1 DEF WayUp
<1>3. Rule(up)
  <2>1. \A i \in Nat : up[i] = IF i = 0 THEN t ELSE ParentIn(o, up[i - 1])
    <3> TAKE i \in Nat
    <3>1. CASE i = 0
      BY <1>2, <3>1
    <3>2. CASE i # 0
      <4>1. i - 1 \in Nat /\ (i - 1) + 1 = i
        BY <3>2
      <4>2. up[i] = f[up[i - 1]] /\ up[i - 1] \in S
        BY <1>2, <4>1
      <4>3. QED
        BY <3>2, <4>2
    <3>3. QED
      BY <3>1, <3>2
  <2>2. up = [i \in Nat |-> up[i]]
    OBVIOUS
  <2>3. QED
    BY <2>1, <2>2
<1>4. Rule(ClimbIn(o, t))
  BY <1>3 DEF ClimbIn
<1>5. ClimbIn(o, t) = up
  <2> DEFINE c == ClimbIn(o, t)
             T == {i \in Nat : c[i] = up[i]}
  <2>1. \A i \in Nat : c[i] = IF i = 0 THEN t ELSE ParentIn(o, c[i - 1])
    BY <1>4
  <2>2. c = [i \in Nat |-> c[i]]
    BY <1>4
  <2> HIDE DEF c
  <2>3. 0 \in T
    BY <1>2, <2>1
  <2>4. ASSUME NEW i \in T PROVE i + 1 \in T
    <3>1. i \in Nat /\ c[i] = up[i] /\ (i + 1) - 1 = i /\ i + 1 # 0 /\ i + 1 \in Nat
      OBVIOUS
    <3>2. c[i + 1] = ParentIn(o, c[i])
      <4>1. c[i + 1] = IF i + 1 = 0 THEN t ELSE ParentIn(o, c[(i + 1) - 1])
        BY <2>1, <3>1
      <4>2. QED
        BY <3>1, <4>1
    <3>3. up[i + 1] = ParentIn(o, up[i])
      BY <1>2, <3>1
    <3>4. QED
      BY <3>1, <3>2, <3>3
  <2>5. T = Nat
    BY <2>3, <2>4, NatSet
  <2>6. up = [i \in Nat |-> up[i]]
    OBVIOUS
  <2>7. c = up
    BY <2>2, <2>5, <2>6
  <2>8. QED
    BY <2>7 DEF c
<1>6. ASSUME NEW i \in Nat PROVE up[i + 1] = ParentIn(o, up[i])
  <2>1. up[i] \in S
    OBVIOUS
  <2>2. QED
    BY <1>2, <2>1
<1>7. QED
  BY <1>2, <1>5, <1>6

LEMMA Inside ==
  ASSUME NEW o, Tree(o), NEW x \in Places(o), x # 0
  PROVE  x \in DOMAIN o
<1>1. o \in Seq([name : AllNames, parent : Nat, placeholder : BOOLEAN])
  BY DEF Tree
<1>2. DOMAIN o = 1 .. Len(o) /\ Len(o) \in Nat
  BY <1>1
<1>3. QED
  BY <1>2 DEF Places

LEMMA ClimbAdds ==
  ASSUME NEW o, Tree(o), NEW t \in Places(o), NEW i \in Nat, NEW n \in Nat
  PROVE  ClimbIn(o, ClimbIn(o, t)[i])[n] = ClimbIn(o, t)[i + n]
<1> DEFINE u == ClimbIn(o, t)[i]
           T == {j \in Nat : ClimbIn(o, u)[j] = ClimbIn(o, t)[i + j]}
<1>0. u \in Places(o)
  BY ClimbSteps
<1>1. 0 \in T
  <2>1. ClimbIn(o, u)[0] = u
    BY <1>0, ClimbSteps
  <2>2. i + 0 = i
    OBVIOUS
  <2>3. QED
    BY <2>1, <2>2
<1>2. ASSUME NEW j \in T PROVE j + 1 \in T
  <2>1. j \in Nat /\ ClimbIn(o, u)[j] = ClimbIn(o, t)[i + j]
    OBVIOUS
  <2> HIDE DEF u
  <2>2. ClimbIn(o, u)[j + 1] = ParentIn(o, ClimbIn(o, u)[j])
    BY <1>0, <2>1, ClimbSteps
  <2>3. ClimbIn(o, t)[(i + j) + 1] = ParentIn(o, ClimbIn(o, t)[i + j])
    BY <2>1, ClimbSteps
  <2>4. (i + j) + 1 = i + (j + 1)
    BY <2>1
  <2>5. QED
    BY <2>1, <2>2, <2>3, <2>4
<1> HIDE DEF T
<1>3. T = Nat
  BY <1>1, <1>2, NatSet DEF T
<1>4. QED
  BY <1>3 DEF T

\* A way up along which a rank falls.
LEMMA ClimbEnds ==
  ASSUME NEW o, Tree(o), NEW r \in [DOMAIN o -> Nat], NEW t \in DOMAIN o,
         \A u \in DOMAIN o : o[u].parent # 0 => r[o[u].parent] < r[u]
  PROVE  \A i \in Nat : ClimbIn(o, t)[i] # 0 => r[ClimbIn(o, t)[i]] + i <= r[t]
<1> DEFINE up(i) == ClimbIn(o, t)[i]
           T == {i \in Nat : up(i) # 0 => r[up(i)] + i <= r[t]}
<1>0. /\ up(0) = t
      /\ \A i \in Nat : up(i) \in Places(o) /\ up(i + 1) = ParentIn(o, up(i))
      /\ DOMAIN o = 1 .. Len(o) /\ Len(o) \in Nat
  <2>1. o \in Seq([name : AllNames, parent : Nat, placeholder : BOOLEAN])
    BY DEF Tree
  <2>2. DOMAIN o = 1 .. Len(o) /\ Len(o) \in Nat
    BY <2>1
  <2>3. t \in Places(o)
    BY <2>2 DEF Places
  <2>4. QED
    BY <2>2, <2>3, ClimbSteps
<1> HIDE DEF up
<1>1. 0 \in T
  BY <1>0
<1>2. ASSUME NEW i \in T PROVE i + 1 \in T
  <2>1. i \in Nat /\ up(i) \in Places(o) /\ up(i + 1) \in Places(o)
    <3>1. i \in Nat /\ i + 1 \in Nat
      OBVIOUS
    <3>2. QED
      BY <1>0, <3>1
  <2>2. SUFFICES ASSUME up(i + 1) # 0 PROVE r[up(i + 1)] + (i + 1) <= r[t]
    BY <2>1
  <2>3. up(i + 1) = ParentIn(o, up(i))
    BY <1>0, <2>1
  <2>4. up(i) # 0 /\ up(i + 1) = o[up(i)].parent
    BY <2>2, <2>3 DEF ParentIn
  <2>5. r[up(i)] + i <= r[t]
    BY <2>4
  <2>6. up(i) \in DOMAIN o /\ up(i + 1) \in DOMAIN o
    BY <2>1, <2>2, <2>4, Inside
  <2>7. r[up(i + 1)] < r[up(i)]
    BY <2>2, <2>4, <2>6
  <2>8. r[up(i)] \in Nat /\ r[up(i + 1)] \in Nat /\ r[t] \in Nat
    BY <2>6
  <2>9. QED
    BY <2>1, <2>5, <2>7, <2>8
<1> HIDE DEF T
<1>3. T = Nat
  BY <1>1, <1>2, NatSet DEF T
<1>4. QED
  BY <1>3 DEF T, up

LEMMA ObjectsTree == RegisterTypes => Tree(objects) /\ DOMAIN objects = 1 .. Len(objects) /\ Len(objects) \in Nat
  BY DEF RegisterTypes, Tree, Places

ObjectType == [name : AllNames, parent : Nat, placeholder : BOOLEAN]
LEMMA ObjectTypes == RegisterTypes => \A u \in DOMAIN objects : objects[u] \in ObjectType
<1>1. SUFFICES ASSUME RegisterTypes, NEW u \in DOMAIN objects PROVE objects[u] \in ObjectType
  OBVIOUS
<1>2. objects \in Seq(ObjectType) /\ u \in 1 .. Len(objects)
  BY <1>1, ObjectsTree DEF RegisterTypes, ObjectType
<1>3. QED
  BY <1>2, ElementOfSeq

LEMMA ClimbsEnd ==
  ASSUME HierarchyInv, NEW t \in DOMAIN objects, NEW i \in Nat, ClimbIn(objects, t)[i] # 0
  PROVE  i \in Heights
<1>1. PICK rank \in [Names -> 1 .. Cardinality(Names)] :
        \A name \in Names : \A parent \in Parents[name] \cap Names : rank[parent] < rank[name]
  BY ParentsAssumption
<1>2. Cardinality(Names) \in Nat
  BY RegisterAssumption, FS_CardinalityType
<1> DEFINE r == [u \in DOMAIN objects |->
             IF objects[u].name \in Names THEN rank[objects[u].name] + 1 ELSE IF u = 1 THEN 0 ELSE 1]
<1>3. r \in [DOMAIN objects -> 0 .. Cardinality(Names) + 1]
  BY <1>1, <1>2
<1>4. ASSUME NEW u \in DOMAIN objects, objects[u].parent # 0 PROVE r[objects[u].parent] < r[u]
  <2> DEFINE p == objects[u].parent
  <2>1. p \in DOMAIN objects /\ objects[p].name \in AllNames /\ objects[u].name \in AllNames
    <3>1. Tree(objects)
      BY ObjectsTree DEF HierarchyInv
    <3>2. p \in Places(objects)
      BY <3>1 DEF Tree
    <3>3. p \in DOMAIN objects
      BY <1>4, <3>1, <3>2, Inside
    <3>4. objects[p] \in ObjectType /\ objects[u] \in ObjectType
      BY <3>3, ObjectTypes DEF HierarchyInv
    <3>5. QED
      BY <3>3, <3>4 DEF ObjectType
  <2>2. CASE objects[u].name \in Names
    <3>1. objects[p].name \in Parents[objects[u].name]
      BY <1>4, <2>2 DEF HierarchyInv, ParentsInv
    <3>2. r[u] = rank[objects[u].name] + 1 /\ rank[objects[u].name] \in 1 .. Cardinality(Names)
      BY <1>1, <2>2
    <3>3. CASE objects[p].name \in Names
      <4>1. rank[objects[p].name] < rank[objects[u].name]
        BY <1>1, <2>2, <3>1, <3>3
      <4>2. r[p] = rank[objects[p].name] + 1 /\ rank[objects[p].name] \in 1 .. Cardinality(Names)
        BY <1>1, <2>1, <3>3
      <4>3. QED
        BY <1>2, <3>2, <4>1, <4>2
    <3>4. CASE objects[p].name \notin Names
      <4>1. r[p] \in {0, 1}
        BY <2>1, <3>4
      <4>2. QED
        BY <1>2, <3>2, <4>1
    <3>5. QED
      BY <3>3, <3>4
  <2>3. CASE objects[u].name \notin Names
    <3>1. u \in 1 .. 3
      BY <2>1, <2>3 DEF HierarchyInv, ParentsInv, AllNames
    <3>2. u \in {2, 3} /\ p = 1
      BY <1>4, <3>1 DEF HierarchyInv, LinksInv
    <3>3. objects[1].name = "Any"
      BY DEF HierarchyInv, NamesInv, Predefined
    <3>4. r[u] = 1 /\ r[1] = 0
      BY <2>1, <2>3, <3>2, <3>3, RegisterAssumption DEF Predefined
    <3>5. QED
      BY <3>2, <3>4
  <2>4. QED
    BY <2>2, <2>3
<1>5. Tree(objects) /\ DOMAIN objects = 1 .. Len(objects) /\ Len(objects) \in Nat
  BY ObjectsTree DEF HierarchyInv
<1> DEFINE up == ClimbIn(objects, t)[i]
<1> HIDE DEF r
<1>6. r \in [DOMAIN objects -> Nat]
  BY <1>2, <1>3
<1>7. r[up] + i <= r[t]
  BY <1>4, <1>5, <1>6, ClimbEnds
<1>8. up \in DOMAIN objects
  <2>1. t \in Places(objects)
    BY <1>5 DEF Places
  <2>2. up \in Places(objects)
    BY <1>5, <2>1, ClimbSteps
  <2>3. QED
    BY <1>5, <2>2 DEF Places
<1>9. r[up] \in Nat /\ r[t] \in Nat /\ r[t] <= Cardinality(Names) + 1
  BY <1>2, <1>3, <1>8
<1>10. QED
  BY <1>2, <1>7, <1>9 DEF Heights

LEMMA ClimbFacts ==
  ASSUME RegisterTypes, NEW t \in DOMAIN objects
  PROVE  /\ Climb(t) \in [Nat -> Places(objects)] /\ Climb(t)[0] = t
         /\ \A i \in Nat : Climb(t)[i + 1] = ParentOf(Climb(t)[i])
<1>1. Tree(objects) /\ t \in Places(objects)
  BY ObjectsTree DEF Places
<1>2. /\ ClimbIn(objects, t) \in [Nat -> Places(objects)] /\ ClimbIn(objects, t)[0] = t
      /\ \A i \in Nat : ClimbIn(objects, t)[i + 1] = ParentIn(objects, ClimbIn(objects, t)[i])
  BY <1>1, ClimbSteps
<1>3. Climb(t) = ClimbIn(objects, t)
  BY ClimbIs
<1>4. \A u : ParentOf(u) = ParentIn(objects, u)
  BY DEF ParentOf, ParentIn
<1>5. QED
  BY <1>2, <1>3, <1>4

LEMMA ClimbAdded ==
  ASSUME RegisterTypes, NEW t \in Places(objects), NEW i \in Nat, NEW j \in Nat
  PROVE  Climb(Climb(t)[i])[j] = Climb(t)[i + j]
<1>1. Tree(objects)
  BY ObjectsTree
<1>2. ClimbIn(objects, ClimbIn(objects, t)[i])[j] = ClimbIn(objects, t)[i + j]
  BY <1>1, ClimbAdds
<1>3. QED
  BY <1>2, ClimbIs

LEMMA LineageFacts ==
  ASSUME HierarchyInv, NEW t \in DOMAIN objects
  PROVE  /\ Lineage(t) \subseteq DOMAIN objects
         /\ t \in Lineage(t)
         /\ \A u \in Lineage(t) : Lineage(u) \subseteq Lineage(t)
         /\ \A i \in Heights, j \in Heights : i <= j /\ Climb(t)[j] # 0 => Climb(t)[j] \in Lineage(Climb(t)[i])
<1>0. Cardinality(Names) \in Nat
  BY RegisterAssumption, FS_CardinalityType
<1>1. Tree(objects) /\ DOMAIN objects = 1 .. Len(objects) /\ Len(objects) \in Nat
  BY ObjectsTree DEF HierarchyInv
<1>2. Climb(t) \in [Nat -> Places(objects)] /\ Climb(t)[0] = t
  BY ClimbFacts DEF HierarchyInv
<1>3. t \in Places(objects)
  BY <1>1 DEF Places
<1>4. Heights \subseteq Nat /\ 0 \in Heights
  BY <1>0 DEF Heights
<1>5. Lineage(t) \subseteq DOMAIN objects
  BY <1>1, <1>2, <1>4 DEF Lineage, Places
<1>6. t \in Lineage(t)
  BY <1>1, <1>2, <1>4 DEF Lineage
<1>7. ASSUME NEW u \in Lineage(t), NEW v \in Lineage(u) PROVE v \in Lineage(t)
  <2>1. PICK i \in Heights : u = Climb(t)[i]
    BY DEF Lineage
  <2>2. PICK j \in Heights : v = Climb(u)[j] /\ v # 0
    BY DEF Lineage
  <2>3. v = Climb(t)[i + j]
    <3>1. Climb(Climb(t)[i])[j] = Climb(t)[i + j]
      BY <1>4, <1>3, ClimbAdded DEF HierarchyInv
    <3>2. QED
      BY <2>1, <2>2, <3>1
  <2>4. i + j \in Nat
    BY <1>4
  <2>5. i + j \in Heights
    BY <2>2, <2>3, <2>4, ClimbsEnd, ClimbIs
  <2>6. QED
    BY <2>2, <2>3, <2>5 DEF Lineage
<1>8. ASSUME NEW i \in Heights, NEW j \in Heights, i <= j, Climb(t)[j] # 0
      PROVE  Climb(t)[j] \in Lineage(Climb(t)[i])
  <2>1. j - i \in Heights /\ i + (j - i) = j
    BY <1>0, <1>8 DEF Heights
  <2>2. Climb(Climb(t)[i])[j - i] = Climb(t)[j]
    <3>1. Climb(Climb(t)[i])[j - i] = Climb(t)[i + (j - i)]
      BY <1>4, <1>3, <2>1, ClimbAdded DEF HierarchyInv
    <3>2. QED
      BY <2>1, <3>1
  <2>3. QED
    BY <1>8, <2>1, <2>2 DEF Lineage
<1>9. QED
  BY <1>5, <1>6, <1>7, <1>8

-----------------------------------------------------------------------------
(* InheritanceRead: what the definitions said and what load linked go up   *)
(* together.                                                               *)

LEMMA DeclaredSteps ==
  ASSUME RegisterTypes, NEW name \in AllNames
  PROVE  /\ DeclaredUp(name) \in [Nat -> AllNames \cup {None}]
         /\ DeclaredUp(name)[0] = name
         /\ \A i \in Nat : DeclaredUp(name)[i + 1] = DeclaredParent(DeclaredUp(name)[i])
<1> SUFFICES ASSUME NEW S, S = AllNames \cup {None}, NEW f, f = [x \in S |-> DeclaredParent(x)]
             PROVE  /\ DeclaredUp(name) \in [Nat -> AllNames \cup {None}]
                    /\ DeclaredUp(name)[0] = name
                    /\ \A i \in Nat : DeclaredUp(name)[i + 1] = DeclaredParent(DeclaredUp(name)[i])
  OBVIOUS
<1> DEFINE Rule(up) == up = [i \in Nat |-> IF i = 0 THEN name ELSE DeclaredParent(up[i - 1])]
<1>1. f \in [S -> S]
  <2>1. ASSUME NEW x \in S PROVE DeclaredParent(x) \in S
    BY DEF RegisterTypes, DeclaredParent, AllNames, Predefined
  <2>2. QED
    BY <2>1
<1>2. PICK up \in [Nat -> S] : up[0] = name /\ \A i \in Nat : up[i + 1] = f[up[i]]
  <2>1. PICK up : WayUp(S, f, name, up)
    BY <1>1, Iteration
  <2>2. QED
    BY <2>1 DEF WayUp
<1>3. Rule(up)
  <2>1. \A i \in Nat : up[i] = IF i = 0 THEN name ELSE DeclaredParent(up[i - 1])
    <3> TAKE i \in Nat
    <3>1. CASE i = 0
      BY <1>2, <3>1
    <3>2. CASE i # 0
      <4>1. i - 1 \in Nat /\ (i - 1) + 1 = i
        BY <3>2
      <4>2. up[i] = f[up[i - 1]] /\ up[i - 1] \in S
        BY <1>2, <4>1
      <4>3. QED
        BY <3>2, <4>2
    <3>3. QED
      BY <3>1, <3>2
  <2>2. up = [i \in Nat |-> up[i]]
    OBVIOUS
  <2>3. QED
    BY <2>1, <2>2
<1>4. Rule(DeclaredUp(name))
  BY <1>3 DEF DeclaredUp
<1>5. DeclaredUp(name) = up
  <2> DEFINE c == DeclaredUp(name)
             T == {i \in Nat : c[i] = up[i]}
  <2>1. \A i \in Nat : c[i] = IF i = 0 THEN name ELSE DeclaredParent(c[i - 1])
    BY <1>4
  <2>2. c = [i \in Nat |-> c[i]]
    BY <1>4
  <2> HIDE DEF c
  <2>3. 0 \in T
    BY <1>2, <2>1
  <2>4. ASSUME NEW i \in T PROVE i + 1 \in T
    <3>1. i \in Nat /\ c[i] = up[i] /\ (i + 1) - 1 = i /\ i + 1 # 0 /\ i + 1 \in Nat
      OBVIOUS
    <3>2. c[i + 1] = DeclaredParent(c[i])
      <4>1. c[i + 1] = IF i + 1 = 0 THEN name ELSE DeclaredParent(c[(i + 1) - 1])
        BY <2>1, <3>1
      <4>2. QED
        BY <3>1, <4>1
    <3>3. up[i + 1] = DeclaredParent(up[i])
      BY <1>2, <3>1
    <3>4. QED
      BY <3>1, <3>2, <3>3
  <2>5. T = Nat
    BY <2>3, <2>4, NatSet
  <2>6. up = [i \in Nat |-> up[i]]
    OBVIOUS
  <2>7. c = up
    BY <2>2, <2>5, <2>6
  <2>8. QED
    BY <2>7 DEF c
<1>6. ASSUME NEW i \in Nat PROVE up[i + 1] = DeclaredParent(up[i])
  <2>1. up[i] \in S
    OBVIOUS
  <2>2. QED
    BY <1>2, <2>1
<1>7. QED
  BY <1>2, <1>5, <1>6

\* The name n and the type u are at the same place.
Same(n, u) ==
  \/ n = None /\ u = 0
  \/ n \in DOMAIN registered /\ u = registered[n]

\* One step up, from a name whose declared parent was not replaced.
LEMMA SameUp ==
  ASSUME HierarchyInv, NEW n \in AllNames \cup {None}, NEW u, Same(n, u), DeclaredParent(n) \notin replaced
  PROVE  Same(DeclaredParent(n), ParentOf(u))
<1>0. None \notin AllNames /\ Names \cap Predefined = {}
  BY RegisterAssumption DEF AllNames
<1>1. CASE n = None /\ u = 0
  BY <1>0, <1>1 DEF Same, DeclaredParent, ParentOf, HierarchyInv, RegisterTypes, AllNames, Predefined
<1>2. CASE n \in DOMAIN registered /\ u = registered[n]
  <2>0. u \in DOMAIN objects /\ u # 0 /\ ParentOf(u) = objects[u].parent
    BY <1>2, ObjectsTree DEF HierarchyInv, RegisterTypes, ParentOf
  <2>1. CASE n \in DOMAIN declared
    <3>1. DeclaredParent(n) = declared[n] /\ Linked(n)
      BY <2>1 DEF DeclaredParent, HierarchyInv, LinksInv
    <3>2. QED
      BY <1>2, <2>0, <3>1 DEF Linked, Same
  <2>2. CASE n \in Names \ DOMAIN declared
    <3>1. DeclaredParent(n) = None
      BY <1>0, <2>2 DEF DeclaredParent, Predefined
    <3>2. objects[u].parent = 0
      BY <1>2, <2>2 DEF HierarchyInv, LinksInv
    <3>3. QED
      BY <2>0, <3>1, <3>2 DEF Same
  <2>3. CASE n \in Predefined
    <3>1. n \notin DOMAIN declared
      BY <1>0, <2>3 DEF HierarchyInv, RegisterTypes
    <3>2. CASE n = "Any"
      BY <1>2, <2>0, <3>1, <3>2 DEF DeclaredParent, Same, HierarchyInv, NamesInv, LinksInv
    <3>3. CASE n \in {"Integer", "Real"}
      <4>1. DeclaredParent(n) = "Any" /\ "Any" \in DOMAIN registered
        BY <3>1, <3>3 DEF DeclaredParent, HierarchyInv, NamesInv, Predefined
      <4>2. ParentOf(u) = 1 /\ registered["Any"] = 1
        BY <1>2, <2>0, <3>3 DEF HierarchyInv, NamesInv, LinksInv
      <4>3. QED
        BY <4>1, <4>2 DEF Same
    <3>4. QED
      BY <2>3, <3>2, <3>3 DEF Predefined
  <2>4. QED
    BY <1>0, <1>2, <2>1, <2>2, <2>3 DEF AllNames, HierarchyInv, RegisterTypes
<1>3. QED
  BY <1>1, <1>2 DEF Same

LEMMA InheritanceHolds == HierarchyInv => InheritanceRead
<1> SUFFICES ASSUME HierarchyInv, NEW name \in DOMAIN declared,
                    \A i \in Heights : DeclaredUp(name)[i] \notin replaced
             PROVE  \A i \in Heights : NameOf(Climb(registered[name])[i]) = DeclaredUp(name)[i]
  BY DEF InheritanceRead
<1>0. Cardinality(Names) \in Nat
  BY RegisterAssumption, FS_CardinalityType
<1>1. name \in AllNames /\ name \in DOMAIN registered /\ registered[name] \in DOMAIN objects
  BY DEF HierarchyInv, RegisterTypes, LinksInv, AllNames
<1> DEFINE up(i) == Climb(registered[name])[i]
           said(i) == DeclaredUp(name)[i]
           T == {i \in Nat : i \in Heights => Same(said(i), up(i))}
<1>2. /\ \A i \in Nat : said(i) \in AllNames \cup {None} /\ said(i + 1) = DeclaredParent(said(i))
      /\ said(0) = name
  BY <1>1, DeclaredSteps DEF HierarchyInv
<1>3. up(0) = registered[name] /\ \A i \in Nat : up(i + 1) = ParentOf(up(i))
  BY <1>1, ClimbFacts DEF HierarchyInv
<1>4. \A i \in Heights : said(i) \notin replaced
  OBVIOUS
<1> HIDE DEF up, said
<1>5. 0 \in T
  BY <1>1, <1>2, <1>3 DEF Same
<1>6. ASSUME NEW i \in T PROVE i + 1 \in T
  <2>1. i \in Nat /\ i + 1 \in Nat
    OBVIOUS
  <2>2. SUFFICES ASSUME i + 1 \in Heights PROVE Same(said(i + 1), up(i + 1))
    BY <2>1
  <2>3. i \in Heights
    BY <1>0, <2>1, <2>2 DEF Heights
  <2>4. Same(said(i), up(i)) /\ said(i) \in AllNames \cup {None}
    BY <1>2, <2>1, <2>3
  <2>5. said(i + 1) = DeclaredParent(said(i)) /\ up(i + 1) = ParentOf(up(i)) /\ said(i + 1) \notin replaced
    BY <1>2, <1>3, <1>4, <2>1, <2>2
  <2>6. QED
    BY <2>4, <2>5, SameUp
<1> HIDE DEF T
<1>7. T = Nat
  BY <1>5, <1>6, NatSet DEF T
<1>8. ASSUME NEW i \in Heights PROVE NameOf(up(i)) = said(i)
  <2>1. i \in Nat
    BY <1>0 DEF Heights
  <2>2. Same(said(i), up(i))
    BY <1>7, <2>1 DEF T
  <2>3. CASE said(i) = None /\ up(i) = 0
    BY <2>3 DEF NameOf
  <2>4. CASE said(i) \in DOMAIN registered /\ up(i) = registered[said(i)]
    <3>1. up(i) \in 1 .. Len(objects) /\ Len(objects) \in Nat
      BY <2>4, ObjectsTree DEF HierarchyInv, RegisterTypes
    <3>2. objects[up(i)].name = said(i)
      BY <2>4 DEF HierarchyInv, NamesInv
    <3>3. QED
      BY <3>1, <3>2 DEF NameOf
  <2>5. QED
    BY <2>2, <2>3, <2>4 DEF Same
<1>9. QED
  BY <1>8 DEF up, said

-----------------------------------------------------------------------------
(* The steps of Register.                                                  *)

\* What load does with a definition of n, of the type t, with the parent q.
Links(n, q, t) ==
  /\ t \in DOMAIN objects =>
       n \in DOMAIN registered /\ registered[n] = t /\ objects[t].placeholder
  /\ t \notin DOMAIN objects => n \notin DOMAIN registered
  /\ objects' \in Seq(ObjectType) /\ Len(objects) <= Len(objects')
  /\ t \in DOMAIN objects'
  /\ q = None => objects'[t] = Type(n, 0, FALSE)
  /\ q # None => objects'[t] = Type(n, registered'[q], FALSE)
  /\ \A u \in DOMAIN objects : u \in DOMAIN objects' /\ (u # t => objects'[u] = objects[u])
  /\ \A u \in DOMAIN objects' :
       \/ u \in DOMAIN objects \/ u = t
       \/ /\ q \notin DOMAIN registered /\ q # n /\ q # None
          /\ registered'[q] = u /\ objects'[u] = Type(q, 0, TRUE)
  /\ \A x : x \in DOMAIN registered' <=> x \in DOMAIN registered \/ x = n \/ (x = q /\ q # None)
  /\ registered'[n] = t /\ n # q
  /\ \A x \in DOMAIN registered : registered'[x] = registered[x]
  /\ registered' \in [DOMAIN registered' -> DOMAIN objects']
  /\ q # None /\ q \notin DOMAIN registered =>
       /\ registered'[q] \notin DOMAIN objects /\ registered'[q] # t
       /\ objects'[registered'[q]] = Type(q, 0, TRUE)

LEMMA NotOwnParent == \A name \in Names : name \notin Parents[name]
<1>1. PICK rank \in [Names -> 1 .. Cardinality(Names)] :
        \A name \in Names : \A parent \in Parents[name] \cap Names : rank[parent] < rank[name]
  BY ParentsAssumption
<1>2. SUFFICES ASSUME NEW name \in Names, name \in Parents[name] PROVE FALSE
  OBVIOUS
<1>3. rank[name] < rank[name] /\ rank[name] \in Nat
  <2>1. Cardinality(Names) \in Nat
    BY RegisterAssumption, FS_CardinalityType
  <2>2. QED
    BY <1>1, <1>2, <2>1
<1>4. QED
  BY <1>3

\* The type that load fills.
LEMMA OpenedFacts ==
  ASSUME HierarchyInv, NEW n \in Names, n \notin DOMAIN declared, ~Defined(n)
  PROVE  /\ Filled(n) \in DOMAIN objects =>
              n \in DOMAIN registered /\ registered[n] = Filled(n) /\ objects[Filled(n)].placeholder
         /\ Filled(n) \notin DOMAIN objects => n \notin DOMAIN registered
         /\ n \in DOMAIN registered => Filled(n) = registered[n]
         /\ Opened(n) \in Seq(ObjectType) /\ Filled(n) \in DOMAIN Opened(n)
         /\ \A u : u \in DOMAIN Opened(n) <=> u \in DOMAIN objects \/ u = Filled(n)
         /\ Len(Opened(n)) \in Nat /\ Len(objects) <= Len(Opened(n))
         /\ Opened(n)[Filled(n)] = Type(n, 0, FALSE)
         /\ \A u \in DOMAIN objects : u # Filled(n) => Opened(n)[u] = objects[u]
<1>1. objects \in Seq(ObjectType) /\ DOMAIN objects = 1 .. Len(objects) /\ Len(objects) \in Nat
  BY ObjectsTree DEF HierarchyInv, RegisterTypes, ObjectType
<1>2. CASE Known(n)
  <2>1. PICK t, r : t = Filled(n) /\ r = Opened(n)
    OBVIOUS
  <2>2. t = registered[n] /\ t \in DOMAIN objects
    BY <1>2, <2>1 DEF Filled, Known, HierarchyInv, RegisterTypes
  <2>3. r = [objects EXCEPT ![t].placeholder = FALSE]
    BY <1>2, <2>1, <2>2 DEF Opened
  <2>4. objects[t].placeholder
    BY <1>2, <2>2 DEF Defined
  <2>5. objects[t].name = n
    BY <1>2, <2>2 DEF Known, HierarchyInv, NamesInv
  <2>6. objects[t].parent = 0
    BY <1>2, <2>2 DEF Known, HierarchyInv, LinksInv
  <2>7. objects[t] \in ObjectType
    BY <2>2, ObjectTypes DEF HierarchyInv
  <2>8. [objects[t] EXCEPT !.placeholder = FALSE] = Type(n, 0, FALSE)
    <3>1. PICK o \in ObjectType : o = objects[t]
      BY <2>7
    <3>2. PICK e : e = [o EXCEPT !.placeholder = FALSE]
      OBVIOUS
    <3>3. e = Type(n, 0, FALSE)
      BY <2>5, <2>6, <3>1, <3>2 DEF ObjectType, Type
    <3>4. QED
      BY <3>1, <3>2, <3>3
  <2>9. r = [objects EXCEPT ![t] = Type(n, 0, FALSE)]
    BY <2>2, <2>3, <2>8
  <2>10. Type(n, 0, FALSE) \in ObjectType
    BY DEF Type, ObjectType, AllNames
  <2>11. QED
    <3>1. PICK e \in ObjectType : e = Type(n, 0, FALSE)
      BY <2>10
    <3>2. r = [objects EXCEPT ![t] = e]
      BY <2>9, <3>1
    <3>3. /\ r \in Seq(ObjectType) /\ Len(r) = Len(objects) /\ DOMAIN r = DOMAIN objects /\ r[t] = e
          /\ \A u \in DOMAIN objects \ {t} : r[u] = objects[u]
      BY <1>1, <2>2, <3>2
    <3>4. r[t] = Type(n, 0, FALSE) /\ n \in DOMAIN registered
      BY <1>2, <3>1, <3>3 DEF Known
    <3>5. \A u : u \in DOMAIN r <=> u \in DOMAIN objects \/ u = t
      BY <2>2, <3>3
    <3>6. Len(r) \in Nat /\ Len(objects) <= Len(r)
      BY <1>1, <3>3
    <3>7. QED
      BY <2>1, <2>2, <2>4, <3>3, <3>4, <3>5, <3>6
<1>3. CASE ~Known(n)
  <2>1. Filled(n) = Len(objects) + 1 /\ Opened(n) = Append(objects, Type(n, 0, FALSE))
    BY <1>3 DEF Filled, Opened
  <2>2. Type(n, 0, FALSE) \in ObjectType
    BY DEF Type, ObjectType, AllNames
  <2>3. PICK t, r, e : t = Filled(n) /\ r = Opened(n) /\ e = Type(n, 0, FALSE)
    OBVIOUS
  <2>4. r \in Seq(ObjectType) /\ Len(r) = Len(objects) + 1 /\ r[t] = e
        /\ \A u \in DOMAIN objects : r[u] = objects[u]
    <3>1. e \in ObjectType /\ r = Append(objects, e) /\ t = Len(objects) + 1
      BY <2>1, <2>2, <2>3
    <3>2. QED
      BY <1>1, <3>1
  <2>5. DOMAIN r = 1 .. Len(objects) + 1
    BY <1>1, <2>4
  <2>6. DOMAIN r = DOMAIN objects \cup {t} /\ DOMAIN r = 1 .. Len(r) /\ t \notin DOMAIN objects
        /\ Len(r) \in Nat /\ Len(objects) <= Len(r)
    BY <1>1, <2>1, <2>3, <2>4, <2>5
  <2>7. n \notin DOMAIN registered
    BY <1>3 DEF Known
  <2>8. QED
    BY <1>1, <2>1, <2>3, <2>7, <2>4, <2>6
<1>4. QED
  BY <1>2, <1>3

\* The register with one more name.
IsPut(r, s, n, t) == r = Put(s, n, t)
LEMMA KnownFacts ==
  ASSUME HierarchyInv, NEW n \in Names, NEW t, NEW S, t \in S, \A u \in DOMAIN objects : u \in S, NEW known,
         IsPut(known, registered, n, t), n \in DOMAIN registered => t = registered[n]
  PROVE  /\ \A x : x \in DOMAIN known <=> x \in DOMAIN registered \/ x = n
         /\ known[n] = t
         /\ \A x \in DOMAIN registered : known[x] = registered[x]
         /\ known \in [DOMAIN known -> S]
<1>1. /\ DOMAIN known = DOMAIN registered \cup {n} /\ known[n] = t
      /\ \A x \in DOMAIN registered \ {n} : known[x] = registered[x]
  BY DEF Put, IsPut
<1>2. \A x \in DOMAIN registered : registered[x] \in S
  BY DEF HierarchyInv, RegisterTypes
<1>3. known = [x \in DOMAIN known |-> known[x]]
  BY DEF Put, IsPut
<1>4. QED
  BY <1>1, <1>2, <1>3

\* One element of a sequence, or one more.
IsSet(r, s, t, e) == r = [s EXCEPT ![t] = e]
LEMMA SetAt ==
  ASSUME NEW S, NEW s \in Seq(S), NEW t \in DOMAIN s, NEW e \in S, NEW r, IsSet(r, s, t, e)
  PROVE  /\ r \in Seq(S) /\ Len(r) = Len(s) /\ DOMAIN r = DOMAIN s /\ r[t] = e
         /\ \A u \in DOMAIN s : u # t => r[u] = s[u]
  BY DEF IsSet

IsAdded(r, s, e) == r = Append(s, e)
LEMMA AddAt ==
  ASSUME NEW S, NEW s \in Seq(S), NEW e \in S, NEW r, IsAdded(r, s, e)
  PROVE  /\ r \in Seq(S) /\ Len(r) = Len(s) + 1 /\ r[Len(r)] = e /\ Len(r) \notin DOMAIN s
         /\ \A u : u \in DOMAIN r <=> u \in DOMAIN s \/ u = Len(r)
         /\ \A u \in DOMAIN s : r[u] = s[u]
         /\ Len(s) \in Nat /\ Len(r) \in Nat
<1>1. r \in Seq(S) /\ Len(r) = Len(s) + 1 /\ r[Len(r)] = e /\ \A u \in DOMAIN s : r[u] = s[u]
  BY DEF IsAdded
<1>2. DOMAIN s = 1 .. Len(s) /\ DOMAIN r = 1 .. Len(r) /\ Len(s) \in Nat
  BY <1>1
<1>3. QED
  BY <1>1, <1>2

LEMMA ParentSet ==
  ASSUME NEW n \in Names, NEW s \in Seq(ObjectType), NEW t \in DOMAIN s, s[t] = Type(n, 0, FALSE),
         NEW p \in Nat
  PROVE  \E e \in ObjectType : e = Type(n, p, FALSE) /\ IsSet([s EXCEPT ![t].parent = p], s, t, e)
<1>1. PICK o, e : o = Type(n, 0, FALSE) /\ e = [o EXCEPT !.parent = p]
  OBVIOUS
<1>2. e = Type(n, p, FALSE)
  BY <1>1 DEF Type
<1>3. e \in ObjectType
  BY <1>2 DEF Type, ObjectType, AllNames
<1>4. [s EXCEPT ![t].parent = p] = [s EXCEPT ![t] = e]
  BY <1>1
<1>5. QED
  BY <1>2, <1>3, <1>4 DEF IsSet

LEMMA DefineLinks ==
  ASSUME HierarchyInv, Define
  PROVE  \E n \in Names : \E q \in Parents[n] : \E t :
           /\ q \in AllNames \cup {None} /\ Links(n, q, t) /\ n \notin DOMAIN declared
           /\ declared' = Put(declared, n, q)
           /\ UNCHANGED <<replaced, items, early, component>>
<1>0. loading # <<>> /\ loading \in Seq(Definitions) /\ DOMAIN loading = 1 .. Len(loading)
      /\ \A i \in DOMAIN loading : loading[i].parent \in Parents[loading[i].name]
  BY DEF Define, HierarchyInv, RegisterTypes
<1>1. PICK d \in Definitions : d = Head(loading) /\ d.parent \in Parents[d.name]
  <2>1. Len(loading) \in Nat /\ Len(loading) > 0 /\ Head(loading) = loading[1]
    BY <1>0
  <2>2. 1 \in DOMAIN loading /\ loading[1] \in Definitions
    BY <1>0, <2>1, ElementOfSeq
  <2>3. QED
    BY <1>0, <2>1, <2>2
<1>2. PICK n, q : n = d.name /\ q = d.parent
  OBVIOUS
<1>3. n \in Names /\ q \in Parents[n] /\ q \in AllNames \cup {None} /\ n # q
  BY <1>1, <1>2, NotOwnParent DEF Definitions, AllNames
<1>4. ~Defined(n) /\ Link(d) /\ declared' = Put(declared, n, q)
      /\ UNCHANGED <<replaced, items, early, component>>
  BY <1>1, <1>2 DEF Define
<1>5. n \notin DOMAIN declared
  <2>1. SUFFICES ASSUME n \in DOMAIN declared PROVE FALSE
    OBVIOUS
  <2>2. Known(n) /\ ~objects[registered[n]].placeholder
    BY <2>1 DEF Known, HierarchyInv, LinksInv, Linked
  <2>3. QED
    BY <1>4, <2>2 DEF Defined
<1>6. PICK t, opened, known : t = Filled(n) /\ opened = Opened(n) /\ known = Put(registered, n, t)
  OBVIOUS
<1>7. /\ t \in DOMAIN objects => n \in DOMAIN registered /\ registered[n] = t /\ objects[t].placeholder
      /\ t \notin DOMAIN objects => n \notin DOMAIN registered
      /\ n \in DOMAIN registered => t = registered[n]
  BY <1>3, <1>4, <1>5, <1>6, OpenedFacts
<1>8. opened \in Seq(ObjectType) /\ t \in DOMAIN opened /\ opened[t] = Type(n, 0, FALSE)
  BY <1>3, <1>4, <1>5, <1>6, OpenedFacts
<1>9. /\ \A u : u \in DOMAIN opened <=> u \in DOMAIN objects \/ u = t
      /\ \A u \in DOMAIN objects : u # t => opened[u] = objects[u]
  BY <1>3, <1>4, <1>5, <1>6, OpenedFacts
<1>10. Len(opened) \in Nat /\ Len(objects) <= Len(opened)
  BY <1>3, <1>4, <1>5, <1>6, OpenedFacts
<1>11. \A u \in DOMAIN opened : u \in 1 .. Len(opened) /\ u \in Nat
  BY <1>8
<1>12. /\ \A x : x \in DOMAIN known <=> x \in DOMAIN registered \/ x = n
       /\ known[n] = t
       /\ \A x \in DOMAIN registered : known[x] = registered[x]
       /\ known \in [DOMAIN known -> DOMAIN opened]
  <2>1. t \in DOMAIN opened /\ \A u \in DOMAIN objects : u \in DOMAIN opened
    BY <1>8, <1>9
  <2>2. n \in DOMAIN registered => t = registered[n]
    BY <1>7
  <2>3. IsPut(known, registered, n, t)
    BY <1>6 DEF IsPut
  <2>4. QED
    BY <1>3, <2>1, <2>2, <2>3, KnownFacts
<1>13. \/ q = None /\ objects' = opened /\ registered' = known
       \/ q \in DOMAIN known /\ objects' = [opened EXCEPT ![t].parent = known[q]] /\ registered' = known
       \/ /\ q \notin DOMAIN known \cup {None}
          /\ objects' = Append([opened EXCEPT ![t].parent = Len(opened) + 1], Type(q, 0, TRUE))
          /\ registered' = Put(known, q, Len(opened) + 1)
  BY <1>2, <1>4, <1>6 DEF Link, Placeholder
<1>14. Links(n, q, t)
  <2>1. CASE q = None /\ objects' = opened /\ registered' = known
    BY <1>3, <1>7, <1>8, <1>9, <1>10, <1>12, <2>1 DEF Links
  <2>2. CASE q \in DOMAIN known /\ objects' = [opened EXCEPT ![t].parent = known[q]] /\ registered' = known
    <3>1. q # None /\ q \in DOMAIN registered
      BY <1>3, <1>12, <2>2, RegisterAssumption DEF HierarchyInv, RegisterTypes, AllNames
    <3>2. PICK p \in Nat : p = known[q]
      BY <1>11, <1>12, <2>2
    <3>3. PICK e \in ObjectType : e = Type(n, p, FALSE) /\ IsSet([opened EXCEPT ![t].parent = p], opened, t, e)
      BY <1>3, <1>8, ParentSet
    <3>4. IsSet(objects', opened, t, e)
      BY <2>2, <3>2, <3>3
    <3>5. /\ objects' \in Seq(ObjectType) /\ Len(objects') = Len(opened) /\ DOMAIN objects' = DOMAIN opened
          /\ objects'[t] = e
          /\ \A u \in DOMAIN opened : u # t => objects'[u] = opened[u]
      BY <1>8, <3>4, SetAt
    <3>6. objects'[t] = Type(n, registered'[q], FALSE)
      BY <2>2, <3>2, <3>3, <3>5
    <3>7. registered' = known
      BY <2>2
    <3>8. QED
      BY <1>3, <1>7, <1>8, <1>9, <1>10, <1>12, <3>1, <3>5, <3>6, <3>7 DEF Links
  <2>3. CASE /\ q \notin DOMAIN known \cup {None}
             /\ objects' = Append([opened EXCEPT ![t].parent = Len(opened) + 1], Type(q, 0, TRUE))
             /\ registered' = Put(known, q, Len(opened) + 1)
    <3>1. PICK p, linked : p = Len(opened) + 1 /\ linked = [opened EXCEPT ![t].parent = p]
      OBVIOUS
    <3>2. p \in Nat
      BY <1>10, <3>1
    <3>3. PICK e \in ObjectType : e = Type(n, p, FALSE) /\ IsSet([opened EXCEPT ![t].parent = p], opened, t, e)
      BY <1>3, <1>8, <3>2, ParentSet
    <3>4. IsSet(linked, opened, t, e)
      BY <3>1, <3>3
    <3>5. /\ linked \in Seq(ObjectType) /\ Len(linked) = Len(opened) /\ DOMAIN linked = DOMAIN opened
          /\ linked[t] = e
          /\ \A u \in DOMAIN opened : u # t => linked[u] = opened[u]
      BY <1>8, <3>4, SetAt
    <3>6. PICK x \in ObjectType : x = Type(q, 0, TRUE)
      BY <1>3, <2>3 DEF Type, ObjectType
    <3>7. IsAdded(objects', linked, x)
      BY <2>3, <3>1, <3>6 DEF IsAdded
    <3>8. /\ objects' \in Seq(ObjectType) /\ Len(objects') = Len(linked) + 1
          /\ objects'[Len(objects')] = x /\ Len(objects') \notin DOMAIN linked
          /\ \A u : u \in DOMAIN objects' <=> u \in DOMAIN linked \/ u = Len(objects')
          /\ \A u \in DOMAIN linked : objects'[u] = linked[u]
          /\ Len(linked) \in Nat /\ Len(objects') \in Nat
      BY <3>5, <3>7, AddAt
    <3>9. Len(objects') = p /\ Len(objects) <= Len(objects')
      BY <1>10, <3>1, <3>5, <3>8
    <3>10. /\ p \in DOMAIN objects' /\ p \notin DOMAIN objects /\ p # t /\ objects'[p] = Type(q, 0, TRUE)
           /\ t \in DOMAIN objects' /\ objects'[t] = Type(n, p, FALSE)
           /\ \A u \in DOMAIN objects : u \in DOMAIN objects' /\ (u # t => objects'[u] = objects[u])
           /\ \A u \in DOMAIN objects' : u \in DOMAIN objects \/ u = t \/ u = p
      BY <1>8, <1>9, <3>3, <3>5, <3>6, <3>8, <3>9
    <3>11. IsPut(registered', known, q, p)
      BY <2>3, <3>1 DEF IsPut
    <3>12. /\ \A y : y \in DOMAIN registered' <=> y \in DOMAIN known \/ y = q
           /\ registered'[q] = p
           /\ \A y \in DOMAIN known : y # q => registered'[y] = known[y]
           /\ registered' = [y \in DOMAIN registered' |-> registered'[y]]
      BY <3>11 DEF IsPut, Put
    <3>13. q \notin DOMAIN registered /\ q # None
      BY <1>12, <2>3
    <3>14. /\ \A y : y \in DOMAIN registered' <=> y \in DOMAIN registered \/ y = n \/ (y = q /\ q # None)
           /\ registered'[n] = t
           /\ \A y \in DOMAIN registered : registered'[y] = registered[y]
      BY <1>3, <1>12, <3>12, <3>13
    <3>15. registered' \in [DOMAIN registered' -> DOMAIN objects']
      <4>1. \A y \in DOMAIN registered : registered[y] \in DOMAIN objects
        BY DEF HierarchyInv, RegisterTypes
      <4>2. \A y \in DOMAIN registered' : registered'[y] \in DOMAIN objects'
        BY <3>10, <3>12, <3>14, <4>1
      <4>3. QED
        BY <3>12, <4>2
    <3>16. QED
      BY <1>3, <1>7, <3>8, <3>9, <3>10, <3>12, <3>13, <3>14, <3>15 DEF Links
  <2>4. QED
    BY <1>13, <2>1, <2>2, <2>3
<1>15. QED
  BY <1>3, <1>4, <1>5, <1>14

-----------------------------------------------------------------------------
(* Each conjunct of HierarchyInv, kept by each step that creates or fills  *)
(* a type.                                                                 *)

\* What the types of the array are among, as types are only created.
LEMMA ArrayTypes ==
  ASSUME RegisterTypes, objects' \in Seq(ObjectType), Len(objects) <= Len(objects'),
         UNCHANGED <<items, early, component>>
  PROVE  items' \in Seq(DOMAIN objects') /\ early' \in BOOLEAN /\ component' \in 0 .. Len(objects')
<1>1. DOMAIN objects = 1 .. Len(objects) /\ DOMAIN objects' = 1 .. Len(objects')
      /\ Len(objects) \in Nat /\ Len(objects') \in Nat
  BY ObjectsTree
<1>2. \A u \in DOMAIN objects : u \in DOMAIN objects'
  BY <1>1
<1>3. items \in Seq(DOMAIN objects) /\ early \in BOOLEAN /\ component \in 0 .. Len(objects)
  BY DEF RegisterTypes
<1>4. items \in Seq(DOMAIN objects')
  <2>1. \A i \in 1 .. Len(items) : items[i] \in DOMAIN objects'
    BY <1>2, <1>3
  <2>2. Len(items) \in Nat /\ items = [i \in 1 .. Len(items) |-> items[i]]
    BY <1>3
  <2>3. QED
    BY <2>1, <2>2
<1>5. component \in 0 .. Len(objects')
  BY <1>1, <1>3
<1>6. QED
  BY <1>3, <1>4, <1>5

\* The definitions that are left, whether load goes on or stops.
LEMMA LoadingTypes ==
  ASSUME RegisterTypes, loading # <<>>, loading' \in {<<>>, Tail(loading)}
  PROVE  loading' \in Seq(Definitions) /\ \A i \in DOMAIN loading' : loading'[i].parent \in Parents[loading'[i].name]
<1>1. loading \in Seq(Definitions) /\ \A i \in DOMAIN loading : loading[i].parent \in Parents[loading[i].name]
  BY DEF RegisterTypes
<1>2. CASE loading' = <<>>
  BY <1>2
<1>3. CASE loading' = Tail(loading)
  <2>1. loading' \in Seq(Definitions) /\ Len(loading') = Len(loading) - 1
        /\ \A i \in 1 .. Len(loading) - 1 : loading'[i] = loading[i + 1]
    BY <1>1, <1>3
  <2>2. \A i \in DOMAIN loading' : i + 1 \in DOMAIN loading /\ loading'[i] = loading[i + 1]
    BY <1>1, <2>1
  <2>3. QED
    BY <1>1, <2>1, <2>2
<1>4. QED
  BY <1>2, <1>3

DefineOf(n, q, t) ==
  /\ n \in Names /\ q \in Parents[n] /\ q \in AllNames \cup {None}
  /\ Links(n, q, t) /\ n \notin DOMAIN declared /\ declared' = Put(declared, n, q)
  /\ UNCHANGED <<replaced, items, early, component>>

LEMMA ParentsOf ==
  ASSUME HierarchyInv, NEW n, NEW q, NEW t, DefineOf(n, q, t)
  PROVE  q # None => registered'[q] \in DOMAIN objects'
  BY DEF DefineOf, Links

LEMMA DefineTypes ==
  ASSUME HierarchyInv, Define, NEW n, NEW q, NEW t, DefineOf(n, q, t)
  PROVE  RegisterTypes'
<1>0. None \notin AllNames /\ n \in AllNames
  BY RegisterAssumption DEF AllNames, DefineOf
<1>1. objects' \in Seq(ObjectType) /\ Len(objects) <= Len(objects') /\ Len(objects) \in Nat
      /\ DOMAIN objects' = 1 .. Len(objects') /\ Len(objects') \in Nat
  BY ObjectsTree DEF DefineOf, Links, HierarchyInv
<1>2. ASSUME NEW u \in DOMAIN objects' PROVE objects'[u].parent \in 0 .. Len(objects')
  <2>1. CASE u = t
    <3>1. CASE q = None
      <4>1. objects'[u] = Type(n, 0, FALSE)
        BY <2>1, <3>1 DEF DefineOf, Links
      <4>2. QED
        BY <1>1, <4>1 DEF Type
    <3>2. CASE q # None
      <4>1. objects'[u] = Type(n, registered'[q], FALSE)
        BY <2>1, <3>2 DEF DefineOf, Links
      <4>2. objects'[u].parent \in DOMAIN objects'
        BY <3>2, <4>1, ParentsOf DEF Type
      <4>3. QED
        BY <1>1, <4>2
    <3>3. QED
      BY <3>1, <3>2
  <2>2. CASE u # t /\ u \in DOMAIN objects
    <3>1. objects'[u] = objects[u]
      BY <2>2 DEF DefineOf, Links
    <3>2. objects[u].parent \in 0 .. Len(objects)
      BY <2>2 DEF HierarchyInv, RegisterTypes
    <3>3. QED
      BY <1>1, <3>1, <3>2
  <2>3. CASE u # t /\ u \notin DOMAIN objects
    <3>1. objects'[u] = Type(q, 0, TRUE)
      BY <2>3 DEF DefineOf, Links
    <3>2. QED
      BY <1>1, <3>1 DEF Type
  <2>4. QED
    BY <2>1, <2>2, <2>3
<1>3. DOMAIN registered' \subseteq AllNames /\ registered' \in [DOMAIN registered' -> DOMAIN objects']
  <2>1. DOMAIN registered \subseteq AllNames
    BY DEF HierarchyInv, RegisterTypes
  <2>2. \A x \in DOMAIN registered' : x \in DOMAIN registered \/ x = n \/ (x = q /\ q # None)
    BY DEF DefineOf, Links
  <2>3. q \in AllNames \cup {None}
    BY DEF DefineOf
  <2>4. registered' \in [DOMAIN registered' -> DOMAIN objects']
    BY DEF DefineOf, Links
  <2>5. QED
    BY <1>0, <2>1, <2>2, <2>3, <2>4
<1>4. declared' \in [DOMAIN declared' -> AllNames \cup {None}]
      /\ \A x \in DOMAIN declared' : x \in Names /\ declared'[x] \in Parents[x]
  <2>1. declared \in [DOMAIN declared -> AllNames \cup {None}]
        /\ \A x \in DOMAIN declared : x \in Names /\ declared[x] \in Parents[x]
    BY DEF HierarchyInv, RegisterTypes
  <2>2. n \in Names /\ q \in Parents[n] /\ q \in AllNames \cup {None} /\ declared' = Put(declared, n, q)
    BY DEF DefineOf
  <2>3. QED
    BY <2>1, <2>2 DEF Put
<1>5. loading' \in Seq(Definitions) /\ \A i \in DOMAIN loading' : loading'[i].parent \in Parents[loading'[i].name]
  BY LoadingTypes DEF Define, HierarchyInv
<1>6. items' \in Seq(DOMAIN objects') /\ early' \in BOOLEAN /\ component' \in 0 .. Len(objects')
  BY <1>1, ArrayTypes DEF DefineOf, HierarchyInv
<1>7. replaced' \subseteq Names
  BY DEF DefineOf, HierarchyInv, RegisterTypes
<1>8. QED
  BY <1>1, <1>2, <1>3, <1>4, <1>5, <1>6, <1>7 DEF RegisterTypes, ObjectType

LEMMA DefineNames ==
  ASSUME HierarchyInv, NEW n, NEW q, NEW t, DefineOf(n, q, t)
  PROVE  NamesInv'
<1>1. NamesInv /\ RegisterTypes
  BY DEF HierarchyInv
<1>2. objects'[t].name = n /\ registered'[n] = t /\ n \in DOMAIN registered'
  BY DEF DefineOf, Links, Type
<1>3. t \in DOMAIN objects => objects[t].name = n
  BY <1>1 DEF DefineOf, Links, NamesInv
<1>4. \A u \in DOMAIN objects : u \in DOMAIN objects' /\ objects'[u].name = objects[u].name
  BY <1>2, <1>3 DEF DefineOf, Links
<1>5. q # None /\ q \notin DOMAIN registered => objects'[registered'[q]].name = q
  BY DEF DefineOf, Links, Type
<1>6. ASSUME NEW x \in DOMAIN registered' PROVE objects'[registered'[x]].name = x
  <2>1. CASE x \in DOMAIN registered
    <3>1. registered'[x] = registered[x] /\ registered[x] \in DOMAIN objects /\ objects[registered[x]].name = x
      BY <1>1, <2>1 DEF DefineOf, Links, RegisterTypes, NamesInv
    <3>2. QED
      BY <1>4, <3>1
  <2>2. CASE x = n
    BY <1>2, <2>2
  <2>3. CASE x \notin DOMAIN registered /\ x # n
    <3>1. x = q /\ q # None
      BY <2>3 DEF DefineOf, Links
    <3>2. QED
      BY <1>5, <2>3, <3>1
  <2>4. QED
    BY <2>1, <2>2, <2>3
<1>7. ASSUME NEW u \in DOMAIN objects'
      PROVE  /\ objects'[u].name \in DOMAIN registered'
             /\ objects'[u].name \notin replaced' => registered'[objects'[u].name] = u
  <2>1. CASE u = t
    BY <1>2, <2>1
  <2>2. CASE u \in DOMAIN objects
    <3>1. objects[u].name \in DOMAIN registered /\ (objects[u].name \notin replaced => registered[objects[u].name] = u)
      BY <1>1, <2>2 DEF NamesInv
    <3>2. \A x \in DOMAIN registered : x \in DOMAIN registered' /\ registered'[x] = registered[x]
      BY DEF DefineOf, Links
    <3>3. replaced' = replaced
      BY DEF DefineOf
    <3>4. QED
      BY <1>4, <2>2, <3>1, <3>2, <3>3
  <2>3. CASE u # t /\ u \notin DOMAIN objects
    <3>1. objects'[u] = Type(q, 0, TRUE) /\ registered'[q] = u /\ q # None
      BY <2>3 DEF DefineOf, Links
    <3>2. q \in DOMAIN registered'
      BY <3>1 DEF DefineOf, Links
    <3>3. QED
      BY <3>1, <3>2 DEF Type
  <2>4. QED
    BY <2>1, <2>2, <2>3
<1>8. /\ Len(objects') >= 3 /\ Predefined \subseteq DOMAIN registered'
      /\ registered'["Any"] = 1 /\ registered'["Integer"] = 2 /\ registered'["Real"] = 3
  <2>1. /\ Len(objects) >= 3 /\ Predefined \subseteq DOMAIN registered
        /\ registered["Any"] = 1 /\ registered["Integer"] = 2 /\ registered["Real"] = 3
    BY <1>1 DEF NamesInv
  <2>2. Len(objects) <= Len(objects') /\ Len(objects) \in Nat /\ Len(objects') \in Nat
    BY <1>1, ObjectsTree DEF DefineOf, Links
  <2>3. \A x \in DOMAIN registered : x \in DOMAIN registered' /\ registered'[x] = registered[x]
    BY DEF DefineOf, Links
  <2>4. QED
    BY <2>1, <2>2, <2>3 DEF Predefined
<1>9. QED
  BY <1>6, <1>7, <1>8 DEF NamesInv

LEMMA DefineLinked ==
  ASSUME HierarchyInv, NEW n, NEW q, NEW t, DefineOf(n, q, t)
  PROVE  LinksInv'
<1>0. None \notin AllNames /\ Names \cap Predefined = {} /\ n \in Names
  BY RegisterAssumption DEF AllNames, DefineOf
<1>1. LinksInv /\ NamesInv /\ RegisterTypes
  BY DEF HierarchyInv
<1>2. \A x \in DOMAIN registered : x \in DOMAIN registered' /\ registered'[x] = registered[x]
  BY DEF DefineOf, Links
<1>3. /\ DOMAIN declared' = DOMAIN declared \cup {n} /\ declared'[n] = q
      /\ \A x \in DOMAIN declared : declared'[x] = declared[x]
  BY DEF DefineOf, Put
<1>4. ASSUME NEW x \in DOMAIN registered, x # n
      PROVE  objects'[registered'[x]] = objects[registered[x]]
  <2>1. registered[x] \in DOMAIN objects /\ objects[registered[x]].name = x
    BY <1>1 DEF RegisterTypes, NamesInv
  <2>2. registered[x] # t
    <3>1. t \in DOMAIN objects => objects[t].name = n
      BY <1>1 DEF DefineOf, Links, NamesInv
    <3>2. QED
      BY <1>4, <2>1, <3>1
  <2>3. QED
    BY <1>2, <2>1, <2>2 DEF DefineOf, Links
<1>5. objects'[1].parent = 0 /\ objects'[2].parent = 1 /\ objects'[3].parent = 1
  <2>1. "Any" \in DOMAIN registered /\ "Integer" \in DOMAIN registered /\ "Real" \in DOMAIN registered
    BY <1>1 DEF NamesInv, Predefined
  <2>2. "Any" # n /\ "Integer" # n /\ "Real" # n
    BY <1>0 DEF Predefined
  <2>3. objects'[1] = objects[1] /\ objects'[2] = objects[2] /\ objects'[3] = objects[3]
    BY <1>1, <1>2, <1>4, <2>1, <2>2 DEF NamesInv
  <2>4. QED
    BY <1>1, <2>3 DEF LinksInv
<1>6. DOMAIN declared' \subseteq DOMAIN registered'
  <2>1. n \in DOMAIN registered'
    BY DEF DefineOf, Links
  <2>2. QED
    BY <1>1, <1>2, <1>3, <2>1 DEF LinksInv
<1>7. ASSUME NEW x \in DOMAIN declared' PROVE Linked(x)'
  <2>1. CASE x = n
    <3>1. registered'[n] = t /\ replaced' = replaced
      BY DEF DefineOf, Links
    <3>2. CASE q = None
      <4>1. objects'[t] = Type(n, 0, FALSE)
        BY <3>2 DEF DefineOf, Links
      <4>2. QED
        BY <1>3, <2>1, <3>1, <3>2, <4>1 DEF Linked, Type
    <3>3. CASE q # None
      <4>1. objects'[t] = Type(n, registered'[q], FALSE)
        BY <3>3 DEF DefineOf, Links
      <4>2. q \in DOMAIN registered'
        BY <3>3 DEF DefineOf, Links
      <4>3. QED
        BY <1>3, <2>1, <3>1, <3>3, <4>1, <4>2 DEF Linked, Type
    <3>4. QED
      BY <3>2, <3>3
  <2>2. CASE x \in DOMAIN declared
    <3>1. x # n /\ x \in DOMAIN registered /\ Linked(x) /\ declared'[x] = declared[x]
      BY <1>1, <1>3, <2>2 DEF LinksInv, DefineOf
    <3>2. objects'[registered'[x]] = objects[registered[x]]
      BY <1>4, <3>1
    <3>3. replaced' = replaced
      BY DEF DefineOf
    <3>4. declared[x] # None => declared[x] \in DOMAIN registered
      BY <3>1 DEF Linked
    <3>5. QED
      BY <1>2, <3>1, <3>2, <3>3, <3>4 DEF Linked
  <2>3. QED
    BY <1>3, <2>1, <2>2
<1>8. ASSUME NEW x \in (DOMAIN registered' \cap Names) \ DOMAIN declared'
      PROVE  objects'[registered'[x]].placeholder /\ objects'[registered'[x]].parent = 0
  <2>1. x \in Names /\ x \notin DOMAIN declared /\ x # n
    BY <1>3
  <2>2. CASE x \in DOMAIN registered
    <3>1. objects[registered[x]].placeholder /\ objects[registered[x]].parent = 0
      BY <1>1, <2>1, <2>2 DEF LinksInv
    <3>2. QED
      BY <1>4, <2>1, <2>2, <3>1
  <2>3. CASE x \notin DOMAIN registered
    <3>1. x = q /\ q # None
      BY <2>1, <2>3 DEF DefineOf, Links
    <3>2. objects'[registered'[q]] = Type(q, 0, TRUE)
      BY <2>3, <3>1 DEF DefineOf, Links
    <3>3. QED
      BY <3>1, <3>2 DEF Type
  <2>4. QED
    BY <2>2, <2>3
<1>9. QED
  BY <1>5, <1>6, <1>7, <1>8 DEF LinksInv

LEMMA DefineParents ==
  ASSUME HierarchyInv, NEW n, NEW q, NEW t, DefineOf(n, q, t)
  PROVE  ParentsInv'
<1>0. None \notin AllNames /\ Names \cap Predefined = {} /\ n \in Names /\ q \in Parents[n]
  BY RegisterAssumption DEF AllNames, DefineOf
<1>1. ParentsInv /\ NamesInv /\ RegisterTypes
  BY DEF HierarchyInv
<1>2. NamesInv'
  BY DefineNames
<1>3. objects'[t].name = n /\ (t \in DOMAIN objects => objects[t].name = n)
  BY <1>1 DEF DefineOf, Links, NamesInv, Type
<1>4. \A u \in DOMAIN objects : u \in DOMAIN objects' /\ objects'[u].name = objects[u].name
  BY <1>3 DEF DefineOf, Links
<1>5. ASSUME NEW u \in DOMAIN objects'
      PROVE  /\ objects'[u].name \in Names /\ objects'[u].parent # 0
                  => objects'[objects'[u].parent].name \in Parents[objects'[u].name]
             /\ objects'[u].name \in Predefined => u \in 1 .. 3
  <2>1. CASE u = t
    <3>1. CASE q = None
      <4>1. objects'[u].parent = 0
        BY <2>1, <3>1 DEF DefineOf, Links, Type
      <4>2. QED
        BY <1>0, <1>3, <2>1, <4>1
    <3>2. CASE q # None
      <4>1. objects'[u].parent = registered'[q] /\ q \in DOMAIN registered'
        BY <2>1, <3>2 DEF DefineOf, Links, Type
      <4>2. objects'[registered'[q]].name = q
        BY <1>2, <4>1 DEF NamesInv
      <4>3. QED
        BY <1>0, <1>3, <2>1, <4>1, <4>2
    <3>3. QED
      BY <3>1, <3>2
  <2>2. CASE u # t /\ u \in DOMAIN objects
    <3>1. objects'[u] = objects[u]
      BY <2>2 DEF DefineOf, Links
    <3>2. /\ objects[u].name \in Names /\ objects[u].parent # 0
               => objects[objects[u].parent].name \in Parents[objects[u].name]
          /\ objects[u].name \in Predefined => u \in 1 .. 3
      BY <1>1, <2>2 DEF ParentsInv
    <3>3. objects[u].parent # 0 => objects[u].parent \in DOMAIN objects
      BY <1>1, <2>2, ObjectsTree DEF RegisterTypes
    <3>4. QED
      BY <1>4, <3>1, <3>2, <3>3
  <2>3. CASE u # t /\ u \notin DOMAIN objects
    <3>1. objects'[u] = Type(q, 0, TRUE) /\ q \notin DOMAIN registered /\ q # None
      BY <2>3 DEF DefineOf, Links
    <3>2. q \notin Predefined
      BY <1>1, <3>1 DEF NamesInv
    <3>3. QED
      BY <3>1, <3>2 DEF Type
  <2>4. QED
    BY <2>1, <2>2, <2>3
<1>6. QED
  BY <1>5 DEF ParentsInv

LEMMA DefineKeeps ==
  ASSUME HierarchyInv, Define
  PROVE  HierarchyInv' /\ \E n, q, t : DefineOf(n, q, t)
<1>1. PICK n, q, t : DefineOf(n, q, t)
  BY DefineLinks DEF DefineOf
<1>2. RegisterTypes'
  BY <1>1, DefineTypes
<1>3. NamesInv' /\ LinksInv' /\ ParentsInv'
  BY <1>1, DefineNames, DefineLinked, DefineParents
<1>4. QED
  BY <1>1, <1>2, <1>3 DEF HierarchyInv

\* A new type u of the name n, a placeholder or one with the parent q.
AddOf(n, u) ==
  /\ n \in Names
  /\ objects' \in Seq(ObjectType) /\ Len(objects) <= Len(objects')
  /\ u \notin DOMAIN objects /\ u \in DOMAIN objects'
  /\ \A v \in DOMAIN objects : v \in DOMAIN objects' /\ objects'[v] = objects[v]
  /\ \A v \in DOMAIN objects' : v \in DOMAIN objects \/ v = u
  /\ \A x : x \in DOMAIN registered' <=> x \in DOMAIN registered \/ x = n
  /\ registered'[n] = u
  /\ \A x \in DOMAIN registered : x # n => registered'[x] = registered[x]
  /\ registered' \in [DOMAIN registered' -> DOMAIN objects']
  /\ UNCHANGED <<loading, items, early, component>>

CreateOf(n, u) ==
  /\ AddOf(n, u) /\ n \notin DOMAIN registered
  /\ objects'[u] = Type(n, 0, TRUE) /\ declared' = declared /\ replaced' = replaced

AddTypeOf(n, q, u) ==
  /\ AddOf(n, u) /\ q \in Parents[n] /\ q \in DOMAIN registered
  /\ objects'[u] = Type(n, registered[q], FALSE) /\ declared' = Put(declared, n, q)
  /\ \A x : x \in replaced' <=> x \in replaced \/ (x = n /\ n \in DOMAIN registered)

LEMMA AddGives ==
  ASSUME HierarchyInv, NEW n \in Names, NEW e \in ObjectType, IsAdded(objects', objects, e),
         IsPut(registered', registered, n, Len(objects) + 1), UNCHANGED <<loading, items, early, component>>
  PROVE  AddOf(n, Len(objects')) /\ objects'[Len(objects')] = e
<1>1. objects \in Seq(ObjectType)
  BY DEF HierarchyInv, RegisterTypes, ObjectType
<1>2. /\ objects' \in Seq(ObjectType) /\ Len(objects') = Len(objects) + 1
      /\ objects'[Len(objects')] = e /\ Len(objects') \notin DOMAIN objects
      /\ \A u : u \in DOMAIN objects' <=> u \in DOMAIN objects \/ u = Len(objects')
      /\ \A u \in DOMAIN objects : objects'[u] = objects[u]
      /\ Len(objects) \in Nat /\ Len(objects') \in Nat
  BY <1>1, AddAt
<1>3. PICK u : u = Len(objects')
  OBVIOUS
<1>4. IsPut(registered', registered, n, u)
  BY <1>2, <1>3
<1>5. /\ \A x : x \in DOMAIN registered' <=> x \in DOMAIN registered \/ x = n
      /\ registered'[n] = u
      /\ \A x \in DOMAIN registered : x # n => registered'[x] = registered[x]
      /\ registered' = [x \in DOMAIN registered' |-> registered'[x]]
  BY <1>4 DEF IsPut, Put
<1>6. \A x \in DOMAIN registered : registered[x] \in DOMAIN objects
  BY DEF HierarchyInv, RegisterTypes
<1>7. \A x \in DOMAIN registered' : registered'[x] \in DOMAIN objects'
  BY <1>2, <1>3, <1>5, <1>6
<1>8. registered' \in [DOMAIN registered' -> DOMAIN objects']
  BY <1>5, <1>7
<1>9. Len(objects) <= Len(objects')
  BY <1>2
<1>10. AddOf(n, u)
  BY <1>2, <1>3, <1>5, <1>8, <1>9 DEF AddOf
<1>11. QED
  BY <1>2, <1>3, <1>10

LEMMA CreateGives ==
  ASSUME HierarchyInv, NEW n \in Names, Create(n)
  PROVE  \E u : CreateOf(n, u)
<1>1. PICK e \in ObjectType : e = Type(n, 0, TRUE)
  BY DEF ObjectType, Type, AllNames
<1>2. IsAdded(objects', objects, e) /\ IsPut(registered', registered, n, Len(objects) + 1)
  BY <1>1 DEF Create, IsAdded, IsPut
<1>3. UNCHANGED <<loading, declared, replaced, items, early, component>> /\ n \notin DOMAIN registered
  BY DEF Create, Known
<1>4. AddOf(n, Len(objects')) /\ objects'[Len(objects')] = e
  BY <1>2, <1>3, AddGives
<1>5. QED
  BY <1>1, <1>3, <1>4 DEF CreateOf

LEMMA AddTypeGives ==
  ASSUME HierarchyInv, NEW n \in Names, NEW q \in Parents[n] \cap DOMAIN registered, AddType(n, q)
  PROVE  \E u : AddTypeOf(n, q, u)
<1>1. registered[q] \in Nat
  BY ObjectsTree DEF HierarchyInv, RegisterTypes
<1>2. PICK e \in ObjectType : e = Type(n, registered[q], FALSE)
  BY <1>1 DEF ObjectType, Type, AllNames
<1>3. IsAdded(objects', objects, e) /\ IsPut(registered', registered, n, Len(objects) + 1)
  BY <1>2 DEF AddType, IsAdded, IsPut
<1>4. UNCHANGED <<loading, items, early, component>> /\ declared' = Put(declared, n, q)
      /\ \A x : x \in replaced' <=> x \in replaced \/ (x = n /\ n \in DOMAIN registered)
  BY DEF AddType, Known
<1>5. AddOf(n, Len(objects')) /\ objects'[Len(objects')] = e
  BY <1>3, <1>4, AddGives
<1>6. QED
  BY <1>2, <1>4, <1>5 DEF AddTypeOf

\* What both have in common.
LEMMA AddTypes ==
  ASSUME HierarchyInv, NEW n, NEW u, NEW q,
         \/ CreateOf(n, u)
         \/ AddTypeOf(n, q, u)
  PROVE  RegisterTypes' /\ NamesInv' /\ AddOf(n, u)
<1>1. AddOf(n, u) /\ NamesInv /\ RegisterTypes
  BY DEF CreateOf, AddTypeOf, HierarchyInv
<1>2. objects' \in Seq(ObjectType) /\ Len(objects) <= Len(objects') /\ Len(objects) \in Nat
      /\ DOMAIN objects' = 1 .. Len(objects') /\ Len(objects') \in Nat
  BY <1>1, ObjectsTree DEF AddOf
<1>3. objects'[u].name = n /\ objects'[u].parent \in 0 .. Len(objects')
  <2>1. CASE CreateOf(n, u)
    BY <1>2, <2>1 DEF CreateOf, Type
  <2>2. CASE AddTypeOf(n, q, u)
    <3>1. registered[q] \in 0 .. Len(objects)
      BY <1>1, <2>2, ObjectsTree DEF AddTypeOf, RegisterTypes
    <3>2. QED
      BY <1>2, <2>2, <3>1 DEF AddTypeOf, Type
  <2>3. QED
    BY <2>1, <2>2
<1>4. \A v \in DOMAIN objects' : objects'[v].parent \in 0 .. Len(objects')
  <2>1. \A v \in DOMAIN objects : objects[v].parent \in 0 .. Len(objects')
    BY <1>1, <1>2 DEF RegisterTypes
  <2>2. QED
    BY <1>1, <1>3, <2>1 DEF AddOf
<1>5. DOMAIN registered' \subseteq AllNames /\ registered' \in [DOMAIN registered' -> DOMAIN objects']
  BY <1>1 DEF RegisterTypes, AddOf, AllNames
<1>6. declared' \in [DOMAIN declared' -> AllNames \cup {None}]
      /\ \A x \in DOMAIN declared' : x \in Names /\ declared'[x] \in Parents[x]
  <2>1. declared \in [DOMAIN declared -> AllNames \cup {None}]
        /\ \A x \in DOMAIN declared : x \in Names /\ declared[x] \in Parents[x]
    BY <1>1 DEF RegisterTypes
  <2>2. CASE declared' = declared
    BY <2>1, <2>2
  <2>3. CASE AddTypeOf(n, q, u)
    <3>1. n \in Names /\ q \in Parents[n] /\ q \in AllNames \cup {None} /\ declared' = Put(declared, n, q)
      BY <1>1, <2>3 DEF AddTypeOf, AddOf, RegisterTypes
    <3>2. QED
      BY <2>1, <3>1 DEF Put
  <2>4. QED
    BY <2>2, <2>3 DEF CreateOf
<1>7. loading' \in Seq(Definitions) /\ \A i \in DOMAIN loading' : loading'[i].parent \in Parents[loading'[i].name]
  BY <1>1 DEF AddOf, RegisterTypes
<1>8. items' \in Seq(DOMAIN objects') /\ early' \in BOOLEAN /\ component' \in 0 .. Len(objects')
  BY <1>1, <1>2, ArrayTypes DEF AddOf
<1>9. replaced' \subseteq Names /\ (\A x : x \in replaced => x \in replaced')
      /\ (n \in DOMAIN registered => n \in replaced')
  <2>1. replaced \subseteq Names /\ n \in Names
    BY <1>1 DEF RegisterTypes, AddOf
  <2>2. QED
    BY <2>1 DEF CreateOf, AddTypeOf
<1>10. RegisterTypes'
  BY <1>2, <1>4, <1>5, <1>6, <1>7, <1>8, <1>9 DEF RegisterTypes, ObjectType
<1>11. ASSUME NEW x \in DOMAIN registered' PROVE objects'[registered'[x]].name = x
  <2>1. CASE x = n
    BY <1>1, <1>3, <2>1 DEF AddOf
  <2>2. CASE x \in DOMAIN registered /\ x # n
    <3>1. registered'[x] = registered[x] /\ registered[x] \in DOMAIN objects /\ objects[registered[x]].name = x
      BY <1>1, <2>2 DEF AddOf, RegisterTypes, NamesInv
    <3>2. QED
      BY <1>1, <3>1 DEF AddOf
  <2>3. QED
    BY <1>1, <2>1, <2>2 DEF AddOf
<1>12. ASSUME NEW v \in DOMAIN objects'
       PROVE  /\ objects'[v].name \in DOMAIN registered'
              /\ objects'[v].name \notin replaced' => registered'[objects'[v].name] = v
  <2>1. CASE v = u
    BY <1>1, <1>3, <2>1 DEF AddOf
  <2>2. CASE v \in DOMAIN objects
    <3>1. objects[v].name \in DOMAIN registered /\ (objects[v].name \notin replaced => registered[objects[v].name] = v)
          /\ objects'[v] = objects[v]
      BY <1>1, <2>2 DEF NamesInv, AddOf
    <3>2. CASE objects[v].name = n
      BY <1>1, <1>9, <3>1, <3>2 DEF AddOf
    <3>3. CASE objects[v].name # n
      BY <1>1, <1>9, <3>1, <3>3 DEF AddOf
    <3>4. QED
      BY <3>2, <3>3
  <2>3. QED
    BY <1>1, <2>1, <2>2 DEF AddOf
<1>13. /\ Len(objects') >= 3 /\ Predefined \subseteq DOMAIN registered'
       /\ registered'["Any"] = 1 /\ registered'["Integer"] = 2 /\ registered'["Real"] = 3
  <2>1. /\ Len(objects) >= 3 /\ Predefined \subseteq DOMAIN registered
        /\ registered["Any"] = 1 /\ registered["Integer"] = 2 /\ registered["Real"] = 3
    BY <1>1 DEF NamesInv
  <2>2. n \notin Predefined
    BY <1>1, RegisterAssumption DEF AddOf
  <2>3. QED
    BY <1>1, <1>2, <2>1, <2>2 DEF AddOf, Predefined
<1>14. QED
  BY <1>1, <1>10, <1>11, <1>12, <1>13 DEF NamesInv

LEMMA AddKeeps ==
  ASSUME HierarchyInv, NEW n, NEW u, NEW q,
         \/ CreateOf(n, u)
         \/ AddTypeOf(n, q, u)
  PROVE  HierarchyInv'
<1>0. None \notin AllNames /\ Names \cap Predefined = {}
  BY RegisterAssumption DEF AllNames
<1>1. AddOf(n, u) /\ NamesInv /\ RegisterTypes /\ LinksInv /\ ParentsInv /\ RegisterTypes' /\ NamesInv'
  BY AddTypes DEF HierarchyInv
<1>2. n \in Names /\ u \notin DOMAIN objects /\ registered'[n] = u
  BY <1>1 DEF AddOf
<1>3. ASSUME NEW x \in DOMAIN registered, x # n
      PROVE  /\ registered'[x] = registered[x] /\ x \in DOMAIN registered'
             /\ objects'[registered'[x]] = objects[registered[x]]
  BY <1>1, <1>3 DEF AddOf, RegisterTypes
<1>4. objects'[1].parent = 0 /\ objects'[2].parent = 1 /\ objects'[3].parent = 1
  <2>1. "Any" \in DOMAIN registered /\ "Integer" \in DOMAIN registered /\ "Real" \in DOMAIN registered
    BY <1>1 DEF NamesInv, Predefined
  <2>2. "Any" # n /\ "Integer" # n /\ "Real" # n
    BY <1>0, <1>2 DEF Predefined
  <2>3. objects'[1] = objects[1] /\ objects'[2] = objects[2] /\ objects'[3] = objects[3]
    BY <1>1, <1>3, <2>1, <2>2 DEF NamesInv
  <2>4. QED
    BY <1>1, <2>3 DEF LinksInv
<1>5. \A x \in DOMAIN declared' : x = n \/ (x \in DOMAIN declared /\ declared'[x] = declared[x])
  <2>1. CASE CreateOf(n, u)
    BY <2>1 DEF CreateOf
  <2>2. CASE AddTypeOf(n, q, u)
    <3>1. declared' = Put(declared, n, q)
      BY <2>2 DEF AddTypeOf
    <3>2. QED
      BY <3>1 DEF Put
  <2>3. QED
    BY <2>1, <2>2
<1>6. DOMAIN declared' \subseteq DOMAIN registered'
  BY <1>1, <1>5 DEF AddOf, LinksInv
<1>7. \A x : x \in replaced => x \in replaced'
  BY DEF CreateOf, AddTypeOf
\* A definition with the parent n: it is replaced.
<1>8. n \in DOMAIN registered => n \in replaced'
  BY DEF CreateOf, AddTypeOf
<1>9. ASSUME NEW x \in DOMAIN declared' PROVE Linked(x)'
  <2>1. CASE x = n /\ AddTypeOf(n, q, u)
    <3>1. /\ declared'[n] = q /\ objects'[u] = Type(n, registered[q], FALSE) /\ q \in DOMAIN registered
      BY <2>1 DEF AddTypeOf, Put
    <3>2. q # n
      BY <1>2, <2>1, NotOwnParent DEF AddTypeOf
    <3>3. q # None
      BY <1>0, <1>1, <3>1 DEF RegisterTypes
    <3>4. QED
      BY <1>2, <1>3, <2>1, <3>1, <3>2, <3>3 DEF Linked, Type
  <2>2. CASE x # n \/ CreateOf(n, u)
    <3>1. x # n /\ x \in DOMAIN declared /\ declared'[x] = declared[x]
      <4>1. CASE CreateOf(n, u)
        BY <1>1, <4>1 DEF CreateOf, LinksInv
      <4>2. CASE x # n
        BY <1>5, <4>2
      <4>3. QED
        BY <2>2, <4>1, <4>2
    <3>2. Linked(x) /\ x \in DOMAIN registered
      BY <1>1, <3>1 DEF LinksInv
    <3>3. objects'[registered'[x]] = objects[registered[x]]
      BY <1>3, <3>1, <3>2
    <3>4. ASSUME declared[x] # None
          PROVE  /\ declared[x] \in DOMAIN registered'
                 /\ declared[x] \notin replaced' => objects[registered[x]].parent = registered'[declared[x]]
      <4>1. declared[x] \in DOMAIN registered
            /\ (declared[x] \notin replaced => objects[registered[x]].parent = registered[declared[x]])
        BY <3>2, <3>4 DEF Linked
      <4>2. CASE declared[x] = n
        BY <1>1, <1>8, <4>1, <4>2 DEF AddOf
      <4>3. CASE declared[x] # n
        BY <1>3, <1>7, <4>1, <4>3
      <4>4. QED
        BY <4>2, <4>3
    <3>5. QED
      BY <3>1, <3>2, <3>3, <3>4 DEF Linked
  <2>3. QED
    BY <2>1, <2>2
<1>10. ASSUME NEW x \in (DOMAIN registered' \cap Names) \ DOMAIN declared'
      PROVE  objects'[registered'[x]].placeholder /\ objects'[registered'[x]].parent = 0
  <2>1. CASE x = n
    <3>1. CreateOf(n, u)
      BY <2>1 DEF AddTypeOf, Put
    <3>2. QED
      BY <1>2, <2>1, <3>1 DEF CreateOf, Type
  <2>2. CASE x # n
    <3>1. x \in DOMAIN registered /\ x \notin DOMAIN declared
      BY <1>1, <2>2 DEF AddOf, CreateOf, AddTypeOf, Put
    <3>2. QED
      BY <1>1, <1>3, <2>2, <3>1 DEF LinksInv
  <2>3. QED
    BY <2>1, <2>2
<1>11. LinksInv'
  BY <1>4, <1>6, <1>9, <1>10 DEF LinksInv
<1>12. ASSUME NEW v \in DOMAIN objects'
       PROVE  /\ objects'[v].name \in Names /\ objects'[v].parent # 0
                   => objects'[objects'[v].parent].name \in Parents[objects'[v].name]
              /\ objects'[v].name \in Predefined => v \in 1 .. 3
  <2>1. CASE v = u
    <3>1. objects'[v].name = n /\ n \notin Predefined
      BY <1>0, <1>2, <2>1 DEF CreateOf, AddTypeOf, Type
    <3>2. CASE CreateOf(n, u)
      BY <2>1, <3>1, <3>2 DEF CreateOf, Type
    <3>3. CASE AddTypeOf(n, q, u)
      <4>1. objects'[v].parent = registered[q] /\ q \in Parents[n] /\ q \in DOMAIN registered
        BY <2>1, <3>3 DEF AddTypeOf, Type
      <4>2. registered[q] \in DOMAIN objects /\ objects[registered[q]].name = q
        BY <1>1, <4>1 DEF RegisterTypes, NamesInv
      <4>3. objects'[registered[q]] = objects[registered[q]]
        BY <1>1, <4>2 DEF AddOf
      <4>4. QED
        BY <3>1, <4>1, <4>2, <4>3
    <3>4. QED
      BY <3>2, <3>3
  <2>2. CASE v \in DOMAIN objects
    <3>1. objects'[v] = objects[v]
      BY <1>1, <2>2 DEF AddOf
    <3>2. objects[v].parent # 0 => objects[v].parent \in DOMAIN objects
      BY <1>1, <2>2, ObjectsTree DEF RegisterTypes
    <3>3. objects[v].parent # 0 => objects'[objects[v].parent] = objects[objects[v].parent]
      BY <1>1, <3>2 DEF AddOf
    <3>4. /\ objects[v].name \in Names /\ objects[v].parent # 0
               => objects[objects[v].parent].name \in Parents[objects[v].name]
          /\ objects[v].name \in Predefined => v \in 1 .. 3
      BY <1>1, <2>2 DEF ParentsInv
    <3>5. QED
      BY <3>1, <3>3, <3>4
  <2>3. QED
    BY <1>1, <2>1, <2>2 DEF AddOf
<1>13. QED
  BY <1>1, <1>11, <1>12 DEF HierarchyInv, ParentsInv

-----------------------------------------------------------------------------
(* ArraysFit: Type::lca gives a type with the ancestors that both have.    *)

LEMMA LeastOf ==
  ASSUME NEW S \in SUBSET Nat, S # {}
  PROVE  Min(S) \in S /\ \A y \in S : Min(S) <= y
<1>1. IsWellFoundedOn(OpToRel(<, Nat), Nat)
  BY NatLessThanWellFounded
<1>2. PICK x \in S : \A y \in S : ~ (<<y, x>> \in OpToRel(<, Nat))
  BY <1>1, WFMin
<1>3. \A y \in S : y \in Nat /\ x \in Nat /\ ~(y < x)
  <2>1. \A y \in S : y \in Nat /\ x \in Nat
    OBVIOUS
  <2>2. QED
    BY <1>2, <2>1 DEF OpToRel
<1>4. \A y \in S : x <= y
  BY <1>3
<1>5. QED
  BY <1>4 DEF Min

\* The names that AcceptsArray is about.
Declarable == Names \cup {"Integer"}

LEMMA AnyTop == HierarchyInv => 1 \in DOMAIN objects /\ Lineage(1) = {1} /\ Ancestors(1) = {"Any"}
<1> SUFFICES ASSUME HierarchyInv PROVE 1 \in DOMAIN objects /\ Lineage(1) = {1} /\ Ancestors(1) = {"Any"}
  OBVIOUS
<1>0. Cardinality(Names) \in Nat
  BY RegisterAssumption, FS_CardinalityType
<1>1. 1 \in DOMAIN objects /\ objects[1].parent = 0 /\ objects[1].name = "Any"
  BY ObjectsTree DEF HierarchyInv, NamesInv, LinksInv, Predefined
<1>2. Climb(1)[0] = 1 /\ \A i \in Nat : Climb(1)[i + 1] = ParentOf(Climb(1)[i])
  BY <1>1, ClimbFacts DEF HierarchyInv
<1> DEFINE T == {i \in Nat : Climb(1)[i + 1] = 0}
<1>3. 0 \in T
  <2>1. Climb(1)[0 + 1] = ParentOf(Climb(1)[0])
    BY <1>2
  <2>2. ParentOf(1) = 0
    BY <1>1 DEF ParentOf
  <2>3. QED
    BY <1>2, <2>1, <2>2
<1>4. ASSUME NEW i \in T PROVE i + 1 \in T
  <2>1. Climb(1)[i + 1] = 0 /\ i + 1 \in Nat
    OBVIOUS
  <2>2. Climb(1)[(i + 1) + 1] = ParentOf(Climb(1)[i + 1])
    BY <1>2, <2>1
  <2>3. QED
    BY <2>1, <2>2 DEF ParentOf
<1>5. T = Nat
  BY <1>3, <1>4, NatSet
<1> HIDE DEF T
<1>6. \A i \in Nat : Climb(1)[i + 1] = 0
  BY <1>5 DEF T
<1>7. \A i \in Heights : Climb(1)[i] \in {0, 1}
  <2>1. SUFFICES ASSUME NEW i \in Heights, i # 0 PROVE Climb(1)[i] = 0
    BY <1>2
  <2>2. i - 1 \in Nat /\ (i - 1) + 1 = i
    BY <1>0, <2>1 DEF Heights
  <2>3. QED
    BY <1>6, <2>2
<1>8. 0 \in Heights
  BY <1>0 DEF Heights
<1>9. Lineage(1) = {1}
  BY <1>2, <1>7, <1>8 DEF Lineage
<1>10. Ancestors(1) = {"Any"}
  BY <1>1, <1>9 DEF Ancestors
<1>11. QED
  BY <1>1, <1>9, <1>10

LEMMA AncestorsGrow ==
  ASSUME HierarchyInv, NEW t \in DOMAIN objects, NEW u \in Lineage(t)
  PROVE  u \in DOMAIN objects /\ Lineage(u) \subseteq Lineage(t) /\ Ancestors(u) \subseteq Ancestors(t)
<1>1. u \in DOMAIN objects /\ Lineage(u) \subseteq Lineage(t)
  BY LineageFacts
<1>2. QED
  BY <1>1 DEF Ancestors

\* Names that were not replaced stand for one type.
LEMMA OneType ==
  ASSUME HierarchyInv, NEW u \in DOMAIN objects, NEW v \in DOMAIN objects,
         objects[u].name = objects[v].name, objects[u].name \notin replaced
  PROVE  u = v
  BY DEF HierarchyInv, NamesInv

LEMMA LcaMeets ==
  ASSUME HierarchyInv, NEW a \in DOMAIN objects, NEW t \in DOMAIN objects, Ancestors(t) \cap replaced = {},
         objects[t].name \in Ancestors(a) => \A n \in Declarable : n \in Ancestors(a) => n \in Ancestors(t)
  PROVE  /\ Lca(a, t) \in Lineage(a) \cup {1}
         /\ \A n \in Declarable : n \in Ancestors(Lca(a, t)) <=> n \in Ancestors(a) /\ n \in Ancestors(t)
<1> DEFINE name(i) == objects[Climb(t)[i]].name
           common == {i \in Heights : Climb(t)[i] # 0 /\ name(i) \in Ancestors(a)}
<1>0. Cardinality(Names) \in Nat
  BY RegisterAssumption, FS_CardinalityType
<1>1. CASE objects[t].name \in Ancestors(a)
  <2>1. Lca(a, t) = a
    BY <1>1 DEF Lca
  <2>2. a \in Lineage(a)
    BY LineageFacts
  <2>3. QED
    BY <1>1, <2>1, <2>2
<1>2. CASE objects[t].name \notin Ancestors(a) /\ common # {}
  <2>1. common \in SUBSET Nat
    BY <1>0 DEF Heights
  <2>2. Min(common) \in common /\ \A j \in common : Min(common) <= j
    BY <1>2, <2>1, LeastOf
  <2>3. PICK i \in Heights : /\ Climb(t)[i] # 0 /\ objects[Climb(t)[i]].name \in Ancestors(a)
                             /\ \A j \in common : i <= j
                             /\ Lca(a, t) = Climb(t)[i]
    <3>1. Lca(a, t) = Climb(t)[Min(common)]
      BY <1>2 DEF Lca
    <3>2. QED
      BY <2>2, <3>1
  <2>4. PICK u : u = Lca(a, t)
    OBVIOUS
  <2>5. u \in Lineage(t)
    BY <2>3, <2>4 DEF Lineage
  <2>6. u \in DOMAIN objects /\ objects[u].name \in Ancestors(a) /\ objects[u].name \in Ancestors(t)
    BY <2>3, <2>4, <2>5, LineageFacts DEF Ancestors
  <2>7. PICK v \in Lineage(a) : objects[v].name = objects[u].name
    BY <2>6 DEF Ancestors
  <2>8. v \in DOMAIN objects /\ objects[u].name \notin replaced
    BY <2>6, LineageFacts
  <2>9. u = v
    BY <2>6, <2>7, <2>8, OneType
  <2>10. u \in Lineage(a)
    BY <2>9
  <2>11. Ancestors(u) \subseteq Ancestors(a) /\ Ancestors(u) \subseteq Ancestors(t)
    BY <2>5, <2>10, AncestorsGrow
  <2>12. ASSUME NEW n \in Ancestors(a), n \in Ancestors(t) PROVE n \in Ancestors(u)
    <3>1. PICK w \in Lineage(t) : n = objects[w].name
      BY <2>12 DEF Ancestors
    <3>2. PICK j \in Heights : w = Climb(t)[j] /\ w # 0
      BY DEF Lineage
    <3>3. j \in common
      BY <3>1, <3>2
    <3>4. i <= j
      BY <2>3, <3>3
    <3>5. w \in Lineage(u)
      BY <2>3, <2>4, <3>2, <3>4, LineageFacts
    <3>6. QED
      BY <3>1, <3>5 DEF Ancestors
  <2>13. QED
    BY <2>4, <2>10, <2>11, <2>12
<1>3. CASE objects[t].name \notin Ancestors(a) /\ common = {}
  <2>1. Lca(a, t) = 1
    BY <1>3 DEF Lca
  <2>2. ASSUME NEW n \in Ancestors(a), n \in Ancestors(t) PROVE FALSE
    <3>1. PICK w \in Lineage(t) : n = objects[w].name
      BY <2>2 DEF Ancestors
    <3>2. PICK j \in Heights : w = Climb(t)[j] /\ w # 0
      BY DEF Lineage
    <3>3. j \in common
      BY <3>1, <3>2
    <3>4. QED
      BY <1>3, <3>3
  <2>3. "Any" \notin Declarable
    BY RegisterAssumption DEF Declarable, Predefined
  <2>4. QED
    BY <2>1, <2>2, <2>3, AnyTop
<1>4. QED
  BY <1>1, <1>2, <1>3

\* The names of Declarable are accepted where they are inherited from.
LEMMA AcceptsIs == \A n \in Declarable : \A u : Accepts(n, u) <=> n \in Ancestors(u)
<1>1. "Any" \notin Declarable /\ "Real" \notin Declarable
  BY RegisterAssumption DEF Declarable, Predefined
<1>2. SUFFICES ASSUME NEW n \in Declarable, NEW u PROVE Accepts(n, u) <=> n \in Ancestors(u)
  OBVIOUS
<1>3. n # "Any" /\ <<n, objects[u].name>> # <<"Real", "Integer">>
  BY <1>1
<1>4. QED
  BY <1>3 DEF Accepts

Fits == \A n \in Declarable : n \in Ancestors(component) <=> \A i \in DOMAIN items : n \in Ancestors(items[i])
LEMMA FitsIs == ArraysFit <=> (items # <<>> /\ Settled => Fits)
  BY AcceptsIs DEF ArraysFit, Fits, AcceptsArray, Declarable

\* A type whose lineage is complete keeps it.
LEMMA Frozen ==
  ASSUME HierarchyInv, HierarchyInv', NEW t \in DOMAIN objects, t \in DOMAIN objects', Complete(t),
         \A v \in DOMAIN objects : ~objects[v].placeholder => objects'[v] = objects[v]
  PROVE  /\ Lineage(t)' = Lineage(t) /\ Ancestors(t)' = Ancestors(t) /\ Complete(t)'
         /\ objects'[t].name = objects[t].name
<1>0. Cardinality(Names) \in Nat
  BY RegisterAssumption, FS_CardinalityType
<1> DEFINE up(i) == ClimbIn(objects, t)[i]
           next(i) == ClimbIn(objects', t)[i]
           T == {i \in Nat : i \in Heights => next(i) = up(i)}
<1>1. \A i \in Heights : up(i) # 0 => up(i) \in DOMAIN objects /\ ~objects[up(i)].placeholder
  <2>1. SUFFICES ASSUME NEW i \in Heights, up(i) # 0
                 PROVE  up(i) \in DOMAIN objects /\ ~objects[up(i)].placeholder
    OBVIOUS
  <2>2. up(i) \in Lineage(t)
    BY <2>1, ClimbIs DEF Lineage
  <2>3. QED
    BY <2>2, LineageFacts DEF Complete
<1>2. up(0) = t /\ \A i \in Nat : up(i + 1) = ParentIn(objects, up(i))
  <2>1. Tree(objects) /\ t \in Places(objects)
    BY ObjectsTree DEF HierarchyInv, Places
  <2>2. QED
    BY <2>1, ClimbSteps
<1>3. next(0) = t /\ \A i \in Nat : next(i + 1) = ParentIn(objects', next(i))
  <2>1. Tree(objects') /\ t \in Places(objects')
    <3>1. RegisterTypes'
      BY DEF HierarchyInv
    <3>2. DOMAIN objects' = 1 .. Len(objects') /\ Len(objects') \in Nat /\ Tree(objects')
      BY <3>1 DEF RegisterTypes, Tree, Places
    <3>3. QED
      BY <3>2 DEF Places
  <2>2. QED
    BY <2>1, ClimbSteps
<1> HIDE DEF up, next
<1>4. 0 \in T
  BY <1>2, <1>3
<1>5. ASSUME NEW i \in T PROVE i + 1 \in T
  <2>1. i \in Nat /\ i + 1 \in Nat
    OBVIOUS
  <2>2. SUFFICES ASSUME i + 1 \in Heights PROVE next(i + 1) = up(i + 1)
    BY <2>1
  <2>3. i \in Heights
    BY <1>0, <2>1, <2>2 DEF Heights
  <2>4. next(i) = up(i)
    BY <2>3
  <2>5. up(i + 1) = ParentIn(objects, up(i)) /\ next(i + 1) = ParentIn(objects', up(i))
    BY <1>2, <1>3, <2>1, <2>4
  <2>6. up(i) # 0 => objects'[up(i)] = objects[up(i)]
    BY <1>1, <2>3
  <2>7. QED
    BY <2>5, <2>6 DEF ParentIn
<1> HIDE DEF T
<1>6. T = Nat
  BY <1>4, <1>5, NatSet DEF T
<1>7. \A i \in Heights : next(i) = up(i)
  BY <1>0, <1>6 DEF T, Heights
<1>8. Lineage(t) = {up(i) : i \in Heights} \ {0}
  BY ClimbIs DEF Lineage, up
<1>9. Lineage(t)' = {next(i) : i \in Heights} \ {0}
  BY ClimbIsNext DEF Lineage, next, Heights
<1>10. Lineage(t)' = Lineage(t)
  BY <1>7, <1>8, <1>9
<1>11. \A v \in Lineage(t) : ~objects[v].placeholder /\ v \in DOMAIN objects
  BY LineageFacts DEF Complete
<1>12. \A v \in Lineage(t) : objects'[v] = objects[v]
  BY <1>11
<1>13. Ancestors(t)' = Ancestors(t)
  BY <1>10, <1>12 DEF Ancestors
<1>14. Complete(t)'
  BY <1>10, <1>11, <1>12 DEF Complete
<1>15. t \in Lineage(t)
  BY LineageFacts
<1>16. QED
  BY <1>10, <1>12, <1>13, <1>14, <1>15

-----------------------------------------------------------------------------
(* The steps and the array.                                                *)

\* The steps of load and of the program that create or fill types.
Grows ==
  /\ HierarchyInv' /\ Len(objects) <= Len(objects')
  /\ \A v \in DOMAIN objects : ~objects[v].placeholder => objects'[v] = objects[v]
  /\ \A x \in replaced : x \in replaced'
  /\ UNCHANGED <<items, early, component>>

LEMMA GrowsFit ==
  ASSUME HierarchyInv, FitInv, Grows
  PROVE  FitInv'
<1>1. SUFFICES ASSUME items # <<>>, ~early
               PROVE  /\ \A u \in Range(items) : Complete(u)'
                      /\ Settled' => (component \in Lineage(items[1])' \cup {1}) /\ Fits'
  <2>1. items' = items /\ early' = early /\ component' = component
    BY DEF Grows
  <2>2. items # <<>> /\ ~early => /\ \A u \in Range(items) : Complete(u)'
                                  /\ Settled' => (component \in Lineage(items[1])' \cup {1}) /\ Fits'
    BY <1>1
  <2>3. Settled' => ~early
    BY <2>1 DEF Settled
  <2>4. ArrayInv'
    BY <2>1, <2>2, <2>3 DEF ArrayInv
  <2>5. (items # <<>> /\ Settled => Fits)'
    BY <2>1, <2>2, <2>3
  <2>6. ArraysFit'
    BY <2>5, FitsIs, PTL
  <2>7. QED
    BY <2>4, <2>6 DEF FitInv
<1>2. /\ items' = items /\ early' = early /\ component' = component
      /\ HierarchyInv' /\ \A v \in DOMAIN objects : ~objects[v].placeholder => objects'[v] = objects[v]
      /\ \A x \in replaced : x \in replaced'
  BY DEF Grows
<1>3. DOMAIN objects = 1 .. Len(objects) /\ DOMAIN objects' = 1 .. Len(objects')
      /\ Len(objects) \in Nat /\ Len(objects') \in Nat /\ Len(objects) <= Len(objects')
  BY ObjectsTree DEF Grows, HierarchyInv, RegisterTypes
<1>4. \A u \in DOMAIN objects : u \in DOMAIN objects'
  BY <1>3
<1>5. items \in Seq(DOMAIN objects)
  BY DEF HierarchyInv, RegisterTypes
<1>6. \A u \in Range(items) : u \in DOMAIN objects /\ Complete(u)
  BY <1>1, <1>5 DEF FitInv, ArrayInv, Range
<1>7. \A u \in Range(items) : /\ Lineage(u)' = Lineage(u) /\ Ancestors(u)' = Ancestors(u) /\ Complete(u)'
                              /\ objects'[u].name = objects[u].name
  <2> SUFFICES ASSUME NEW u \in Range(items)
               PROVE  /\ Lineage(u)' = Lineage(u) /\ Ancestors(u)' = Ancestors(u) /\ Complete(u)'
                      /\ objects'[u].name = objects[u].name
    OBVIOUS
  <2> QED
    BY <1>2, <1>4, <1>6, Frozen
<1>8. \A i \in DOMAIN items : items[i] \in Range(items)
  BY DEF Range
<1>9. 1 \in DOMAIN items
  BY <1>1, <1>5
<1>10. ASSUME Settled' PROVE (component \in Lineage(items[1])' \cup {1}) /\ Fits'
  <2>1. ~Descending
    <3>1. SUFFICES ASSUME Descending PROVE FALSE
      OBVIOUS
    <3>2. PICK i \in DOMAIN items, j \in DOMAIN items :
            i < j /\ objects[items[j]].name \in Ancestors(items[i]) \ {objects[items[i]].name}
      BY <3>1 DEF Descending
    <3>3. PICK u, v : u = items[i] /\ v = items[j] /\ u \in Range(items) /\ v \in Range(items)
      BY <1>8
    <3>4. Ancestors(u)' = Ancestors(u) /\ objects'[u].name = objects[u].name /\ objects'[v].name = objects[v].name
      BY <1>7, <3>3
    <3>5. objects'[v].name \in Ancestors(u)' \ {objects'[u].name} /\ items'[i] = u /\ items'[j] = v
      BY <1>2, <3>2, <3>3, <3>4
    <3>6. Descending'
      BY <1>2, <3>2, <3>5 DEF Descending
    <3>7. QED
      BY <1>10, <3>6 DEF Settled
  <2>2. \A u \in Range(items) : Ancestors(u) \cap replaced = {}
    <3>1. \A u \in Range(items) : Ancestors(u)' \cap replaced' = {}
      BY <1>2, <1>10 DEF Settled
    <3>2. QED
      BY <1>2, <1>7, <3>1
  <2>3. Settled
    BY <1>1, <2>1, <2>2 DEF Settled
  <2>4. component \in Lineage(items[1]) \cup {1} /\ Fits
    BY <1>1, <2>3, FitsIs DEF FitInv, ArrayInv
  <2>5. component \in Lineage(items[1])' \cup {1}
    <3>1. PICK a : a = items[1] /\ a \in Range(items)
      BY <1>8, <1>9
    <3>2. Lineage(a)' = Lineage(a)
      BY <1>7, <3>1
    <3>3. Lineage(items[1])' = Lineage(a)
      BY <1>2, <3>1, <3>2
    <3>4. QED
      BY <2>4, <3>1, <3>3
  <2>6. PICK c : c = component
    OBVIOUS
  <2>7. Ancestors(c)' = Ancestors(c)
    <3>1. CASE c = 1
      <4>1. Ancestors(1) = {"Any"}
        BY AnyTop
      <4>2. Ancestors(1)' = {"Any"}
        <5>1. HierarchyInv'
          BY <1>2
        <5>2. (HierarchyInv => 1 \in DOMAIN objects /\ Lineage(1) = {1} /\ Ancestors(1) = {"Any"})'
          BY AnyTop, PTL
        <5>3. QED
          BY <5>1, <5>2
      <4>3. QED
        BY <3>1, <4>1, <4>2
    <3>2. CASE c \in Lineage(items[1])
      <4>1. items[1] \in DOMAIN objects /\ Complete(items[1])
        BY <1>6, <1>8, <1>9
      <4>2. c \in DOMAIN objects /\ Lineage(c) \subseteq Lineage(items[1])
        BY <3>2, <4>1, AncestorsGrow
      <4>3. Complete(c)
        BY <4>1, <4>2 DEF Complete
      <4>4. QED
        BY <1>2, <1>4, <4>2, <4>3, Frozen
    <3>3. QED
      BY <2>4, <2>6, <3>1, <3>2
  <2>8. Fits'
    <3>1. \A n \in Declarable : n \in Ancestors(c) <=> \A i \in DOMAIN items : n \in Ancestors(items[i])
      BY <2>4, <2>6 DEF Fits
    <3>2. \A i \in DOMAIN items : Ancestors(items[i])' = Ancestors(items[i])
      BY <1>2, <1>7, <1>8
    <3>3. QED
      BY <1>2, <2>6, <2>7, <3>1, <3>2 DEF Fits
  <2>9. QED
    BY <2>5, <2>8
<1>11. QED
  BY <1>7, <1>10

LEMMA PushBackFits ==
  ASSUME HierarchyInv, FitInv, NEW t \in Range(registered), PushBack(t)
  PROVE  FitInv'
<1>0. t \in DOMAIN objects
  BY DEF HierarchyInv, RegisterTypes, Range
<1>1. UNCHANGED <<objects, registered, replaced>>
      /\ items' = Append(items, t) /\ (early' <=> early \/ ~Complete(t))
      /\ (items = <<>> => component' = t) /\ (items # <<>> => component' = Lca(component, t))
  BY DEF PushBack
<1>2. \A u : Lineage(u)' = Lineage(u) /\ Ancestors(u)' = Ancestors(u) /\ (Complete(u)' <=> Complete(u))
  <2>1. TAKE u
  <2>2. Lineage(u)' = Lineage(u)
    BY <1>1 DEF Lineage, Climb, ParentOf, Heights
  <2>3. QED
    BY <1>1, <2>2 DEF Ancestors, Complete
<1>3. items \in Seq(DOMAIN objects)
  BY DEF HierarchyInv, RegisterTypes
<1>4. PICK n \in Nat : n = Len(items)
  BY <1>3
<1>5. /\ items' # <<>> /\ DOMAIN items = 1 .. n /\ DOMAIN items' = 1 .. n + 1
      /\ items'[n + 1] = t /\ \A i \in 1 .. n : items'[i] = items[i]
      /\ (items = <<>> <=> n = 0)
  <2>1. items' \in Seq(DOMAIN objects) /\ Len(items') = n + 1
    BY <1>0, <1>1, <1>3, <1>4
  <2>2. QED
    BY <1>1, <1>3, <1>4, <2>1
<1>6. \A u \in Range(items') : u = t \/ u \in Range(items)
  BY <1>5 DEF Range
<1>7. \A u \in Range(items) : u \in Range(items')
  BY <1>5 DEF Range
<1>8. t \in Range(items')
  BY <1>5 DEF Range
<1>9. ~early' => \A u \in Range(items') : Complete(u)'
  <2>1. SUFFICES ASSUME ~early', NEW u \in Range(items') PROVE Complete(u)
    BY <1>2
  <2>2. ~early /\ Complete(t)
    BY <1>1, <2>1
  <2>3. CASE u \in Range(items)
    <3>1. items # <<>>
      BY <1>5, <2>3 DEF Range
    <3>2. QED
      BY <2>2, <2>3, <3>1 DEF FitInv, ArrayInv
  <2>4. QED
    BY <1>6, <2>2, <2>3
<1>10. ASSUME Settled'
       PROVE  /\ component' \in Lineage(items'[1]) \cup {1}
              /\ \A m \in Declarable : m \in Ancestors(component') <=> \A i \in 1 .. n + 1 : m \in Ancestors(items'[i])
  <2>1. ~early' /\ ~Descending' /\ \A u \in Range(items') : Ancestors(u) \cap replaced = {}
    BY <1>1, <1>2, <1>10 DEF Settled
  <2>2. Ancestors(t) \cap replaced = {}
    BY <1>8, <2>1
  <2>3. CASE n = 0
    <3>1. component' = t /\ items'[1] = t /\ t \in Lineage(t)
      BY <1>0, <1>1, <1>5, <2>3, LineageFacts
    <3>2. \A i \in 1 .. n + 1 : items'[i] = t
      BY <1>5, <2>3
    <3>3. 1 \in 1 .. n + 1
      BY <2>3
    <3>4. QED
      BY <3>1, <3>2, <3>3
  <2>4. CASE n # 0
    <3>1. items # <<>> /\ 1 \in 1 .. n /\ 1 \in 1 .. n + 1 /\ n + 1 \in 1 .. n + 1 /\ items'[1] = items[1]
      BY <1>4, <1>5, <2>4
    <3>2. \A i, j \in 1 .. n + 1 :
            i < j => objects[items'[j]].name \notin Ancestors(items'[i]) \ {objects[items'[i]].name}
      <4>1. SUFFICES ASSUME NEW i \in 1 .. n + 1, NEW j \in 1 .. n + 1, i < j,
                            objects[items'[j]].name \in Ancestors(items'[i]) \ {objects[items'[i]].name}
                     PROVE  FALSE
        OBVIOUS
      <4>2. PICK u, v : u = items'[i] /\ v = items'[j]
        OBVIOUS
      <4>3. objects'[v].name \in Ancestors(u)' \ {objects'[u].name}
        BY <1>1, <1>2, <4>1, <4>2
      <4>4. Descending'
        BY <1>5, <4>1, <4>2, <4>3 DEF Descending
      <4>5. QED
        BY <2>1, <4>4
    <3>3. Settled
      <4>1. ~early
        BY <1>1, <2>1
      <4>2. ~Descending
        <5>1. SUFFICES ASSUME NEW i \in DOMAIN items, NEW j \in DOMAIN items, i < j
                       PROVE  objects[items[j]].name \notin Ancestors(items[i]) \ {objects[items[i]].name}
          BY DEF Descending
        <5>2. i \in 1 .. n + 1 /\ j \in 1 .. n + 1 /\ items'[i] = items[i] /\ items'[j] = items[j]
          BY <1>4, <1>5
        <5>3. QED
          BY <3>2, <5>1, <5>2
      <4>3. \A u \in Range(items) : Ancestors(u) \cap replaced = {}
        BY <1>7, <2>1
      <4>4. QED
        BY <4>1, <4>2, <4>3 DEF Settled
    <3>4. component \in Lineage(items[1]) \cup {1} /\ Fits
      BY <3>1, <3>3, FitsIs DEF FitInv, ArrayInv
    <3>5. items[1] \in DOMAIN objects /\ Ancestors(items[1]) \cap replaced = {}
      BY <1>3, <1>5, <1>7, <2>1, <3>1 DEF Range
    <3>6. PICK a : a = component
      OBVIOUS
    <3>7. a \in DOMAIN objects
      BY <3>4, <3>5, <3>6, AnyTop, LineageFacts
    <3>8. "Any" \notin Declarable
      BY RegisterAssumption DEF Declarable, Predefined
    <3>9. objects[t].name \in Ancestors(a) => \A m \in Declarable : m \in Ancestors(a) => m \in Ancestors(t)
      <4>1. CASE a = 1
        BY <3>8, <4>1, AnyTop
      <4>2. CASE a \in Lineage(items[1])
        <5>1. Ancestors(a) \subseteq Ancestors(items[1])
          BY <3>5, <4>2, AncestorsGrow
        <5>2. SUFFICES ASSUME objects[t].name \in Ancestors(a) PROVE t = items[1]
          BY <5>1
        <5>3. objects[t].name \in Ancestors(items[1])
          BY <5>1, <5>2
        <5>4. objects[t].name = objects[items[1]].name
          BY <1>4, <1>5, <2>4, <3>1, <3>2, <5>3
        <5>5. objects[t].name \notin replaced
          BY <3>5, <5>3
        <5>6. QED
          BY <1>0, <3>5, <5>4, <5>5, OneType
      <4>3. QED
        BY <3>4, <3>6, <4>1, <4>2
    <3>10. PICK u : u = Lca(a, t)
      OBVIOUS
    <3>11. /\ u \in Lineage(a) \cup {1}
           /\ \A m \in Declarable : m \in Ancestors(u) <=> m \in Ancestors(a) /\ m \in Ancestors(t)
      BY <1>0, <2>2, <3>7, <3>9, <3>10, LcaMeets
    <3>12. component' = u
      BY <1>1, <3>1, <3>6, <3>10
    <3>13. u \in Lineage(items[1]) \cup {1}
      <4>1. CASE a = 1
        BY <3>11, <4>1, AnyTop
      <4>2. CASE a \in Lineage(items[1])
        BY <3>5, <3>11, <4>2, AncestorsGrow
      <4>3. QED
        BY <3>4, <3>6, <4>1, <4>2
    <3>14. ASSUME NEW m \in Declarable
           PROVE  m \in Ancestors(u) <=> \A i \in 1 .. n + 1 : m \in Ancestors(items'[i])
      <4>1. m \in Ancestors(a) <=> \A i \in 1 .. n : m \in Ancestors(items[i])
        BY <1>5, <3>4, <3>6 DEF Fits
      <4>2. \A i \in 1 .. n + 1 : i \in 1 .. n \/ i = n + 1
        BY <1>4
      <4>3. \A i \in 1 .. n : i \in 1 .. n + 1
        BY <1>4
      <4>4. QED
        BY <1>5, <3>1, <3>11, <4>1, <4>2, <4>3
    <3>15. QED
      BY <3>1, <3>12, <3>13, <3>14
  <2>5. QED
    BY <2>3, <2>4
<1>11. Settled' => (component \in Lineage(items[1]) \cup {1})' /\ Fits'
  <2>1. ASSUME Settled' PROVE (component \in Lineage(items[1]) \cup {1})' /\ Fits'
    <3>1. (component \in Lineage(items[1]) \cup {1})'
      BY <1>2, <1>10, <2>1
    <3>2. Fits'
      BY <1>2, <1>5, <1>10, <2>1 DEF Fits
    <3>3. QED
      BY <3>1, <3>2
  <2>2. QED
    BY <2>1
<1>12. ArrayInv'
  BY <1>9, <1>11 DEF ArrayInv
<1>13. (items # <<>> /\ Settled => Fits)'
  BY <1>11
<1>14. ArraysFit'
  BY <1>13, FitsIs, PTL
<1>15. QED
  BY <1>12, <1>14 DEF FitInv

-----------------------------------------------------------------------------
(* The two invariants of RegisterSpec.                                     *)

LEMMA InitHolds == RegisterInit => HierarchyInv /\ FitInv
<1> SUFFICES ASSUME RegisterInit PROVE HierarchyInv /\ FitInv
  OBVIOUS
<1>0. Names \cap Predefined = {} /\ "Any" \in AllNames /\ "Integer" \in AllNames /\ "Real" \in AllNames
  BY RegisterAssumption DEF AllNames, Predefined
<1>1. PICK any, integer, real :
        any = Type("Any", 0, FALSE) /\ integer = Type("Integer", 1, FALSE) /\ real = Type("Real", 1, FALSE)
  OBVIOUS
<1>2. any \in ObjectType /\ integer \in ObjectType /\ real \in ObjectType
  BY <1>0, <1>1 DEF Type, ObjectType
<1>3. /\ any.name = "Any" /\ any.parent = 0
      /\ integer.name = "Integer" /\ integer.parent = 1
      /\ real.name = "Real" /\ real.parent = 1
  BY <1>1 DEF Type
<1>4. objects = <<any, integer, real>>
  BY <1>1 DEF RegisterInit
<1>5. /\ objects \in Seq(ObjectType) /\ Len(objects) = 3
      /\ objects[1] = any /\ objects[2] = integer /\ objects[3] = real
  BY <1>2, <1>4
<1>6. DOMAIN objects = 1 .. 3 /\ 1 .. 3 = {1, 2, 3}
  BY <1>5
<1>7. DOMAIN registered = Predefined /\ registered["Any"] = 1 /\ registered["Integer"] = 2 /\ registered["Real"] = 3
      /\ registered = [x \in DOMAIN registered |-> registered[x]]
  BY DEF RegisterInit, Predefined
<1>8. loading = <<>> /\ DOMAIN declared = {} /\ declared = <<>> /\ replaced = {} /\ items = <<>>
      /\ early = FALSE /\ component = 0
  BY DEF RegisterInit
<1>9. RegisterTypes
  <2>1. \A u \in DOMAIN objects : objects[u].parent \in 0 .. Len(objects)
    BY <1>3, <1>5, <1>6
  <2>2. DOMAIN registered \subseteq AllNames /\ registered \in [DOMAIN registered -> DOMAIN objects]
    <3>1. \A x \in DOMAIN registered : registered[x] \in DOMAIN objects
      BY <1>6, <1>7 DEF Predefined
    <3>2. QED
      BY <1>7, <3>1 DEF AllNames
  <2>3. declared \in [DOMAIN declared -> AllNames \cup {None}]
    BY <1>8
  <2>4. loading \in Seq(Definitions) /\ items \in Seq(DOMAIN objects) /\ DOMAIN loading = {}
    BY <1>8
  <2>5. early \in BOOLEAN
    BY <1>8
  <2>6. component \in 0 .. Len(objects)
    <3>1. component = 0 /\ Len(objects) = 3
      BY <1>5, <1>8
    <3>2. QED
      BY <3>1
  <2>7. QED
    BY <1>5, <1>8, <2>1, <2>2, <2>3, <2>4, <2>5, <2>6 DEF RegisterTypes, ObjectType
<1>10. NamesInv
  BY <1>3, <1>5, <1>6, <1>7 DEF NamesInv, Predefined
<1>11. LinksInv
  BY <1>0, <1>3, <1>5, <1>7, <1>8 DEF LinksInv
<1>12. ParentsInv
  BY <1>0, <1>3, <1>5, <1>6 DEF ParentsInv, Predefined
<1>13. FitInv
  BY <1>8 DEF FitInv, ArrayInv, ArraysFit
<1>14. QED
  BY <1>9, <1>10, <1>11, <1>12, <1>13 DEF HierarchyInv

\* The steps that leave the types and the array alone.
LEMMA IdleKeeps ==
  ASSUME HierarchyInv, FitInv, UNCHANGED <<objects, registered, declared, replaced, items, early, component>>,
         loading' \in Seq(Definitions), \A i \in DOMAIN loading' : loading'[i].parent \in Parents[loading'[i].name]
  PROVE  HierarchyInv' /\ Grows
<1>1. RegisterTypes'
  BY DEF HierarchyInv, RegisterTypes
<1>2. NamesInv' /\ LinksInv' /\ ParentsInv'
  BY DEF HierarchyInv, NamesInv, LinksInv, Linked, ParentsInv
<1>3. Len(objects) <= Len(objects')
  BY ObjectsTree DEF HierarchyInv
<1>4. HierarchyInv'
  BY <1>1, <1>2 DEF HierarchyInv
<1>5. QED
  BY <1>3, <1>4 DEF Grows

\* The steps that create or fill a type.
LEMMA DefineGrows ==
  ASSUME HierarchyInv, Define
  PROVE  HierarchyInv' /\ Grows
<1>1. HierarchyInv'
  BY DefineKeeps
<1>2. PICK n, q, t : DefineOf(n, q, t)
  BY DefineKeeps
<1>3. \A v \in DOMAIN objects : ~objects[v].placeholder => objects'[v] = objects[v]
  BY <1>2 DEF DefineOf, Links
<1>4. Len(objects) <= Len(objects') /\ UNCHANGED <<replaced, items, early, component>>
  BY <1>2 DEF DefineOf, Links
<1>5. QED
  BY <1>1, <1>3, <1>4 DEF Grows

LEMMA AddGrows ==
  ASSUME HierarchyInv, NEW n, NEW u, NEW q,
         \/ CreateOf(n, u)
         \/ AddTypeOf(n, q, u)
  PROVE  HierarchyInv' /\ Grows
<1>1. HierarchyInv'
  BY AddKeeps
<1>2. AddOf(n, u) /\ \A x \in replaced : x \in replaced'
  BY DEF CreateOf, AddTypeOf
<1>3. QED
  BY <1>1, <1>2 DEF AddOf, Grows

LEMMA LcaFound ==
  ASSUME HierarchyInv, NEW a \in 0 .. Len(objects), NEW t \in DOMAIN objects
  PROVE  Lca(a, t) \in 0 .. Len(objects)
<1> DEFINE common == {i \in Heights : Climb(t)[i] # 0 /\ objects[Climb(t)[i]].name \in Ancestors(a)}
<1>0. Cardinality(Names) \in Nat
  BY RegisterAssumption, FS_CardinalityType
<1>1. DOMAIN objects = 1 .. Len(objects) /\ Len(objects) \in Nat /\ 1 \in DOMAIN objects
  BY ObjectsTree, AnyTop DEF HierarchyInv
<1>2. ASSUME common # {} PROVE Climb(t)[Min(common)] \in DOMAIN objects
  <2>1. common \in SUBSET Nat
    BY <1>0 DEF Heights
  <2>2. PICK i \in Heights : i = Min(common) /\ Climb(t)[i] # 0
    BY <1>2, <2>1, LeastOf
  <2>3. Climb(t)[i] \in Lineage(t)
    BY <2>2 DEF Lineage
  <2>4. QED
    BY <2>2, <2>3, LineageFacts
<1>3. Lca(a, t) = a \/ (common # {} /\ Lca(a, t) = Climb(t)[Min(common)]) \/ Lca(a, t) = 1
  BY DEF Lca
<1>4. QED
  BY <1>1, <1>2, <1>3

LEMMA PushBackKeeps ==
  ASSUME HierarchyInv, NEW t \in Range(registered), PushBack(t)
  PROVE  HierarchyInv'
<1>0. t \in DOMAIN objects
  BY DEF HierarchyInv, RegisterTypes, Range
<1>1. UNCHANGED <<objects, registered, loading, declared, replaced>>
  BY DEF PushBack
<1>2. items' \in Seq(DOMAIN objects) /\ early' \in BOOLEAN
  BY <1>0 DEF PushBack, HierarchyInv, RegisterTypes
<1>3. component' \in 0 .. Len(objects)
  <2>1. t \in 0 .. Len(objects) /\ component \in 0 .. Len(objects)
    BY <1>0, ObjectsTree DEF HierarchyInv, RegisterTypes
  <2>2. Lca(component, t) \in 0 .. Len(objects)
    BY <1>0, <2>1, LcaFound
  <2>3. QED
    BY <2>1, <2>2 DEF PushBack
<1>4. RegisterTypes'
  BY <1>1, <1>2, <1>3 DEF HierarchyInv, RegisterTypes
<1>5. NamesInv' /\ LinksInv' /\ ParentsInv'
  BY <1>1 DEF HierarchyInv, NamesInv, LinksInv, Linked, ParentsInv
<1>6. QED
  BY <1>4, <1>5 DEF HierarchyInv

LEMMA RegisterInvariant == RegisterSpec => [](HierarchyInv /\ FitInv)
<1>1. ASSUME HierarchyInv /\ FitInv, [RegisterNext]_registerVars
      PROVE  HierarchyInv' /\ FitInv'
  <2>0. RegisterTypes
    BY <1>1 DEF HierarchyInv
  <2>1. CASE \E file \in Files : Load(file)
    <3>1. PICK file \in Files : Load(file)
      BY <2>1
    <3>2. loading' \in Seq(Definitions) /\ \A i \in DOMAIN loading' : loading'[i].parent \in Parents[loading'[i].name]
      BY <3>1, RegisterAssumption DEF Load
    <3>3. HierarchyInv' /\ Grows
      BY <1>1, <3>1, <3>2, IdleKeeps DEF Load
    <3>4. QED
      BY <1>1, <3>3, GrowsFit
  <2>2. CASE Define
    BY <1>1, <2>2, DefineGrows, GrowsFit
  <2>3. CASE Refuse
    <3>1. loading' \in Seq(Definitions) /\ \A i \in DOMAIN loading' : loading'[i].parent \in Parents[loading'[i].name]
      BY <2>0, <2>3, LoadingTypes DEF Refuse
    <3>2. HierarchyInv' /\ Grows
      BY <1>1, <2>3, <3>1, IdleKeeps DEF Refuse
    <3>3. QED
      BY <1>1, <3>2, GrowsFit
  <2>4. CASE \E name \in Names : Create(name)
    BY <1>1, <2>4, CreateGives, AddGrows, GrowsFit
  <2>5. CASE \E name \in Names : \E parent \in Parents[name] \cap DOMAIN registered : AddType(name, parent)
    <3>1. PICK name \in Names : \E parent \in Parents[name] \cap DOMAIN registered : AddType(name, parent)
      BY <2>5
    <3>2. PICK parent \in Parents[name] \cap DOMAIN registered : AddType(name, parent)
      BY <3>1
    <3>3. PICK u : AddTypeOf(name, parent, u)
      BY <1>1, <3>2, AddTypeGives
    <3>4. HierarchyInv' /\ Grows
      BY <1>1, <3>3, AddGrows
    <3>5. QED
      BY <1>1, <3>4, GrowsFit
  <2>6. CASE \E t \in Range(registered) : PushBack(t)
    BY <1>1, <2>6, PushBackKeeps, PushBackFits
  <2>7. CASE UNCHANGED registerVars
    <3>1. loading' \in Seq(Definitions) /\ \A i \in DOMAIN loading' : loading'[i].parent \in Parents[loading'[i].name]
      BY <2>0, <2>7 DEF RegisterTypes, registerVars
    <3>2. HierarchyInv' /\ Grows
      BY <1>1, <2>7, <3>1, IdleKeeps DEF registerVars
    <3>3. QED
      BY <1>1, <3>2, GrowsFit
  <2>8. QED
    BY <1>1, <2>1, <2>2, <2>3, <2>4, <2>5, <2>6, <2>7 DEF RegisterNext
<1>2. QED
  BY <1>1, InitHolds, PTL DEF RegisterSpec

\* Whatever the files, the order of their definitions and where load stops in
\* them, a type inherits from what its definition and those above it say,
\* unless register_addType replaced one of them.
THEOREM InheritanceKept == RegisterSpec => []InheritanceRead
<1>1. HierarchyInv /\ FitInv => InheritanceRead
  BY InheritanceHolds
<1>2. QED
  BY <1>1, RegisterInvariant, PTL

\* However many elements were pushed back, and whatever was loaded between two of
\* them, an array is accepted where each of its elements is, once settled.
THEOREM ArraysAccepted == RegisterSpec => []ArraysFit
<1>1. HierarchyInv /\ FitInv => ArraysFit
  BY DEF FitInv
<1>2. QED
  BY <1>1, RegisterInvariant, PTL
=============================================================================
