----------------------------- MODULE Variables -----------------------------
(***************************************************************************)
(* The variables of a workspace, found from the innermost namespace out    *)
(* (src/src/workspace.cpp).  A key is the sequence of the parts that its   *)
(* dots separate: "a.b.x" is <<"a", "b", "x">>, and a key that starts with *)
(* a dot has an empty first part.  A variable stands for its value.        *)
(***************************************************************************)
EXTENDS Naturals, Sequences, FiniteSets, FiniteSetsExt, SequencesExt

CONSTANTS
  Parts,         \* what stands between dots
  Empty,         \* the empty part
  MaxDepth,      \* bound: parts of a key
  MaxVariables   \* bound: variables set

ASSUME VariablesAssumption ==
  Empty \in Parts /\ MaxDepth \in Nat \ {0} /\ MaxVariables \in Nat

VARIABLE variables  \* Workspace::_variables, as the set of its keys

Keys == UNION {[1 .. n -> Parts] : n \in 1 .. MaxDepth}

\* What find may come to: a variable, the end of the map, or no end.
Missing == <<"missing">>
Endless == <<"endless">>

VariablesInit == variables = {}

\* set, with a namespace or not: the namespace is put before the name.
SetVariable(key) ==
  /\ Cardinality(variables \cup {key}) <= MaxVariables
  /\ variables' = variables \cup {key}

\* The name in the namespace of the first k parts
InNamespace(key, k) == SubSeq(key, 1, k) \o <<Last(key)>>

\* Mutant of Look: what outer namespaces have comes first.
LookOut(key, k, outer) ==
  IF k > 0 /\ outer # Missing THEN outer
  ELSE IF InNamespace(key, k) \in variables THEN InNamespace(key, k) ELSE Missing
\* The loop of find, with k parts before the dot it has come to, and what it
\* finds from there on.  A dot at the start is at position 0: the search for
\* the one before it starts from the end of the key again.
Look(key, k, outer) ==
  IF k > 0 /\ InNamespace(key, k) \in variables THEN InNamespace(key, k)
  ELSE IF k = 1 /\ key[1] = Empty THEN Endless
  ELSE IF k > 0 THEN outer
  ELSE IF <<Last(key)>> \in variables THEN <<Last(key)>> ELSE Missing

Find(key) ==
  LET search[k \in 0 .. Len(key) - 1] == Look(key, k, search[k - 1])
  IN  search[Len(key) - 1]

VariablesNext == \E key \in Keys : SetVariable(key)

VariablesSpec == VariablesInit /\ [][VariablesNext]_variables

-----------------------------------------------------------------------------
(* Property *)

\* find gives the variable of that name in the innermost of the namespaces
\* around the key that has one, and says that there is none only when none
\* has.  (Unless the key starts with a dot: without that variable in a
\* namespace, find never ends.)
FoundInnermost ==
  \A key \in Keys :
    LET around == {k \in 0 .. Len(key) - 1 : InNamespace(key, k) \in variables} IN
    /\ around # {} /\ (Max(around) > 0 \/ key[1] # Empty \/ Len(key) = 1) =>
         Find(key) = InNamespace(key, Max(around))
    /\ around = {} /\ (key[1] # Empty \/ Len(key) = 1) => Find(key) = Missing

\* Violated: find ends, for a key that starts with a dot too.
FindEnds == \A key \in Keys : Find(key) # Endless
=============================================================================
