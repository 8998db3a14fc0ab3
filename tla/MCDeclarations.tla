--------------------------- MODULE MCDeclarations ---------------------------
(***************************************************************************)
(* What a program declares, types and variables, and what it gives to its  *)
(* tasks.  The three components share no state; a behaviour is about one   *)
(* of them.                                                                *)
(***************************************************************************)
EXTENDS Register, Variables, MCParameters

\* A type inherits from those after it.
MCParents == ("a" :> {"b", "c"}) @@ ("b" :> {None, "c"}) @@ ("c" :> {"Any"})

DefinitionsOf(name) == [name : {name}, parent : Parents[name], bad : BOOLEAN]
\* One or two definitions, in any order; an error only in the last.
MCFiles ==
  LET all == UNION {DefinitionsOf(name) : name \in Names} IN
  {<<d>> : d \in all}
    \cup {<<f[1], f[2]>> : f \in {g \in all \X all : ~g[1].bad /\ ~g[2].bad /\ g[1].name # g[2].name}}

Init == RegisterInit /\ VariablesInit /\ ParametersInit

\* One of the initial states of Parameters, for the behaviours of the others.
OneProgram == CHOOSE p \in Programs : TRUE

RegisterIdle   == loading = <<>> /\ Len(objects) = 3 /\ items = <<>>
VariablesIdle  == variables = {}
ParametersIdle == stage = "building" /\ value.map = <<>> /\ arguments = OneProgram

Next ==
  \/ VariablesIdle /\ ParametersIdle /\ RegisterNext /\ UNCHANGED <<variables, parametersVars>>
  \/ RegisterIdle /\ ParametersIdle /\ VariablesNext /\ UNCHANGED <<registerVars, parametersVars>>
  \/ RegisterIdle /\ VariablesIdle /\ ParametersNext /\ UNCHANGED <<registerVars, variables>>

Spec == Init /\ [][Next]_<<registerVars, variables, parametersVars>>
=============================================================================
