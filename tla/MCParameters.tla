---------------------------- MODULE MCParameters ----------------------------
(***************************************************************************)
(* A task with an argument "a" of its own or of its parent, of every type  *)
(* and sort, and for some also an array "b" of reals; a "Model" has a      *)
(* number.                                                                 *)
(***************************************************************************)
EXTENDS Parameters

MCTypes == {"Task", "Base", "Model"}
MCParent == [t \in MCTypes |-> IF t = "Task" THEN "Base" ELSE Nothing]
MCTexts == {"", "5", "-5", "1.5", "Y"}
MCNumberOf == ("5" :> 10) @@ ("-5" :> -10) @@ ("1.5" :> 3)
MCBooleanOf == [s \in {"Y"} |-> 1]

Number5 == Number("integer", 10)
\* Reals: 0.5, 1 and one that no long can hold.
MCScalars ==
  {Number("boolean", n) : n \in {0, 1}} \cup {Number("integer", n) : n \in {0, 10}}
    \cup {Number("real", n) : n \in {1, 2, 24}}
    \cup {Text(t, s) : t \in {"string", "path"}, s \in {"", "5"}} \cup {Null}
Reals == {Number("real", n) : n \in {1, 2}}
Arrays == {ArrayFrom(s) : s \in {<<>>} \cup {<<x>> : x \in Reals \cup {Number5}}
                                 \cup (Reals \X Reals)}
Models == {Map("Model", <<>>)} \cup {Map("Model", [n |-> s]) : s \in Reals \cup {Number5, Null}}

MCArgumentTypes == {<<t>> : t \in ScalarTypes \cup {"any", "Model"}} \cup {<<"real", "[]">>}
\* Scalars of all types are given to every argument.
MCGiven == [t \in MCArgumentTypes |->
  MCScalars \cup (IF t = <<"real", "[]">> THEN Arrays ELSE {})
            \cup (IF t = <<"Model">> THEN Models ELSE {})]

Arg(t, sort, v) == [type |-> t, sort |-> sort, value |-> v]
Default(t) ==
  CASE t \in {<<"integer">>, <<"real">>, <<"any">>} -> Number5
    [] t = <<"boolean">> -> Number("boolean", 1)
    [] t = <<"string">>  -> Text("string", "5")
    [] t = <<"path">>    -> Text("path", "5")
    [] OTHER             -> Null
MCSorts(t) == IF t[1] = "Model" \/ Len(t) = 2 THEN {"required", "optional"} ELSE Sorts

Program(arg, inherited) ==
  LET own == [a |-> arg] other == [b |-> Arg(<<"integer">>, "default", Number5)] IN
  ("Task"  :> IF inherited THEN other ELSE own) @@
  ("Base"  :> IF inherited THEN own ELSE <<>>) @@
  ("Model" :> [n |-> Arg(<<"real">>, "optional", Null)])
MCPrograms ==
  UNION {{Program(Arg(t, sort, Default(t)), inherited) :
            sort \in MCSorts(t), inherited \in BOOLEAN} : t \in MCArgumentTypes}
=============================================================================
