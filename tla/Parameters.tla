----------------------------- MODULE Parameters -----------------------------
(***************************************************************************)
(* How the parameters of a job reach its command.  The program gives       *)
(* values to the arguments of a task and submits it; CommandParameters     *)
(* writes them in a JSON file (src/src/commandline.cpp, outputJson in      *)
(* src/src/xpm.cpp); the command, which is another process, reads the file *)
(* and the options of its command line (Register::parse in                 *)
(* src/src/register.cpp, Value::create, src/src/scalar.cpp), validates     *)
(* the result again, and gives it to the object of the task                *)
(* (MapValue::createObjects, src/include/public/xpm/cpp.hpp).  A user may  *)
(* also run the command by hand, with options and no file.                 *)
(*                                                                         *)
(* Numbers are counted in halves, so that a real may be whole or not.      *)
(* Texts are members of a small set; which of them the regular expressions *)
(* of scalar.cpp take for numbers and booleans is given.  Types are        *)
(* sequences: <<name>>, or <<name, "[]">> for an array.  The keys $job and *)
(* $task, flags, and options for parts of a nested value are left out.     *)
(***************************************************************************)
EXTENDS Integers, Sequences, FiniteSets, FiniteSetsExt, Functions, SequencesExt

CONSTANTS
  Types,      \* the types of maps
  Parent,     \* the parent type of each, or Nothing
  Task,       \* the type of the task's parameters
  Programs,   \* what Type::_arguments may be: for each type, a function from names
  Given,      \* what the program may give to an argument of each type
  Texts,      \* what may follow an option, or be in a string
  NumberOf,   \* the texts that re_real matches, and their numbers
  Unsigned,   \* those that re_integer matches
  BooleanOf,  \* the texts read as booleans
  Largest,    \* a long is less than this, in halves
  Nothing

ScalarTypes == {"boolean", "integer", "real", "string", "path"}
Sorts == {"required", "default", "constant", "optional"}

ASSUME ParametersAssumption ==
  /\ Parent \in [Types -> Types \cup {Nothing}] /\ Task \in Types
  /\ Types \cap (ScalarTypes \cup {"any", Nothing}) = {}
  /\ \A p \in Programs : DOMAIN p = Types
       /\ \A t \in Types : \A a \in DOMAIN p[t] : p[t][a].sort \in Sorts
  /\ DOMAIN NumberOf \subseteq Texts /\ DOMAIN BooleanOf \subseteq Texts
  /\ Unsigned \subseteq DOMAIN NumberOf
  /\ Largest \in Nat

VARIABLES
  arguments, \* Type::_arguments of every type
  stage,     \* how far the job has come
  value,     \* the parameters in the program
  file,      \* the JSON file
  option,    \* the option on the command line: a name and a text, or Nothing
  command,   \* the parameters in the command
  object     \* what the task's object was given

parametersVars == <<arguments, stage, value, file, option, command, object>>

-----------------------------------------------------------------------------
(* Scalars *)

Number(t, n) == [kind |-> "scalar", type |-> t, num |-> n, text |-> ""]
Text(t, s)   == [kind |-> "scalar", type |-> t, num |-> 0, text |-> s]
Null   == Number("none", 0)
Unset  == Number("unset", 0)
Failed == [kind |-> "failed"]       \* an exception

Json(t, v) == [json |-> t, num |-> v.num, text |-> v.text]
JsonNull == Json("null", Null)

ToJson(s) ==
  CASE s.type = "none"    -> JsonNull
    [] s.type = "string"  -> Json("string", s)
    [] s.type = "boolean" -> Json("boolean", s)
    [] s.type = "integer" -> Json("integer", s)
    [] s.type = "real"    -> Json("float", s)

\* The conversion of a double that no long can hold has no defined value:
\* it is the smallest long, as processors have it.
Whole(n) == n % 2 = 0
ToLong(n) == IF n \in -Largest .. Largest - 1 THEN n ELSE -Largest

\* Scalar(json): a whole number is an integer, as 2.0 is.
FromJson(j) ==
  CASE j.json = "null"    -> Null
    [] j.json = "string"  -> Text("string", j.text)
    [] j.json = "boolean" -> Number("boolean", j.num)
    [] j.json = "integer" -> Number("integer", j.num)
    [] j.json = "float"   -> IF Whole(j.num) THEN Number("integer", ToLong(j.num))
                                             ELSE Number("real", j.num)

\* fromString.  StringType is not among the types it knows.
FromString(s, t) ==
  CASE t = <<"any">>     -> Text("string", s)
    [] t = <<"path">>    -> Text("path", s)
    [] t = <<"integer">> /\ s \in Unsigned -> Number("integer", NumberOf[s])
    [] t = <<"boolean">> /\ s \in DOMAIN BooleanOf -> Number("boolean", BooleanOf[s])
    [] t = <<"real">>    /\ s \in DOMAIN NumberOf  -> Number("real", NumberOf[s])
    [] OTHER -> Failed

-----------------------------------------------------------------------------
(* Types *)

RECURSIVE TypesUp(_)
TypesUp(t) == IF t = Nothing THEN <<>> ELSE <<t>> \o TypesUp(Parent[t])
\* The names of the types from t up.
NamesUp(t) ==
  IF t \in Types THEN TypesUp(t) ELSE IF t = "any" THEN <<t>> ELSE <<t, "any">>
\* The parent of an array type is the array type of the parent.
Up(t) == [i \in DOMAIN NamesUp(t[1]) |-> [t EXCEPT ![1] = NamesUp(t[1])[i]]]

\* Mutant of AcceptsType: a real does not accept an integer.
AcceptsTypeInherited(t, u) == t = <<"any">> \/ t \in Range(Up(u))
AcceptsType(t, u) ==
  t = <<"any">> \/ t \in Range(Up(u)) \/ (t = <<"real">> /\ u = <<"integer">>)

LcaOf(t, u) ==
  IF u \in Range(Up(t)) THEN t
  ELSE LET common == SelectSeq(Up(u), LAMBDA w : w \in Range(Up(t))) IN
       IF common = <<>> THEN <<"any">> ELSE Head(common)

\* Type::argument, and the arguments of t that are not hidden by others.
Declaring(t, a) == SelectSeq(TypesUp(t), LAMBDA u : a \in DOMAIN arguments[u])
Argument(t, a)  == arguments[Head(Declaring(t, a))][a]
Declared(t) == UNION {DOMAIN arguments[u] : u \in Range(TypesUp(t))}

-----------------------------------------------------------------------------
(* Values *)

Map(t, m) == [kind |-> "map", type |-> t, map |-> m]
Array(t, items) == [kind |-> "array", component |-> t, items |-> items]

TypeOf(v) ==
  CASE v.kind = "map"   -> <<v.type>>
    [] v.kind = "array" -> Append(v.component, "[]")
    [] v.type \in ScalarTypes -> <<v.type>>
    [] OTHER -> <<"any">>

\* ArrayValue::push_back
Push(array, v) ==
  Array(IF array.items = <<>> THEN TypeOf(v) ELSE LcaOf(array.component, TypeOf(v)),
        Append(array.items, v))
ArrayFrom(items) ==
  FoldLeft(LAMBDA array, v : Push(array, v), Array(<<"any">>, <<>>), items)

IsNull(v) == v.kind = "scalar" /\ v.type = "none"

\* generate: what _generate gives to an argument that has no value.
Generated(arg) == IF arg.sort \in {"default", "constant"} THEN arg.value ELSE Null
RECURSIVE Generate(_)
Generate(v) ==
  CASE v.kind = "array" -> [v EXCEPT !.items = [i \in DOMAIN @ |-> Generate(@[i])]]
    [] v.kind = "map" ->
         LET missing == {a \in Declared(v.type) \ DOMAIN v.map :
                           Argument(v.type, a).sort # "required"} IN
         [v EXCEPT !.map = [a \in DOMAIN @ |-> Generate(@[a])]
                             @@ [a \in missing |-> Generated(Argument(v.type, a))]]
    [] OTHER -> v

\* A constant is required as well: only a default value changes that.
Required(arg) == arg.sort \in {"required", "constant"}
\* Every declaration on the way up is checked, the hidden ones too.
RECURSIVE Valid(_)
Valid(v) ==
  CASE v.kind = "array" -> \A i \in DOMAIN v.items : Valid(v.items[i])
    [] v.kind = "map" ->
         \A t \in Range(TypesUp(v.type)) : \A a \in DOMAIN arguments[t] :
           LET arg == arguments[t][a] IN
           IF a \notin DOMAIN v.map \/ IsNull(v.map[a]) THEN ~Required(arg)
           ELSE AcceptsType(arg.type, TypeOf(v.map[a])) /\ Valid(v.map[a])
    [] OTHER -> TRUE

-----------------------------------------------------------------------------
(* The file *)

RECURSIVE OutputJson(_)
OutputJson(v) ==
  CASE v.kind = "array" ->
         [json |-> "array", items |-> [i \in DOMAIN v.items |-> OutputJson(v.items[i])]]
    [] v.kind = "map" ->
         [json |-> "object", type |-> v.type,
          fields |-> [a \in Declared(v.type) |->
                        IF a \in DOMAIN v.map THEN OutputJson(v.map[a]) ELSE JsonNull]]
    [] v.kind = "scalar" /\ v.type = "path" ->
         [json |-> "object", type |-> "path", fields |-> [value |-> Json("string", v)]]
    [] OTHER -> ToJson(v)

\* Value::create.  A path is the only scalar written with its type, which
\* does not accept a string: the text is cast (Scalar::asPath).
RECURSIVE CreateValue(_)
CreateValue(j) ==
  CASE j.json = "array" -> ArrayFrom([i \in DOMAIN j.items |-> CreateValue(j.items[i])])
    [] j.json = "object" /\ j.type = "path" -> Text("path", FromJson(j.fields.value).text)
    [] j.json = "object" /\ j.type # "path" ->
         Map(j.type, [a \in DOMAIN j.fields |-> CreateValue(j.fields[a])])
    [] OTHER -> FromJson(j)

-----------------------------------------------------------------------------
(* Objects *)

\* What assignValue gives to a field: a null object is left as it is, a
\* null boolean is false, and other null values cannot be converted.
\* Numbers other than integers, arrays and values of any type are given as
\* they are, to objects of the C API.
RECURSIVE CreateObject(_)
Field(t, v) ==
  CASE v.kind = "map" -> CreateObject(v)
    [] IsNull(v) /\ t = <<"boolean">> -> Number("boolean", 0)
    [] IsNull(v) /\ t \in {<<"integer">>, <<"string">>, <<"path">>} -> Failed
    [] OTHER -> v
CreateObject(v) ==
  LET fields == [a \in DOMAIN v.map |-> Field(Argument(v.type, a).type, v.map[a])] IN
  IF Failed \in Range(fields) THEN Failed ELSE Map(v.type, fields)

-----------------------------------------------------------------------------
(* The program *)

ParametersInit ==
  /\ arguments \in Programs
  /\ stage = "building"
  /\ value = Map(Task, <<>>)
  /\ file = Nothing
  /\ option = Nothing
  /\ command = Nothing
  /\ object = Nothing

\* MapValue::set, at most once for each argument; constants are left to
\* generate, and null is not given instead of a default value.
Set(a) ==
  /\ stage = "building"
  /\ a \in Declared(Task) \ DOMAIN value.map
  /\ Argument(Task, a).sort # "constant"
  /\ \E v \in Given[Argument(Task, a).type] :
       /\ IsNull(v) => Argument(Task, a).sort # "default"
       /\ value' = [value EXCEPT !.map = (a :> v) @@ @]
  /\ UNCHANGED <<arguments, stage, file, option, command, object>>

\* Task::submit configures the value.
Submit ==
  /\ stage = "building"
  /\ value' = Generate(value)
  /\ stage' = IF Valid(value') THEN "submitted" ELSE "rejected"
  /\ UNCHANGED <<arguments, file, option, command, object>>

\* CommandParameters::output, when the script is written.
Write ==
  /\ stage = "submitted"
  /\ stage' = "written"
  /\ file' = OutputJson(value)
  /\ UNCHANGED <<arguments, value, option, command, object>>

-----------------------------------------------------------------------------
(* The command: Register::parse *)

\* What the file has, or nothing but the type.
Read == IF file = Nothing THEN Map(Task, <<>>) ELSE CreateValue(file)

\* getSubValue: a value that is there is changed where it is; one that is
\* not is created, and copied into the map before it is given anything.
\* Mutant of Override: an option does not change what the file has.
OverrideMissing(v, a, s) ==
  IF a \in DOMAIN v.map THEN v ELSE [v EXCEPT !.map = (a :> Unset) @@ @]
Override(v, a, s) == [v EXCEPT !.map = (a :> IF a \in DOMAIN @ THEN s ELSE Unset) @@ @]

\* Only a scalar type takes a text.
Options(v) == {a \in Declared(v.type) : Argument(v.type, a).type[1] \in ScalarTypes
                                        /\ Len(Argument(v.type, a).type) = 1}

\* By the script, or by hand with no file.
Launch == stage = "written" \/ (stage = "building" /\ value.map = <<>>)

Parse ==
  /\ Launch
  /\ command' = Read
  /\ stage' = "parsed"
  /\ UNCHANGED <<arguments, value, file, option, object>>

ParseOption(a, s) ==
  LET scalar == FromString(s, Argument(Task, a).type) IN
  /\ Launch
  /\ a \in Options(Read)
  /\ option' = [name |-> a, text |-> s]
  /\ \/ /\ scalar = Failed
        /\ stage' = "refused"
        /\ UNCHANGED command
     \/ /\ scalar # Failed
        /\ stage' = "parsed"
        /\ command' = Override(Read, a, scalar)
  /\ UNCHANGED <<arguments, value, file, object>>

Validate ==
  /\ stage = "parsed"
  /\ stage' = IF Valid(command) THEN "valid" ELSE "refused"
  /\ UNCHANGED <<arguments, value, file, option, command, object>>

\* createObjects and runTask
Run ==
  /\ stage = "valid"
  /\ object' = CreateObject(command)
  /\ stage' = IF object' = Failed THEN "failed" ELSE "running"
  /\ UNCHANGED <<arguments, value, file, option, command>>

ParametersNext ==
  \/ \E a \in Declared(Task) : Set(a)
  \/ Submit \/ Write
  \/ Parse
  \/ \E a \in Declared(Task), s \in Texts : ParseOption(a, s)
  \/ Validate \/ Run

-----------------------------------------------------------------------------
(* What the parameters mean *)

\* A number is the same whether it is an integer or a real.
Class(t) == IF t \in {"integer", "real"} THEN "number" ELSE t
RECURSIVE Meaning(_)
Meaning(v) ==
  CASE v.kind = "map"   -> [type |-> v.type, map |-> [a \in DOMAIN v.map |-> Meaning(v.map[a])]]
    [] v.kind = "array" -> [items |-> [i \in DOMAIN v.items |-> Meaning(v.items[i])]]
    [] OTHER            -> [class |-> Class(v.type), num |-> v.num, text |-> v.text]

RECURSIVE PartsOf(_)
PartsOf(v) ==
  {v} \cup (CASE v.kind = "map"   -> UNION {PartsOf(w) : w \in Range(v.map)}
              [] v.kind = "array" -> UNION {PartsOf(w) : w \in Range(v.items)}
              [] OTHER            -> {})

Huge(v) == \E p \in PartsOf(v) : p.kind = "scalar" /\ p.num # ToLong(p.num)
WholeReals(v) ==
  \E p \in PartsOf(v) : p.kind = "array" /\
    \E i \in DOMAIN p.items : p.items[i].type = "real" /\ Whole(p.items[i].num)

\* An option whose text is one of its type.
Spelled(opt) == FromString(opt.text, Argument(Task, opt.name).type) # Failed

-----------------------------------------------------------------------------
(* Properties *)

\* What the program's validation accepted is accepted by the command's, on
\* values that went through JSON and lost their types.  (But an array of
\* reals with a whole one, which comes back as an array of integers or of
\* any type, and options that are no text of their type, or strings.)
AcceptedAgain ==
  stage = "refused" /\ file # Nothing =>
    \/ WholeReals(value)
    \/ option # Nothing /\ ~Spelled(option)

\* What the task is to run with: the option, or else what was submitted.
Wanted(a) ==
  IF option # Nothing /\ option.name = a
  THEN Meaning(FromString(option.text, Argument(Task, a).type))
  ELSE IF IsNull(value.map[a]) /\ Argument(Task, a).type = <<"boolean">>
  THEN Meaning(Number("boolean", 0))
  ELSE Meaning(value.map[a])
\* A task runs with the parameters it was submitted with, defaults,
\* constants and inherited arguments included, but for what an option says.
\* (Reals that are whole and beyond a long are lost.)
SameParameters ==
  stage = "running" /\ file # Nothing /\ ~Huge(value) =>
    /\ DOMAIN object.map = DOMAIN value.map
    /\ \A a \in DOMAIN value.map : Meaning(object.map[a]) = Wanted(a)

-----------------------------------------------------------------------------
(* What one would expect and the code does not do.                         *)

\* "run <task-id> [task arguments...] that runs a task"
\* (src/include/public/xpm/register.hpp:34).  A task whose other arguments
\* need no value is not refused when an option gives it a text of its type.
ArgumentsHeard ==
  stage = "refused" /\ option # Nothing /\ file = Nothing
    => \/ ~Spelled(option)
       \/ \E a \in Declared(Task) \ {option.name} : Required(Argument(Task, a))

\* A task whose parameters are valid gets its object: violated, as null is
\* generated for an argument that is optional and cannot be read into a
\* field that is an integer, a string or a path.
ObjectMade == stage # "failed"
=============================================================================
