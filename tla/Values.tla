------------------------------- MODULE Values -------------------------------
(***************************************************************************)
(* The parameters of a job, from MapValue::set to Task::submit, and the    *)
(* identifier computed from them (src/src/xpm.cpp, src/src/task.cpp): it   *)
(* names the job's directory, and Workspace::submit skips a job whose      *)
(* identifier it knows.                                                    *)
(*                                                                         *)
(* A value is a tree: scalars, paths, arrays and maps, each with its flags *)
(* (VALIDATED is left out).  MapValue::set copies what it is given, so the *)
(* program's values share nothing.  The SHA-1 digest is what it is         *)
(* computed from: the bytes of two different contents are taken to differ. *)
(*                                                                         *)
(* Type::accepts is left out: every argument gets a value of its type.     *)
(***************************************************************************)
EXTENDS Naturals, Sequences, FiniteSets, FiniteSetsExt, Functions, SequencesExt

CONSTANTS
  Types,     \* the types of maps
  Parent,    \* Type::_parent of each, or None
  Arguments, \* Type::_arguments: for each type, a function from names
  Tasks,     \* the types that are tasks
  Scalars,   \* the scalars the program gives to arguments
  Names,     \* variables of the program
  Created,   \* the types they may be created with, all at once
  MaxSets,   \* bound: calls of set
  MaxJobs,   \* bound: calls of submit
  None

Null == [kind |-> "scalar", content |-> "null", flags |-> {}]
Scalar(s) == [kind |-> "scalar", content |-> s, flags |-> {}]

\* An argument is of one sort (Argument::_value, _constant, _generator and
\* _required), and may be ignored; it is a scalar or what MapArguments say.
Sorts == {"required", "default", "constant", "optional", "path"}
ArgumentSet == [sort : Sorts, content : Scalars \cup {"null"}, ignored : BOOLEAN,
                of : {"scalar", "map", "array"}]

ASSUME ValuesAssumption ==
  /\ Parent \in [Types -> Types \cup {None}]
  /\ \A t \in Types : IsFiniteSet(DOMAIN Arguments[t])
       /\ \A a \in DOMAIN Arguments[t] : Arguments[t][a] \in ArgumentSet
  /\ Created \subseteq [Names -> Types]
  /\ Tasks \subseteq Types /\ None \notin Types
  /\ \A t \in Types \ Tasks : \A a \in DOMAIN Arguments[t] : Arguments[t][a].sort # "path"
  /\ {MaxSets, MaxJobs} \subseteq Nat

VARIABLES
  value,     \* the map each variable of the program holds
  jobs,      \* the calls of submit that came to Workspace::submit, in order
  sets,      \* how many calls of set there were
  pathFirst  \* the order of the unordered_map of arguments

vars == <<value, jobs, sets, pathFirst>>

-----------------------------------------------------------------------------
(* Types *)

\* The types from t up, and all their arguments.
RECURSIVE Up(_)
Up(t) == IF t = None THEN <<>> ELSE <<t>> \o Up(Parent[t])
Lineage == [t \in Types |-> Up(t)]

AllArguments == [t \in Types |-> UNION {DOMAIN Arguments[u] : u \in Range(Lineage[t])}]

\* Type::argument: the first declaration on the way up.
ArgumentOf == [t \in Types |-> [a \in AllArguments[t] |->
  LET i == SelectInSeq(Lineage[t], LAMBDA u : a \in DOMAIN Arguments[u])
  IN  Arguments[Lineage[t][i]][a]]]

-----------------------------------------------------------------------------
(* Values *)

NewMap(t) ==
  [kind |-> "map", type |-> t, task |-> None, job |-> 0, map |-> <<>>, flags |-> {}]
Array(items) == [kind |-> "array", items |-> items, flags |-> {}]

Children(v) ==
  CASE v.kind = "map"   -> Range(v.map)
    [] v.kind = "array" -> Range(v.items)
    [] OTHER            -> {}

With(v, flag) == [v EXCEPT !.flags = @ \cup flag]
If(condition, flag) == IF condition THEN {flag} ELSE {}

\* The type of paths can be ignored.
CanIgnore(v) == v.kind = "path" \/ v.flags \cap {"IGNORE", "DEFAULT"} # {}

Put(v, a, w) == [v EXCEPT !.map = (a :> w) @@ @]

\* The arguments of the type itself are looked up, not of its parents.
IsDefault(t, a, w) ==
  /\ Arguments[t][a].sort = "default"
  /\ w.kind = "scalar" /\ w.content = Arguments[t][a].content
\* Mutant of SetIn: an ignored argument is not marked.
SetInUnmarked(v, a, w) ==
  IF a \notin DOMAIN Arguments[v.type] THEN Put(v, a, w)
  ELSE Put(v, a, With(w, If(IsDefault(v.type, a, w), "DEFAULT")))
SetIn(v, a, w) ==
  IF a \notin DOMAIN Arguments[v.type] THEN Put(v, a, w)
  ELSE Put(v, a, With(w, If(IsDefault(v.type, a, w), "DEFAULT")
                           \cup If(Arguments[v.type][a].ignored, "IGNORE")))

\* updateDigest: an array writes the digested content of its elements one
\* after another, whatever can be ignored; a map leaves out what can be.
RECURSIVE Digest(_)
Kept(v) == {a \in DOMAIN v.map : ~CanIgnore(v.map[a])}
\* Mutant of Entries: the digest has the values and not the keys.
EntriesKeyless(v) == {Digest(v.map[a]) : a \in Kept(v)}
Entries(v) == [a \in Kept(v) |-> Digest(v.map[a])]
Digest(v) ==
  CASE v.kind = "map"   -> <<"map", v.type, v.task, Entries(v)>>
    [] v.kind = "array" -> <<"array", Len(v.items), [i \in DOMAIN v.items |-> Digest(v.items[i])]>>
    [] v.kind = "path"  -> <<"path", v.directory>>
    [] OTHER            -> <<"scalar", v.content>>

\* addDependencies: a map that holds the output of a job is a dependency,
\* ignored or not; an array that can be ignored is not looked into.
RECURSIVE Dependencies(_)
DependenciesIn(v) == UNION {Dependencies(c) : c \in Children(v)}
\* Mutant of MapDependencies: an ignored map gives no dependency.
MapDependenciesKept(v) ==
  IF CanIgnore(v) THEN {} ELSE IF v.job # 0 THEN {v.job} ELSE DependenciesIn(v)
MapDependencies(v) == IF v.job # 0 THEN {v.job} ELSE DependenciesIn(v)
Dependencies(v) ==
  IF v.kind = "map" THEN MapDependencies(v)
  ELSE IF CanIgnore(v) THEN {} ELSE DependenciesIn(v)

-----------------------------------------------------------------------------
(* configure: generate, validate, seal *)

\* Mutant of Generated: a default that generate adds is not marked.
GeneratedUnmarked(u, a) ==
  IF Arguments[u][a].sort = "optional" THEN Null ELSE Scalar(Arguments[u][a].content)
\* What _generate gives to an argument of type u that has no value; it
\* sets it, which marks it again.  An argument that is required gets none.
Generated(u, a) ==
  LET arg == Arguments[u][a] IN
  CASE arg.sort = "default"  -> With(Scalar(arg.content), {"DEFAULT"} \cup If(arg.ignored, "IGNORE"))
    [] arg.sort = "constant" -> Scalar(arg.content)
    [] arg.sort = "optional" -> With(Null, {"DEFAULT"})

Missing(v, u, sorts) ==
  {a \in DOMAIN Arguments[u] \ DOMAIN v.map : Arguments[u][a].sort \in sorts}
Give(v, u) ==
  FoldSet(LAMBDA a, w : SetIn(w, a, Generated(u, a)), v,
          Missing(v, u, {"default", "constant", "optional"}))

\* PathGenerator: a path in the directory named by the identifier of the
\* value being configured, as it is by then.
Path(uuid) == [kind |-> "path", directory |-> uuid, flags |-> {}]
GivePaths(v, u) ==
  FoldSet(LAMBDA a, w : SetIn(w, a, Path(Digest(v))), v, Missing(v, u, {"path"}))

\* The arguments of one type come in the order of an unordered_map:
\* paths before or after the others.
GiveAll(v, u) == IF pathFirst THEN Give(GivePaths(v, u), u) ELSE GivePaths(Give(v, u), u)

\* Children first.  A value that was generated is left as it is.
IsGenerated(v) == "GENERATED" \in v.flags
RECURSIVE Generate(_)
Generate(v) ==
  IF IsGenerated(v) THEN v
  ELSE LET w == CASE v.kind = "map" ->
                       FoldLeft(LAMBDA x, u : GiveAll(x, u),
                                [v EXCEPT !.map = [a \in DOMAIN @ |-> Generate(@[a])]],
                                Lineage[v.type])
                  [] v.kind = "array" ->
                       [v EXCEPT !.items = [i \in DOMAIN @ |-> Generate(@[i])]]
                  [] OTHER -> v
       IN  With(w, {"GENERATED"})

RECURSIVE Valid(_)
Valid(v) ==
  /\ v.kind = "map" => \A a \in AllArguments[v.type] :
       ArgumentOf[v.type][a].sort = "required" => a \in DOMAIN v.map
  /\ \A c \in Children(v) : Valid(c)

RECURSIVE Seal(_)
Sealed(v) ==
  CASE v.kind = "map"   -> With([v EXCEPT !.map = [a \in DOMAIN @ |-> Seal(@[a])]], {"SEALED"})
    [] v.kind = "array" -> With([v EXCEPT !.items = [i \in DOMAIN @ |-> Seal(@[i])]], {"SEALED"})
    [] OTHER            -> With(v, {"SEALED"})
Seal(v) == IF "SEALED" \in v.flags THEN v ELSE Sealed(v)

-----------------------------------------------------------------------------
(* The program *)

Init ==
  /\ \E types \in Created : value = [n \in Names |-> NewMap(types[n])]
  /\ jobs = <<>>
  /\ sets = 0
  /\ pathFirst \in BOOLEAN

\* Mutant of Set: a sealed map is changed.
SetAnyway(n, a, w) ==
  /\ sets < MaxSets
  /\ sets' = sets + 1
  /\ value' = [value EXCEPT ![n] = SetIn(@, a, w)]
  /\ UNCHANGED <<jobs, pathFirst>>
\* sealed_error if the map is sealed.
Set(n, a, w) ==
  /\ sets < MaxSets
  /\ sets' = sets + 1
  /\ "SEALED" \notin value[n].flags
  /\ value' = [value EXCEPT ![n] = SetIn(@, a, w)]
  /\ UNCHANGED <<jobs, pathFirst>>

\* The program gives a scalar, ...
Given(n) ==
  {a \in AllArguments[value[n].type] :
     ArgumentOf[value[n].type][a].sort \in {"required", "default", "optional"}}
Takes(n, sort) == {a \in Given(n) : ArgumentOf[value[n].type][a].of = sort}

SetScalar(n) ==
  \E a \in Takes(n, "scalar"), c \in Scalars : Set(n, a, Scalar(c))

\* ... what another map has for an argument, ...
Reuse(n, m) ==
  \E a \in Takes(n, "scalar"), b \in DOMAIN value[m].map :
    /\ value[m].map[b].kind = "scalar" /\ value[m].map[b].content \in Scalars
    /\ Set(n, a, value[m].map[b])

\* ... or another map, as it is or in an array.  If it is a task's, the
\* task was submitted before.
Ready(m) == value[m].type \in Tasks => value[m].job # 0
SetMap(n, m) ==
  /\ n # m /\ Ready(m)
  /\ \/ \E a \in Takes(n, "map") : Set(n, a, value[m])
     \/ \E a \in Takes(n, "array") : Set(n, a, Array(<<value[m]>>))

-----------------------------------------------------------------------------
(* Task::submit *)

\* The identifier is computed before the value is configured.
Job(id, v, new) == [id |-> id, dependencies |-> Dependencies(v), value |-> v, new |-> new]

Submit(n) ==
  LET v == [value[n] EXCEPT !.task = value[n].type]
      w == Generate(v)
      s == Seal(w)
  IN  /\ v.type \in Tasks
      /\ Len(jobs) < MaxJobs
      /\ IF Valid(w)
         THEN /\ jobs' = Append(jobs, Job(Digest(v), s, ~IsGenerated(v)))
              /\ value' = [value EXCEPT ![n] = [s EXCEPT !.job = Len(jobs) + 1]]
         ELSE value' = [value EXCEPT ![n] = w] /\ UNCHANGED jobs
      /\ UNCHANGED <<sets, pathFirst>>

Next ==
  \E n \in Names :
    \/ SetScalar(n)
    \/ \E m \in Names : Reuse(n, m) \/ SetMap(n, m)
    \/ Submit(n)

Spec == Init /\ [][Next]_vars

-----------------------------------------------------------------------------
(* What the identifier stands for *)

\* The configuration that a value describes: its arguments, with what
\* those that were not given stand for, apart from paths and from what is
\* to be ignored; a result stands for the configuration of its job.
RECURSIVE Meaning(_)
Meant(v, a) ==
  IF a \in DOMAIN v.map THEN Meaning(v.map[a])
  ELSE IF ArgumentOf[v.type][a].sort = "required" THEN <<"none">>
  ELSE IF ArgumentOf[v.type][a].sort = "optional" THEN <<"scalar", "null">>
  ELSE <<"scalar", ArgumentOf[v.type][a].content>>
Meaning(v) ==
  CASE v.kind = "map" ->
         <<"map", v.type, v.task,
           [a \in {b \in AllArguments[v.type] :
                     LET arg == ArgumentOf[v.type][b] IN arg.sort # "path" /\ ~arg.ignored}
              |-> Meant(v, a)]>>
    [] v.kind = "array" -> <<"array", Len(v.items), [i \in DOMAIN v.items |-> Meaning(v.items[i])]>>
    [] v.kind = "scalar" -> <<"scalar", v.content>>

\* Parts of a value
RECURSIVE Parts(_)
Parts(v) == {v} \cup UNION {Parts(c) : c \in Children(v)}

\* What makes the identifier say too much: constants, which generate adds
\* and the digest counts, and inherited arguments, which set does not mark.
Irregular(t) ==
  \E i \in DOMAIN Lineage[t] : \E a \in DOMAIN Arguments[Lineage[t][i]] :
    LET arg == Arguments[Lineage[t][i]][a] IN
    \/ arg.sort = "constant"
    \/ i > 1 /\ (arg.sort = "default" \/ arg.ignored)
Regular(v) == \A p \in Parts(v) : p.kind = "map" => ~Irregular(p.type)

\* What makes it say too little: a value that another map marked.
Marked(v) ==
  \E p \in Parts(v) : p.kind = "map" /\
    \E a \in DOMAIN p.map :
      LET arg == ArgumentOf[p.type][a] w == p.map[a] IN
      \/ "DEFAULT" \in w.flags /\ w.content # "null" /\ ~(arg.sort = "default" /\ w.content = arg.content)
      \/ "IGNORE" \in w.flags /\ ~arg.ignored

Indices == DOMAIN jobs
-----------------------------------------------------------------------------
(* Properties *)

\* Two jobs with the same identifier have the same configuration: submit
\* skips the second, whose results are those of the first.  (Unless a value
\* was taken from a map that had marked it.)
SkippedIsSame ==
  \A i, j \in Indices :
    jobs[i].id = jobs[j].id /\ ~Marked(jobs[i].value) /\ ~Marked(jobs[j].value)
      => Meaning(jobs[i].value) = Meaning(jobs[j].value)

\* Violated: the same, from wherever a value was taken.
SkippedIsSameAnyway ==
  \A i, j \in Indices :
    jobs[i].id = jobs[j].id => Meaning(jobs[i].value) = Meaning(jobs[j].value)

\* Two jobs with the same configuration have the same identifier, whether
\* defaults were given or not and whatever is ignored, so that nothing is
\* computed twice.  (Unless some type is irregular.)
SameIsSkipped ==
  \A i, j \in Indices :
    (/\ Meaning(jobs[i].value) = Meaning(jobs[j].value)
     /\ Regular(jobs[i].value) /\ ~Marked(jobs[i].value) /\ ~Marked(jobs[j].value))
      => jobs[i].id = jobs[j].id

\* Violated: the same, for types with constants and inherited arguments too.
SameIsSkippedAnyway ==
  \A i, j \in Indices :
    Meaning(jobs[i].value) = Meaning(jobs[j].value) => jobs[i].id = jobs[j].id

\* The paths generated for a job are in the directory of that job: the
\* arguments generated before them do not change the identifier.  (Unless
\* some type is irregular, or a submission failed for lack of an argument,
\* which leaves the paths of the identifier of the incomplete value.)
PathsInside ==
  \A i \in Indices :
    LET v == jobs[i].value IN
    Regular(v) /\ jobs[i].new =>
      \A a \in DOMAIN v.map : v.map[a].kind = "path" => v.map[a].directory = jobs[i].id

\* A job waits for every job whose result is among its parameters, also
\* inside other maps, apart from what is in an ignored array.
ResultsAwaited ==
  \A i \in Indices : \A p \in Parts(jobs[i].value) :
    p.kind = "map" /\ p.job # 0 =>
      \/ p.job \in jobs[i].dependencies
      \/ \E q \in Parts(jobs[i].value) :
           \/ q.kind = "array" /\ CanIgnore(q) /\ p \in Parts(q)
           \/ q.kind = "map" /\ q.job \in jobs[i].dependencies /\ p \in Parts(q)

\* Violated: a job waits for the results in arrays as well, when the array is given
\* to an argument that is ignored in the identifier.
ArraysAwaited ==
  \A i \in Indices : \A p, q \in Parts(jobs[i].value) :
    p.kind = "map" /\ p.job # 0 /\ q.kind = "array" /\ p \in Parts(q)
      => p.job \in jobs[i].dependencies

\* A value that is submitted again is known: what generate added the first
\* time, and what the program did to it since, leaves its identifier.
\* (Unless some type is irregular.)
Resubmitted ==
  [][\A n \in Names :
       LET v == value[n] last == Len(jobs') IN
       v.job # 0 /\ value'[n].job # v.job /\ Regular(v) => jobs'[last].id = jobs[v.job].id]_vars
=============================================================================
