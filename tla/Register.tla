------------------------------ MODULE Register ------------------------------
(***************************************************************************)
(* The types of a program: how Register::load links them                   *)
(* (src/src/register.cpp), and how an array finds the type of its elements *)
(* (src/src/type.cpp, ArrayValue::push_back).                              *)
(*                                                                         *)
(* A type is an object: others point to it, and the register finds it by   *)
(* its name.  A file is read one definition at a time, and may stop in the *)
(* middle.  Its definitions come in the order of their names, which is any *)
(* order here.  The arguments of a type are left out, apart from those     *)
(* that cannot be read.  Types are compared by their names.                *)
(***************************************************************************)
EXTENDS Naturals, Sequences, FiniteSets, FiniteSetsExt, Functions, SequencesExt

CONSTANTS
  Names,       \* names of types that are not predefined
  Parents,     \* for each, the parents that it may be given
  Files,       \* the files: sequences of definitions
  MaxObjects,  \* bound: types created
  MaxItems,    \* bound: elements of the array
  None

Predefined == {"Any", "Integer", "Real"}

\* A definition: its name, its parent or None, and whether an argument of
\* it has no type.
Definitions == [name : Names, parent : Names \cup Predefined \cup {None}, bad : BOOLEAN]

ASSUME RegisterAssumption ==
  /\ IsFiniteSet(Names) /\ Names \cap Predefined = {} /\ None \notin Names \cup Predefined
  /\ Parents \in [Names -> SUBSET (Names \cup Predefined \cup {None})]
  /\ \A file \in Files :
       file \in Seq(Definitions) /\ \A i \in DOMAIN file : file[i].parent \in Parents[file[i].name]
  /\ {MaxObjects, MaxItems} \subseteq Nat

\* No type inherits from itself: accepts would have no end.
ASSUME ParentsAssumption ==
  \E rank \in [Names -> 1 .. Cardinality(Names)] :
    \A name \in Names : \A parent \in Parents[name] \cap Names : rank[parent] < rank[name]

VARIABLES
  objects,     \* the types: name, parent (an index, or 0) and placeholder
  registered,  \* Register::_types: from names to indices
  loading,     \* the definitions that load has not read yet
  declared,    \* for each name that was defined, the parent it was given
  replaced,    \* the names registered again by register_addType
  items,       \* ArrayValue::_array, as the types of its elements
  early,       \* an element was added whose type was not complete
  component    \* ArrayValue::_ctype

registerVars == <<objects, registered, loading, declared, replaced, items, early, component>>

Type(name, parent, placeholder) ==
  [name |-> name, parent |-> parent, placeholder |-> placeholder]

\* A map with one more name, or another value for it.
Put(map, name, value) ==
  [x \in DOMAIN map \cup {name} |-> IF x = name THEN value ELSE map[x]]

RegisterInit ==
  /\ objects = <<Type("Any", 0, FALSE), Type("Integer", 1, FALSE), Type("Real", 1, FALSE)>>
  /\ registered = [name \in Predefined |->
       CASE name = "Any" -> 1 [] name = "Integer" -> 2 [] name = "Real" -> 3]
  /\ loading = <<>>
  /\ declared = <<>>
  /\ replaced = {}
  /\ items = <<>>
  /\ early = FALSE
  /\ component = 0

-----------------------------------------------------------------------------
(* The hierarchy *)

\* The types from t up, by how far up they are; 0 above the last.
ParentOf(t) == IF t = 0 THEN 0 ELSE objects[t].parent
Climb(t) == LET up[i \in Nat] == IF i = 0 THEN t ELSE ParentOf(up[i - 1]) IN up

\* How far up there can be types.
Heights == 0 .. Cardinality(Names) + 1
Lineage(t) == {Climb(t)[i] : i \in Heights} \ {0}
Ancestors(t) == {objects[u].name : u \in Lineage(t)}

\* Type::accepts, for the name t, a type that is not an array, and an
\* object u; a real accepts an integer.
Accepts(t, u) ==
  t = "Any" \/ t \in Ancestors(u) \/ <<t, objects[u].name>> = <<"Real", "Integer">>

\* The same for arrays of t and u: the parent of an array type is the
\* array type of the parent.
AcceptsArray(t, u) == t \in Ancestors(u)

\* Mutant of Lca: the type of the first element stays.
LcaFirst(a, b) == a
\* Type::lca.  When b is an ancestor of a the result is a.
Lca(a, b) ==
  LET common == {i \in Heights : Climb(b)[i] # 0 /\ objects[Climb(b)[i]].name \in Ancestors(a)} IN
  IF objects[b].name \in Ancestors(a) THEN a
  ELSE IF common # {} THEN Climb(b)[Min(common)] ELSE 1

-----------------------------------------------------------------------------
(* Register::load *)

Load(file) ==
  /\ loading = <<>>
  /\ loading' = file
  /\ UNCHANGED <<objects, registered, declared, replaced, items, early, component>>

\* The type to fill: the one with that name, or a new one.
Known(name) == name \in DOMAIN registered
Filled(name) == IF Known(name) THEN registered[name] ELSE Len(objects) + 1
Opened(name) ==
  IF Known(name) THEN [objects EXCEPT ![registered[name]].placeholder = FALSE]
  ELSE Append(objects, Type(name, 0, FALSE))

\* Mutant of Placeholder: the type made for a parent is not registered.
PlaceholderLoose(name, t, known) == known
\* The parent is found by its name from then on.
Placeholder(name, t, known) == Put(known, name, t)

\* A definition with a parent that is not known: a placeholder is created.
Link(definition) ==
  LET t == Filled(definition.name)
      known == Put(registered, definition.name, t)
      opened == Opened(definition.name)
      p == IF definition.parent \in DOMAIN known THEN known[definition.parent] ELSE Len(opened) + 1
  IN  \/ /\ definition.parent = None
         /\ objects' = opened /\ registered' = known
      \/ /\ definition.parent \in DOMAIN known
         /\ objects' = [opened EXCEPT ![t].parent = p] /\ registered' = known
      \/ /\ definition.parent \notin DOMAIN known \cup {None}
         /\ objects' = Append([opened EXCEPT ![t].parent = p], Type(definition.parent, 0, TRUE))
         /\ registered' = Placeholder(definition.parent, p, known)

\* A type that is not a placeholder is not defined again: load stops, and
\* what it read stays.
Defined(name) == Known(name) /\ ~objects[registered[name]].placeholder
Define ==
  /\ loading # <<>>
  /\ ~Defined(Head(loading).name)
  /\ Link(Head(loading)) /\ Len(objects') <= MaxObjects
  /\ declared' = Put(declared, Head(loading).name, Head(loading).parent)
  /\ loading' = IF Head(loading).bad THEN <<>> ELSE Tail(loading)
  /\ UNCHANGED <<replaced, items, early, component>>
Refuse ==
  /\ loading # <<>>
  /\ Defined(Head(loading).name)
  /\ loading' = <<>>
  /\ UNCHANGED <<objects, registered, declared, replaced, items, early, component>>

-----------------------------------------------------------------------------
(* The program between two loads *)

\* register_addType, with a type whose parent is one that is registered.
AddType(name, parent) ==
  /\ loading = <<>>
  /\ Len(objects) < MaxObjects
  /\ objects' = Append(objects, Type(name, registered[parent], FALSE))
  /\ registered' = Put(registered, name, Len(objects) + 1)
  /\ declared' = Put(declared, name, parent)
  /\ replaced' = IF Known(name) THEN replaced \cup {name} ELSE replaced
  /\ UNCHANGED <<loading, items, early, component>>

\* Value::create, with the name of a type that is not known.
Create(name) ==
  /\ loading = <<>>
  /\ ~Known(name)
  /\ Len(objects) < MaxObjects
  /\ objects' = Append(objects, Type(name, 0, TRUE))
  /\ registered' = Put(registered, name, Len(objects) + 1)
  /\ UNCHANGED <<loading, declared, replaced, items, early, component>>

\* push_back.  A placeholder on the way up from the type of the value may
\* get a parent later, when the type of the array is settled.
Complete(t) == \A u \in Lineage(t) : ~objects[u].placeholder
PushBack(t) ==
  /\ loading = <<>>
  /\ Len(items) < MaxItems
  /\ early' = (early \/ ~Complete(t))
  /\ items' = Append(items, t)
  /\ component' = IF items = <<>> THEN t ELSE Lca(component, t)
  /\ UNCHANGED <<objects, registered, loading, declared, replaced>>

RegisterNext ==
  \/ \E file \in Files : Load(file)
  \/ Define
  \/ Refuse
  \/ \E name \in Names : Create(name)
  \/ \E name \in Names : \E parent \in Parents[name] \cap DOMAIN registered : AddType(name, parent)
  \/ \E t \in Range(registered) : PushBack(t)

RegisterSpec == RegisterInit /\ [][RegisterNext]_registerVars

-----------------------------------------------------------------------------
(* Properties *)

\* The names on the way up, by what the definitions said; None above the last.
DeclaredParent(name) ==
  IF name \in DOMAIN declared THEN declared[name]
  ELSE IF name \in {"Integer", "Real"} THEN "Any" ELSE None
DeclaredUp(name) == LET up[i \in Nat] == IF i = 0 THEN name ELSE DeclaredParent(up[i - 1]) IN up

NameOf(t) == IF t = 0 THEN None ELSE objects[t].name

\* A type inherits from what its definition and those of its parents say,
\* in whatever order the files gave them and wherever a file stopped.
\* (Unless register_addType replaced a type that others point to.)
InheritanceRead ==
  \A name \in DOMAIN declared :
    (\A i \in Heights : DeclaredUp(name)[i] \notin replaced) =>
      \A i \in Heights : NameOf(Climb(registered[name])[i]) = DeclaredUp(name)[i]

\* A later element that an earlier one inherits from
Descending ==
  \E i, j \in DOMAIN items :
    i < j /\ objects[items[j]].name \in Ancestors(items[i]) \ {objects[items[i]].name}

\* Every type was complete when a value of it was added, none is of a type
\* that one before it inherits from, and none was replaced.
Settled == ~early /\ ~Descending /\ \A u \in Range(items) : Ancestors(u) \cap replaced = {}

\* An array is accepted where an array of t is declared if and only if each
\* element is accepted where t is, once settled.  (But a real accepts an
\* integer, where an array of reals accepts no array of integers.)
ArraysFit ==
  items # <<>> /\ Settled =>
    \A t \in Names \cup {"Integer"} :
      AcceptsArray(t, component) <=> \A i \in DOMAIN items : Accepts(t, items[i])

\* Violated: an array accepts its own elements, also when a value is followed by one
\* of a type that it inherits from.
ElementsFit ==
  items # <<>> /\ ~early /\ replaced = {} =>
    \A i \in DOMAIN items : Accepts(NameOf(component), items[i])

-----------------------------------------------------------------------------
(* The inductive invariant: HierarchyInv for InheritanceRead, and FitInv   *)
(* with it for ArraysFit.                                                  *)

AllNames == Names \cup Predefined
RegisterTypes ==
  /\ objects \in Seq([name : AllNames, parent : Nat, placeholder : BOOLEAN])
  /\ \A u \in DOMAIN objects : objects[u].parent \in 0 .. Len(objects)
  /\ DOMAIN registered \subseteq AllNames /\ registered \in [DOMAIN registered -> DOMAIN objects]
  /\ declared \in [DOMAIN declared -> AllNames \cup {None}]
  /\ \A name \in DOMAIN declared : name \in Names /\ declared[name] \in Parents[name]
  /\ loading \in Seq(Definitions)
  /\ \A i \in DOMAIN loading : loading[i].parent \in Parents[loading[i].name]
  /\ replaced \subseteq Names
  /\ items \in Seq(DOMAIN objects) /\ early \in BOOLEAN
  /\ component \in 0 .. Len(objects)

\* An object is found by its name, unless it was replaced.
NamesInv ==
  /\ \A name \in DOMAIN registered : objects[registered[name]].name = name
  /\ Len(objects) >= 3 /\ Predefined \subseteq DOMAIN registered
  /\ registered["Any"] = 1 /\ registered["Integer"] = 2 /\ registered["Real"] = 3
  /\ \A u \in DOMAIN objects :
       /\ objects[u].name \in DOMAIN registered
       /\ objects[u].name \notin replaced => registered[objects[u].name] = u

\* The parent of a type that was defined is the one found by the name that
\* the definition gave; a type that was not is a placeholder.
Linked(name) ==
  LET o == objects[registered[name]] IN
  /\ ~o.placeholder
  /\ declared[name] = None => o.parent = 0
  /\ declared[name] # None =>
       /\ declared[name] \in DOMAIN registered
       /\ declared[name] \notin replaced => o.parent = registered[declared[name]]
LinksInv ==
  /\ objects[1].parent = 0 /\ objects[2].parent = 1 /\ objects[3].parent = 1
  /\ DOMAIN declared \subseteq DOMAIN registered
  /\ \A name \in DOMAIN declared : Linked(name)
  /\ \A name \in (DOMAIN registered \cap Names) \ DOMAIN declared :
       objects[registered[name]].placeholder /\ objects[registered[name]].parent = 0

\* Every parent is one that a definition may give.
ParentsInv ==
  \A u \in DOMAIN objects :
    /\ objects[u].name \in Names /\ objects[u].parent # 0
         => objects[objects[u].parent].name \in Parents[objects[u].name]
    /\ objects[u].name \in Predefined => u \in 1 .. 3

HierarchyInv == RegisterTypes /\ NamesInv /\ LinksInv /\ ParentsInv

\* What was added to the array does not change any more, and the type of the
\* array is the first element's or one that it inherits from.
ArrayInv ==
  items # <<>> =>
    /\ ~early => \A u \in Range(items) : Complete(u)
    /\ Settled => component \in Lineage(items[1]) \cup {1}

FitInv == ArrayInv /\ ArraysFit
=============================================================================
