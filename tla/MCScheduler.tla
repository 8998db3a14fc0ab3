---------------------------- MODULE MCScheduler ----------------------------
(***************************************************************************)
(* Instances of Scheduler for TLC.  A dependency of job x on y is <<x, y>>. *)
(***************************************************************************)
EXTENDS SchedulerGraph

OriginOf(D) == [d \in D |-> d[2]]
TargetOf(D) == [d \in D |-> d[1]]

\* Every object has an id of its own.
OwnId == [j \in Jobs |-> j]

\* b and c come after a; the three of them need one token.
ForkDeps   == {<<"b", "a">>, <<"c", "a">>, <<"a", "t">>, <<"b", "t">>, <<"c", "t">>}
ForkOrigin == OriginOf(ForkDeps)
ForkTarget == TargetOf(ForkDeps)

\* c comes after a and b, which share tokens; d is c made and submitted again.
JoinDeps   == ({"c", "d"} \X {"a", "b"}) \cup ({"a", "b"} \X Tokens)
JoinOrigin == OriginOf(JoinDeps)
JoinTarget == TargetOf(JoinDeps)
JoinId     == [j \in Jobs |-> IF j = "d" THEN "c" ELSE j]

\* a, then b, then c.
ChainDeps   == {<<"b", "a">>, <<"c", "b">>}
ChainOrigin == OriginOf(ChainDeps)
ChainTarget == TargetOf(ChainDeps)

\* Independent jobs that share tokens.
ShareDeps   == Jobs \X Tokens
ShareOrigin == OriginOf(ShareDeps)
ShareTarget == TargetOf(ShareDeps)

\* b is built from the output of c, which is the same job as a, submitted twice.
CopyDeps   == {<<"b", "c">>}
CopyOrigin == OriginOf(CopyDeps)
CopyTarget == TargetOf(CopyDeps)
CopyId     == [j \in Jobs |-> IF j = "c" THEN "a" ELSE j]

\* c comes after a; b has nothing to do with them.
BesideDeps   == {<<"c", "a">>}
BesideOrigin == OriginOf(BesideDeps)
BesideTarget == TargetOf(BesideDeps)
BesideValue  == [d \in BesideDeps |-> 1]

CopyValue == [d \in CopyDeps |-> 1]
ForkValue == [d \in ForkDeps |-> 1]
JoinValue == [d \in JoinDeps |-> 1]
ChainValue == [d \in ChainDeps |-> 1]
\* c needs two tokens, the others one.
ShareValue == [d \in ShareDeps |-> IF d[1] = "c" THEN 2 ELSE 1]

OneToken  == [t \in Tokens |-> 1]
TwoTokens == [t \in Tokens |-> 2]
=============================================================================
