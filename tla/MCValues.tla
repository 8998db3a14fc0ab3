------------------------------ MODULE MCValues ------------------------------
(***************************************************************************)
(* Two types of tasks: "Learn", all of whose arguments are its own and     *)
(* none a constant, and "Eval", with a constant and a parent.  "Model" is  *)
(* a map that is not a task.                                               *)
(***************************************************************************)
EXTENDS Values

Arg(sort, content, ignored, of) ==
  [sort |-> sort, content |-> content, ignored |-> ignored, of |-> of]

MCTypes == {"Base", "Learn", "Eval", "Model"}
MCParent == [t \in MCTypes |-> IF t = "Eval" THEN "Base" ELSE None]
MCArguments == [t \in MCTypes |->
  CASE t = "Base"  -> [seed |-> Arg("default", "1", FALSE, "scalar")]
    [] t = "Learn" -> [x     |-> Arg("required", "null", FALSE, "scalar"),
                       d     |-> Arg("default", "1", FALSE, "scalar"),
                     log   |-> Arg("optional", "null", TRUE, "scalar"),
                       model |-> Arg("optional", "null", FALSE, "map"),
                       out   |-> Arg("path", "null", FALSE, "scalar")]
    [] t = "Eval"  -> [from  |-> Arg("required", "null", FALSE, "map"),
                       base  |-> Arg("optional", "null", TRUE, "map"),
                     debug |-> Arg("optional", "null", TRUE, "array"),
                       v     |-> Arg("constant", "2", FALSE, "scalar"),
                       out   |-> Arg("path", "null", FALSE, "scalar")]
    [] t = "Model" -> [d     |-> Arg("default", "2", FALSE, "scalar")]]

MCCreated == {[a |-> "Learn", b |-> t, c |-> "Model"] : t \in {"Learn", "Eval"}}
=============================================================================
