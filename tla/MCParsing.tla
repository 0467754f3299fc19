------------------------------ MODULE MCParsing ------------------------------
(***************************************************************************)
(* The texts the program takes apart, each up to a length: signatures,     *)
(* with scaled limits, introspection documents, and rules of the policy.   *)
(***************************************************************************)
EXTENDS Parsing

\* A type for each direction, so that no two arguments are alike.
MCArgs ==
    {[direction |-> NoName, type |-> "i"], [direction |-> "in", type |-> "s"],
     [direction |-> "out", type |-> "b"]}

MCProperties == {[name |-> "p", type |-> "i"], [name |-> "p", type |-> "s"]}

\* Of two interfaces alike, one or none is named.
MCQuestions == [interface : {"a", NoName}, method : {"m"}, property : {"p"}]
=============================================================================
