---------------------------- MODULE MCFlowEngine ----------------------------
(***************************************************************************)
(* Flows of a few nodes for FlowEngine.  Ring goes round through a counter *)
(* and mends a failed macro; Broken has an edge that leads nowhere.        *)
(***************************************************************************)
EXTENDS FlowEngine

Macro(then, else) == [kind |-> "macro", then |-> then, else |-> else]
Color(then, else) == [kind |-> "color", then |-> then, else |-> else]
Counter(n, then, else) ==
    [kind |-> "counter", initial |-> 0, increment |-> 1, max |-> n, then |-> then, else |-> else]
Pause(then) == [kind |-> "wait", then |-> then]
End(success) == [kind |-> "end", success |-> success]
FlowOf(start, node) == [start |-> start, node |-> node]

Ring == FlowOf("a", [a |-> Macro("c", "w"), c |-> Counter(2, "a", "e"), w |-> Pause("c"),
                     e |-> End(TRUE)])
Broken == FlowOf("k", [k |-> Color("a", None), a |-> Macro("e", "gone"), e |-> End(FALSE)])
Names == {"a", "c", "e", "k", "w", "gone"}
BothFlows == {Ring, Broken}
=============================================================================
