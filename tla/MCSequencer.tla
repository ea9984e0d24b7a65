---------------------------- MODULE MCSequencer ----------------------------
(***************************************************************************)
(* Lists for Sequencer, with the ids a v1.1 document keeps; they are apart *)
(* from the numbered names, as the theorem about what the rows show asks.  *)
(***************************************************************************)
EXTENDS Sequencer

Row(id, kind) == [id |-> id, kind |-> kind]
Stable == {<<Row("m1", "macro")>>}
NewText == {Row("n1", "inline")}
MacroNames == <<"macro_000", "macro_001", "macro_002">>
WaitNames == <<"wait_000", "wait_001", "wait_002">>
Names == {"m1", "n1", "end_success", "end_error"} \cup
         {MacroNames[i] : i \in 1 .. 3} \cup {WaitNames[i] : i \in 1 .. 3}
NoFlow == {}
GuiOnly == {Gui}

ASSUME StableIdsApart == IdsApart
=============================================================================
