----------------------------- MODULE ActionMap -----------------------------
(***************************************************************************)
(* What the comment at lines 567-577 of lemon.c promises of the yy_action  *)
(* table: it "maps the pair (state_number, lookahead) into an              *)
(* action_number", and what one row holds is no concern of another's.      *)
(***************************************************************************)
EXTENDS Sequences

CONSTANT Rows       \* rows of actions: sets of <<lookahead, action>>

VARIABLE map        \* the rows that have been entered

Init == map = <<>>

Enter(row) == map' = Append(map, row)

Next == \E row \in Rows : Enter(row)

Spec == Init /\ [][Next]_map
=============================================================================
