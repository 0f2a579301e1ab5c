---------------------------- MODULE MCRuleTable ----------------------------
(***************************************************************************)
(* Instance of RuleTable for TLC.                                          *)
(***************************************************************************)
EXTENDS RuleTable

CONSTANT a     \* a field name
=============================================================================
