------------------------------ MODULE MCRuleStore ------------------------------
(* Two rows of four bytes: the count and up to three rules of one or two bytes. *)
EXTENDS RuleStore
MCRules == {<<1>>, <<2, 1>>}
=============================================================================
