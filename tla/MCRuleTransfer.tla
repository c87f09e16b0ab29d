--------------------------- MODULE MCRuleTransfer ---------------------------
(* Rules of two DATA frames and of one; one that does not decompile. *)
EXTENDS RuleTransfer
Part(r, i, n) == [rule |-> r, part |-> i, len |-> n]
MCLong  == <<Part("long", 1, 2), Part("long", 2, 1)>>
MCShort == <<Part("short", 1, 1)>>
MCBad   == <<Part("bad", 1, 2)>>
MCRules == {MCLong, MCShort, MCBad}
MCUndecodable == {MCBad}
=============================================================================
