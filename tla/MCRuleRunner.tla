---------------------------- MODULE MCRuleRunner ----------------------------
(* Two months of unequal length and the first second of a third. *)
EXTENDS RuleRunner
MCSchedules == {{2, 4}, {3}, {}}
MCMonthOf == [t \in 0 .. 7 |-> IF t < 3 THEN 0 ELSE IF t < 7 THEN 1 ELSE 2]
MCOffset  == [t \in 0 .. 7 |-> IF t < 3 THEN t ELSE IF t < 7 THEN t - 3 ELSE 0]
=============================================================================
