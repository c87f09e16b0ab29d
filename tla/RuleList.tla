------------------------------- MODULE RuleList -------------------------------
(***************************************************************************)
(* What NvmRuleManager.h promises: a list of rules that can be appended to *)
(* or cleared, and that a restart brings back as it was last saved.        *)
(***************************************************************************)
EXTENDS Sequences

CONSTANT Rules
VARIABLES rules, saved

Init == rules = <<>> /\ saved = <<>>

AddNewRule(r) == rules' = Append(rules, r) /\ UNCHANGED saved
ClearRules    == rules' = <<>> /\ UNCHANGED saved
SaveRuleCount == saved' = rules /\ UNCHANGED rules
Restart       == rules' = saved /\ UNCHANGED saved

Next == (\E r \in Rules : AddNewRule(r)) \/ ClearRules \/ SaveRuleCount \/ Restart
Spec == Init /\ [][Next]_<<rules, saved>>
=============================================================================
