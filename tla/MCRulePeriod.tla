---------------------------- MODULE MCRulePeriod ----------------------------
EXTENDS RulePeriod

One(type, n) == << [type |-> type, value |-> n] >>

\* A period of each type, periods of two fields, and first periods that are
\* many periods behind, on a 29th of February, and ahead, on a 31st.
MCRules ==
  [period : {One("years", 1), One("months", 1), One("months", 5), One("weeks", 1),
             One("days", 3), One("years", 1) \o One("months", 2),
             One("months", 1) \o One("days", 2)},
   first : {Empty, Date(2024, 2, 29), Date(2028, 1, 31)}]

\* The rule of rule_tests.cpp: on every month.
MCMonthly == {[period |-> One("months", 1), first |-> Empty]}

\* The epoch, to walk through every day; or shortly before a rule is loaded.
MCEpoch == {0}
MCNovember == {Date(2027, 11, 20)}

\* Before the end of a year and on its first day, and the days of a week that
\* holds a 29th of February.
MCLoadDays == { Date(2027, 11, 20), Date(2028, 1, 1) }
                \cup Date(2028, 2, 26) .. Date(2028, 3, 3)
=============================================================================
