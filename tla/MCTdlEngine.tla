------------------------------ MODULE MCTdlEngine ------------------------------
(* Small programs: a rule alone (with intervals that outlast its period, with an endless *)
(* period, with a first period to come), chains of two and three rules, rules started by *)
(* an event, a rule that inverts its channel, a rule enabled when its first period is over. *)
(* In the chains of MCPrograms a rule comes before the rules that enable it.  *)
EXTENDS TdlEngine, TLC
Rule == [onStart |-> TRUE, target |-> "channel", id |-> 0, whenRunning |-> TRUE, first |-> Empty,
         unit |-> 4, period |-> 4, intervals |-> <<<<1, 3>>>>, event |-> FALSE, delay |-> 0]
Enables(j) == [Rule EXCEPT !.target = "rule", !.id = j, !.intervals = <<<<0, 5>>>>, !.period = 7,
                            !.unit = 7]
Child   == [Rule EXCEPT !.onStart = FALSE, !.period = 3, !.unit = 1,
                        !.intervals = <<<<0, 1>>, <<2, 4>>>>]
Forever == [Rule EXCEPT !.period = Infinite, !.intervals = <<<<1, 2>>, <<4, 9>>>>]
Wide    == [Rule EXCEPT !.intervals = <<<<1, 2>>, <<3, 6>>>>]   \* outlasts the period
Later   == [Rule EXCEPT !.first = 5]
OnEvent == [Rule EXCEPT !.event = TRUE, !.delay = 1, !.period = Infinite]
Chain(f, g) == (0 :> f @@ 1 :> g)
MCPrograms ==
  {0 :> Wide, 0 :> Forever, 0 :> Later,
   Chain(Child, Enables(0)), Chain([OnEvent EXCEPT !.id = 1], Rule),
   Chain(Child, [OnEvent EXCEPT !.target = "rule", !.period = 12]),
   0 :> Child @@ 1 :> [Enables(0) EXCEPT !.onStart = FALSE, !.unit = 1, !.period = 5]
     @@ 2 :> [Enables(1) EXCEPT !.period = 9, !.unit = 9],
   Chain([Child EXCEPT !.whenRunning = FALSE], [Enables(0) EXCEPT !.intervals = <<<<2, 6>>>>]),
   Chain([Child EXCEPT !.first = 2], Enables(0))}
=============================================================================
