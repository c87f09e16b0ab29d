------------------------------- MODULE TdlEngine -------------------------------
(***************************************************************************)
(* The rules of the timer description language: TdlRule, its TdlAction and *)
(* TdlActivator, and the passes TdlRuleRunner makes over all of them.  A   *)
(* rule keeps its own time incrementally, period by period; its action     *)
(* switches a channel, or enables another rule and runs it at once.        *)
(*                                                                         *)
(* A pass is one step (nothing interrupts it that changes a rule), computed *)
(* by operators that take the state of the engine and return the next.     *)
(***************************************************************************)
EXTENDS Integers, SequencesExt

CONSTANTS
  Programs,    \* sets of rules that may be in EEPROM, each a function from rule ids
  Channel,     \* ids of channels
  Memory,      \* what the state_ of an action may be before anything assigns it
  MaxTime,     \* the clock is followed up to this second
  MaxEvents, MaxLoads   \* bounds on triggered events and on loads of the rules

\* DateTime is an unsigned count of seconds that wraps; its largest value is EMPTY_TIME.
Width    == 256
Empty    == Width - 1
Infinite == 0              \* the period of a rule that never repeats
Time     == 0 .. MaxTime
Plus(t, d)  == (t + d) % Width
Minus(t, u) == LET d == (t - u) % Width IN IF d < Width \div 2 THEN d ELSE d - Width

ASSUME ProgramsAssumption ==
  \A program \in Programs : \A i \in DOMAIN program :
    LET r == program[i] IN
    /\ r.period \in Nat /\ r.unit \in Nat \ {0} /\ r.delay \in Nat
    /\ r.first \in Time \cup {Empty}
    /\ r.id \in IF r.target = "rule" THEN DOMAIN program \ {i} ELSE Channel

VARIABLES
  rules,       \* the loaded rules: what each was decompiled to
  st,          \* what the rules, their actions and the channels keep: see TypeOK; st.since
               \* is a history of ours: when a rule began to keep its present time
  phase,       \* where TdlRuleRunner and the handlers that drive it are
  current, nextUpdate,   \* time of the last pass, next_update_time_
  event,       \* time of the unprocessed event, Empty if there is none
  lastEvent,   \* time of the last event that was processed
  events, loads,
  left         \* history: channels on when the rules were loaded, and ever since
vars == <<rules, st, phase, current, nextUpdate, event, lastEvent, events, loads, left>>

RuleIds == DOMAIN rules
Ascending  == [k \in 1 .. Cardinality(RuleIds) |-> k - 1]   \* the order of stepTo() and reset
Descending == Reverse(Ascending)                          \* the order of update()
Targets(r, i) == rules[r].target = "rule" /\ rules[r].id = i

-----------------------------------------------------------------------------
(* Time keeping of one rule: start_of_current_period_ and what follows from it. *)

\* The intervals that hold t, of the period that starts at start.
Holding(i, start, t) ==
  {n \in DOMAIN rules[i].intervals :
     /\ start # Empty
     /\ t >= Plus(start, rules[i].intervals[n][1])
     /\ t < Plus(start, rules[i].intervals[n][2])}

FloorBefore(i, now) ==  \* mutant: one unit too early
  now - (now % rules[i].unit) - rules[i].unit

\* A finite period starts where its longest field last turned over; an infinite one now.
Floor(i, now) ==
  IF rules[i].period = Infinite THEN now ELSE now - (now % rules[i].unit)

EventStart(i) == IF event = Empty THEN Empty ELSE Plus(event, rules[i].delay)

EndOfPeriod(i, start) ==
  IF start = Empty \/ rules[i].period = Infinite THEN Empty ELSE Plus(start, rules[i].period)

\* updateInitialStartOfCurrentPeriod(): never asks whether that period is over.
InitialStart(i, now) ==
  IF rules[i].first # Empty THEN rules[i].first
  ELSE IF rules[i].event THEN EventStart(i)
  ELSE Floor(i, now)

AdvanceOnce(i, start, now) ==  \* mutant: one period at a time
  IF now >= EndOfPeriod(i, start) THEN EndOfPeriod(i, start) ELSE start

\* The periods that are over by now, one after the other.
RECURSIVE Advance(_, _, _)
Advance(i, start, now) ==
  IF now >= EndOfPeriod(i, start) THEN Advance(i, EndOfPeriod(i, start), now) ELSE start

\* updateInternalTimeKeepingVariables() of a rule that has a period.
NextStart(i, start, now) ==
  LET s == IF rules[i].event /\ event # Empty THEN EventStart(i) ELSE start
  IN IF now < s \/ (rules[i].first # Empty /\ now < rules[i].first) THEN s
     ELSE Advance(i, s, now)

-----------------------------------------------------------------------------
(* Actions, activators and TdlRule::update(): they call each other. *)

Set(s, field, i, v) == [s EXCEPT ![field][i] = v]

RECURSIVE Update(_, _, _), UpdateParents(_, _, _), UpdateThis(_, _, _), Activate(_, _, _, _),
          ActionStart(_, _, _), ActionStop(_, _, _)

ActivateWithoutStop(s, i, on, now) ==  \* mutant: disable() leaves the action as it is
  LET j == rules[i].id
      enabled == Set(Set(s, "enabled", j, TRUE), "start", j, Empty)
  IN IF rules[i].target = "channel" THEN Set(s, "chan", j, on)
     ELSE IF on THEN UpdateThis(UpdateParents(enabled, j, now), j, now)
     ELSE Set(s, "enabled", j, FALSE)

\* enable() and disable() of the activator of rule i.
Activate(s, i, on, now) ==
  LET j == rules[i].id
      enabled == Set(Set(s, "enabled", j, TRUE), "start", j, Empty)
  IN IF rules[i].target = "channel" THEN Set(s, "chan", j, on)
     ELSE IF on THEN UpdateThis(UpdateParents(enabled, j, now), j, now)
     ELSE ActionStop(Set(s, "enabled", j, FALSE), j, Empty)

ActionStart(s, i, now) ==
  IF s.act[i] = "active" THEN s
  ELSE Activate(Set(s, "act", i, "active"), i, rules[i].whenRunning, now)

ActionStop(s, i, now) ==
  IF s.act[i] = "inactive" THEN s
  ELSE Activate(Set(s, "act", i, "inactive"), i, ~rules[i].whenRunning, now)

Update(s, i, now) ==
  IF s.enabled[i] /\ ~s.hasRun[i]
  THEN UpdateThis(UpdateParents(s, i, now), i, now)
  ELSE s

\* The rules whose action targets rule i run before it, unless they have run.
UpdateParents(s, i, now) ==
  FoldLeft(LAMBDA x, k : IF Targets(k, i) THEN Update(x, k, now) ELSE x, s, Ascending)

\* updateThisRuleOnly(): the action comes before the note that the rule has run.
UpdateThis(s, i, now) ==
  LET initial == s.start[i] = Empty
      start == IF initial THEN InitialStart(i, now) ELSE NextStart(i, s.start[i], now)
      timed == Set(Set(s, "start", i, start), "since", i, IF initial THEN now ELSE s.since[i])
      quiet == IF rules[i].first # Empty /\ (initial \/ now < rules[i].first)
               THEN ActionStop(timed, i, IF initial THEN Empty ELSE now) ELSE timed
      acted == IF Holding(i, quiet.start[i], now) # {} THEN ActionStart(quiet, i, now)
               ELSE ActionStop(quiet, i, now)
  IN Set(Set(acted, "last", i, now), "hasRun", i, TRUE)

-----------------------------------------------------------------------------
(* When a rule will next change: getNextStateChangeTimeNoEvents(), which is all there is  *)
(* after a pass, when no event is left unprocessed.                                       *)

\* getNextInterval(): the distance to the soonest interval start still ahead of the pass.
Ahead(s, i) ==
  {Minus(Plus(s.start[i], rules[i].intervals[n][1]), s.last[i]) : n \in DOMAIN rules[i].intervals}
    \cap (1 .. Width \div 2 - 2)

NextChangeUncapped(s, i) ==  \* mutant: an interval may outlast its period
  LET held == Holding(i, s.start[i], s.last[i])
  IN IF held # {} THEN Plus(s.start[i], rules[i].intervals[Min(held)][2])
     ELSE IF s.start[i] # Empty /\ Ahead(s, i) # {} THEN Plus(s.last[i], Min(Ahead(s, i)))
     ELSE EndOfPeriod(i, s.start[i])

NextChange(s, i) ==
  LET end  == EndOfPeriod(i, s.start[i])
      held == Holding(i, s.start[i], s.last[i])
  IN IF rules[i].intervals = <<>> THEN Empty
     ELSE IF held # {} THEN Min({Plus(s.start[i], rules[i].intervals[Min(held)][2]), end})
     ELSE IF s.start[i] # Empty /\ Ahead(s, i) # {}
     THEN Min({Plus(s.last[i], Min(Ahead(s, i))), end})
     ELSE end

\* findOverallNextStateChangeTime()
OverallNext(s) ==
  Min({Empty} \cup {NextChange(s, i) : i \in {j \in RuleIds : s.enabled[j]}})

-----------------------------------------------------------------------------
(* Passes over all the rules. *)

StillRun(s) == s  \* mutant: nobody forgets the last pass

NotRun(s) == [s EXCEPT !.hasRun = [i \in RuleIds |-> FALSE]]
Pass(s, order, now) ==
  FoldLeft(LAMBDA x, i : Update(x, i, now), NotRun(s), order)

\* reset(): the action's stop comes between the two halves.
Reset(s, i) ==
  LET stopped == ActionStop(Set(s, "start", i, Empty), i, Empty)
  IN Set(Set(stopped, "enabled", i, rules[i].onStart), "hasRun", i, FALSE)

ResetAll(s) == FoldLeft(Reset, s, Ascending)
ResetChannels(s) == [s EXCEPT !.chan = [c \in Channel |-> FALSE]]

StartedOnce(s, now) == Pass(ResetAll(s), Ascending, now)  \* mutant: without update()

\* The first pass of a start, stepTo(), and the second, update().
Started(s, now) == Pass(Pass(ResetAll(s), Ascending, now), Descending, now)

-----------------------------------------------------------------------------
(* What drives the engine. *)

\* Decompile() of each rule of a program into place: the constructor assigns neither
\* the state of the action nor has_been_run_this_step_.
Loaded(program, chan) ==
  {[enabled |-> [i \in DOMAIN program |-> program[i].onStart],
    start |-> [i \in DOMAIN program |-> Empty], last |-> [i \in DOMAIN program |-> Empty],
    since |-> [i \in DOMAIN program |-> Empty],
    act |-> act, hasRun |-> hasRun, chan |-> chan] :
   act \in [DOMAIN program -> Memory], hasRun \in [DOMAIN program -> BOOLEAN]}

StillOn == left' = {c \in left : st'.chan[c]}

AllOff == [c \in Channel |-> FALSE]

Load(chan) ==
  /\ loads < MaxLoads
  /\ loads' = loads + 1
  /\ rules' \in Programs
  /\ st' \in Loaded(rules', chan)
  /\ phase' = "loaded"
  /\ current' = 0 /\ nextUpdate' = 0    \* not read again before Start assigns them
  /\ left' = {c \in Channel : chan[c]}
  /\ UNCHANGED <<event, lastEvent, events>>

StopQuietly ==  \* mutant: the rules are stopped before the channels are reset
  /\ phase = "running" /\ loads < MaxLoads
  /\ st' = ResetChannels(ResetAll(st))
  /\ phase' = "stopped"
  /\ StillOn
  /\ UNCHANGED <<rules, current, nextUpdate, event, lastEvent, events, loads>>

\* SAVE_RULES: the channels are reset, then the rules, which may switch them again.
Stop ==
  /\ phase = "running" /\ loads < MaxLoads
  /\ st' = ResetAll(ResetChannels(st))
  /\ phase' = "stopped"
  /\ StillOn
  /\ UNCHANGED <<rules, current, nextUpdate, event, lastEvent, events, loads>>

ReloadStopped == phase = "stopped" /\ Load(st.chan)

\* SET_RTC_TIME: the rules are loaded over rules that run.
ReloadRunning == phase = "running" /\ Load(AllOff)

\* setCurrentEventAsProcessed(), if there is one.
Processed ==
  /\ lastEvent' = IF event = Empty THEN lastEvent ELSE event
  /\ event' = Empty

Start(now) ==
  /\ phase = "loaded"
  /\ st' = Started(st, now)
  /\ nextUpdate' = OverallNext(st')
  /\ current' = now
  /\ Processed
  /\ phase' = "running"
  /\ StillOn
  /\ UNCHANGED <<rules, events, loads>>

\* update(), when its time has come or there is an event; it may come late.
RunPass(now) ==
  /\ phase = "running"
  /\ now >= current
  /\ now >= nextUpdate \/ event # Empty
  /\ event = Empty \/ event <= now
  /\ st' = Pass(st, Descending, now)
  /\ nextUpdate' = OverallNext(st')
  /\ current' = now
  /\ Processed
  /\ StillOn
  /\ UNCHANGED <<rules, phase, events, loads>>

TriggerEvent(t) ==
  /\ phase = "running" /\ events < MaxEvents
  /\ t >= current
  /\ event' = t
  /\ events' = events + 1
  /\ UNCHANGED <<rules, st, phase, current, nextUpdate, lastEvent, loads, left>>

Init ==
  /\ rules \in Programs
  /\ st \in Loaded(rules, AllOff)
  /\ phase = "loaded"
  /\ current = 0 /\ nextUpdate = 0 /\ event = Empty /\ lastEvent = Empty
  /\ events = 0 /\ loads = 0 /\ left = {}

Next ==
  \/ Stop \/ ReloadStopped \/ ReloadRunning
  \/ \E t \in Time : Start(t) \/ RunPass(t) \/ TriggerEvent(t)

Spec == Init /\ [][Next]_vars

-----------------------------------------------------------------------------
TypeOK ==
  /\ rules \in Programs
  /\ st.enabled \in [RuleIds -> BOOLEAN] /\ st.hasRun \in [RuleIds -> BOOLEAN]
  /\ st.act \in [RuleIds -> Memory \cup {"active", "inactive"}]
  /\ \A i \in RuleIds : {st.start[i], st.last[i], st.since[i]} \subseteq 0 .. Empty
  /\ st.chan \in [Channel -> BOOLEAN]
  /\ left \subseteq Channel
  /\ phase \in {"loaded", "running", "stopped"}
  /\ current \in Time /\ nextUpdate \in 0 .. Empty /\ {event, lastEvent} \subseteq Time \cup {Empty}

\* What a rule that keeps time since s asks for at t: its periods follow one another from
\* the first, the one an event started if it is started by events, and an interval holds
\* the phase of t in its period.
Asks(i, s, t) ==
  LET origin == IF rules[i].first # Empty THEN rules[i].first
                ELSE IF rules[i].event THEN Plus(lastEvent, rules[i].delay) ELSE Floor(i, s)
      phaseOf == IF rules[i].period = Infinite THEN t - origin
                 ELSE (t - origin) % rules[i].period
  IN /\ t >= origin
     /\ ~(rules[i].event /\ st.start[i] = Empty)    \* it has seen its event
     /\ \E n \in DOMAIN rules[i].intervals :
          rules[i].intervals[n][1] <= phaseOf /\ phaseOf < rules[i].intervals[n][2]

Enabled == {i \in RuleIds : st.enabled[i]}

\* Rules whose first period was over when another rule enabled them in this pass: they are
\* not brought to the present before the next one, and what they ask for next is past.
Belated ==
  {i \in Enabled : /\ \E k \in RuleIds : Targets(k, i)
                   /\ rules[i].first # Empty /\ st.since[i] = current
                   /\ EndOfPeriod(i, st.start[i]) <= current}

\* After a pass every enabled rule is active exactly when its definition says so, however
\* many periods went by since the last pass and however it came to be enabled.
ActiveAsDefined ==
  phase = "running" =>
    \A i \in Enabled \ Belated : (st.act[i] = "active") = Asks(i, st.since[i], current)

\* The next update is not too late: until then no enabled rule asks for a change, unless
\* an event happens.
NoMissedChange ==
  phase = "running" =>
    \A t \in Time, i \in Enabled :
      current < t /\ t < nextUpdate => Asks(i, st.since[i], t) = Asks(i, st.since[i], current)

\* No event is used up without effect: every enabled rule that waits for events has its
\* first period start with the last one that was processed since it was loaded.
EventsTakeEffect ==
  [][phase = "running" /\ phase' = "running" /\ event # Empty /\ event' = Empty =>
       \A i \in RuleIds : rules[i].event /\ st'.enabled[i] => st'.start[i] # Empty]_vars

\* The next update is ahead of the pass that computed it, so that the alarm can be set
\* for it; but for a belated rule, with which the alarm is set for an instant that is over.
NextUpdateAhead == phase = "running" => nextUpdate > current \/ Belated # {}

\* A rule that another rule disabled is not active: nothing would ever end it.
DisabledIsInactive ==
  phase = "running" => \A i \in RuleIds : ~st.enabled[i] => st.act[i] = "inactive"

\* Nor is a channel left on by a disabled rule: a channel that one rule drives is in the
\* state the rule's action calls for, but for one that was on when the rules were loaded
\* (OnWhenStopped) and no rule has switched off yet.  A rule that inverts its channel
\* holds it off while active; it switches it on only when it ceases to be active.
OutputsFollowRules ==
  /\ DisabledIsInactive
  /\ phase = "running" =>
       \A i \in RuleIds :
         rules[i].target = "channel" =>
           LET on == st.chan[rules[i].id]
           IN /\ st.act[i] = "active" => on = rules[i].whenRunning
              /\ rules[i].whenRunning /\ on => st.act[i] = "active" \/ rules[i].id \in left

\* The channels that are on while no rules run are those of rules that invert theirs and
\* were active when the rules were stopped: their stop comes after the channels' reset.
OnWhenStopped ==
  [][phase = "running" /\ phase' = "stopped" =>
       \A c \in Channel :
         st'.chan[c] = \E i \in RuleIds :
                         /\ rules[i].target = "channel" /\ rules[i].id = c
                         /\ ~rules[i].whenRunning /\ st.act[i] = "active"]_vars
=============================================================================
