---------------------------- MODULE RuleTransfer ----------------------------
(***************************************************************************)
(* The upload of rules: a host sends them frame by frame, the link may     *)
(* lose frames, and the frame handlers (min_received_cmds.cpp) collect,    *)
(* add, save, erase and load them, answering with ACK or NAK.              *)
(*                                                                         *)
(* A rule is the sequence of the chunks its DATA frames carry, a chunk     *)
(* being a record with a length, len.  The frames that arrive are a        *)
(* subsequence of those sent (OnlySentFrames of MinLink); the rules stored *)
(* are a list (RuleStore implements RuleList), and the loader's memory of  *)
(* the rule it read last (ReturnsStoredRule of RuleStore) shows when rules *)
(* are loaded again.                                                       *)
(***************************************************************************)
EXTENDS Integers, SequencesExt

CONSTANTS
  Rules,        \* what the host may upload
  Undecodable,  \* those of them that Decompile() throws on
  Garbled,      \* what is loaded when rules are read with a header of other rules
  BufferSize,   \* bytes of rule_buffer
  Capacity,     \* bytes of the region that holds the rules
  MaxRequests,  \* bound: what the host asks between two restarts
  MaxLost,      \* bound: frames lost, either way
  MaxRestarts,  \* bound: restarts
  MaxReplugs    \* bound: times the USB cable is pulled and plugged in again

Chunk == UNION {ToSet(r) : r \in Rules}

Size(chunks) == FoldLeft(LAMBDA n, c : n + c.len, 0, chunks)

\* The host sends rules of at most half the buffer, and no DATA frame without a byte.
ASSUME UploadAssumption ==
  /\ \A c \in Chunk : c.len \in Nat \ {0}
  /\ Rules \subseteq Seq(Chunk)
  /\ \A r \in Rules : r # << >> /\ 2 * Size(r) <= BufferSize
  /\ BufferSize \in Nat /\ Capacity \in Nat \ {0}
  /\ Undecodable \subseteq Rules
  /\ MaxRequests \in Nat /\ MaxLost \in Nat
  /\ MaxRestarts \in Nat /\ MaxReplugs \in Nat

VARIABLES
  sent,       \* how many requests the host has sent since it found the device's port
  wire,       \* the frames of the last of them that are on their way
  asked,      \* how many of them are answered with ACK or NAK
  acks,       \* how many answers of ACK the host has had
  receiving,  \* receiving_rule
  buffer,     \* the chunks in rule_buffer, up to rule_buffer_index
  ruleSize,   \* rule_size
  rules,      \* the rules of the store
  saved,      \* those a restart finds
  loader,     \* rule_loader_: the id read last, and whether its header is of erased rules
  loaded,     \* the rules of the engine
  mode,       \* which of main()'s loops runs: "loop", "setup" error, or "dead"
  wanted,     \* history: the rules there were then, and those saved, and what they are
              \* once all the host has sent is carried out
  amid,       \* history: the device was in the middle of receiving a rule then
  erased,     \* history: rules were erased since rules were loaded
  lost, restarts, replugs

link  == <<sent, wire, asked, acks, lost>>
transfer == <<receiving, buffer, ruleSize>>
store == <<rules, saved>>
engine == <<loader, loaded, mode, erased>>
session == <<wanted, amid>>
faults == <<restarts, replugs>>
vars == <<link, transfer, store, engine, session, faults>>

NoRule == -1   \* the loader has not read a rule
Fresh  == [id |-> NoRule, stale |-> FALSE]

-----------------------------------------------------------------------------
(* The host and the link. *)

Frames(request) ==
  IF request.op = "rule"
  THEN << [type |-> "start", size |-> Size(request.rule)] >>
         \o [i \in DOMAIN request.rule |-> [type |-> "data", chunk |-> request.rule[i]]]
         \o << [type |-> "end"] >>
  ELSE << [type |-> request.op] >>

Requests == [op : {"rule"}, rule : Rules] \cup [op : {"save", "erase", "time"}]

\* What the rules and their saved copy become when a request is carried out.
CarryOut(list, request) ==
  CASE request.op = "rule"  -> [list EXCEPT !.rules = Append(list.rules, request.rule)]
    [] request.op = "save"  -> [list EXCEPT !.saved = list.rules]
    [] request.op = "erase" -> [rules |-> << >>, saved |-> << >>]
    [] OTHER -> list

\* The host, which waits for no answer: what is on the wire arrives in order anyway.
HostSend(request) ==
  /\ wire = << >>
  /\ sent < MaxRequests
  /\ sent' = sent + 1
  /\ wire' = Frames(request)
  /\ asked' = IF request.op = "time" THEN asked ELSE asked + 1
  /\ wanted' = CarryOut(wanted, request)
  /\ UNCHANGED <<acks, lost, transfer, store, engine, amid, faults>>

LoseFrame ==
  /\ wire # << >>
  /\ lost < MaxLost
  /\ lost' = lost + 1
  /\ wire' = Tail(wire)
  /\ UNCHANGED <<sent, asked, acks, transfer, store, engine, session, faults>>

NoReply == UNCHANGED <<acks, lost>>

\* report_response_ack(): a byte of it may be dropped by serial_isend().
Ack ==
  \/ acks' = acks + 1 /\ UNCHANGED lost
  \/ lost < MaxLost /\ lost' = lost + 1 /\ UNCHANGED acks

\* report_response_nak(), which may be lost as well: an ACK is missing in any case.
Nak == NoReply

\* min_frame_received(): poll_rx_bytes() runs in the loop and after an error in setup.
Receive(type) ==
  /\ mode # "dead"
  /\ wire # << >> /\ Head(wire).type = type
  /\ wire' = Tail(wire)
  /\ UNCHANGED <<sent, asked, session, faults>>

-----------------------------------------------------------------------------
(* The transfer of a rule. *)

HandleStartAppending ==  \* mutant: rule_buffer_index is not reset
  /\ Receive("start")
  /\ ruleSize' = Head(wire).size
  /\ receiving' = TRUE
  /\ NoReply /\ UNCHANGED <<buffer, store, engine>>

HandleStart ==
  /\ Receive("start")
  /\ ruleSize' = Head(wire).size
  /\ buffer' = << >>
  /\ receiving' = TRUE
  /\ NoReply /\ UNCHANGED <<store, engine>>

HandleDataAlways ==  \* mutant: data is copied outside a transfer too
  /\ Receive("data")
  /\ buffer' = Append(buffer, Head(wire).chunk)
  /\ NoReply /\ UNCHANGED <<receiving, ruleSize, store, engine>>

HandleData ==
  /\ Receive("data")
  /\ buffer' = IF receiving THEN Append(buffer, Head(wire).chunk) ELSE buffer
  /\ NoReply /\ UNCHANGED <<receiving, ruleSize, store, engine>>

\* new_rule_nvm_address_: after the count and every rule with its length byte.
Used(list) == FoldLeft(LAMBDA n, r : n + (1 + Size(r)), 1, list)

FitsButOne(r) == Used(rules) + Size(r) <= Capacity  \* mutant: forgets the length byte
Fits(r) == Used(rules) + 1 + Size(r) <= Capacity

CompleteAny == receiving  \* mutant: the size that START announced is not looked at
Complete == receiving /\ Size(buffer) = ruleSize

\* END of a rule that came whole and fits is the one way a rule is added.
HandleEnd ==
  /\ Receive("end")
  /\ receiving' = FALSE
  /\ IF Complete /\ Fits(buffer)
     THEN rules' = Append(rules, buffer) /\ Ack
     ELSE UNCHANGED rules /\ Nak
  /\ UNCHANGED <<buffer, ruleSize, saved, engine>>

-----------------------------------------------------------------------------
(* Loading what is stored. *)

\* getRuleInfo(0) takes the loader's header without looking if 0 is what it read last.
StaleRead == rules # << >> /\ loader.id = 0 /\ loader.stale

Decodes(r) == r \in Rules \ Undecodable
Throws(list) == \E i \in DOMAIN list : ~Decodes(list[i])
Sound(list) == \A i \in DOMAIN list : list[i] \notin Undecodable

\* loadFromEeprom(), when it returns.  A walk with a wrong header may end on an
\* erased byte, after which the loader starts again from the first rule.
Reload ==
  /\ loaded' \in (IF Sound(rules) THEN {rules} ELSE {}) \cup (IF StaleRead THEN {Garbled} ELSE {})
  /\ IF rules = << >> THEN UNCHANGED loader
     ELSE \E stale \in IF StaleRead THEN BOOLEAN ELSE {FALSE} :
            loader' = [id |-> Len(rules) - 1, stale |-> stale]
  /\ erased' = FALSE
  /\ mode' = mode

\* loadFromEeprom() when Decompile() throws, to the end of main().
ReloadThrows ==
  /\ StaleRead \/ Throws(rules)
  /\ mode' = "dead"
  /\ UNCHANGED <<loader, loaded, erased>>

\* In setup's error loop there is no rule runner to ask: its instance throws.
NoRunner ==
  /\ mode = "setup"
  /\ mode' = "dead"
  /\ UNCHANGED <<loader, loaded, erased>>

SaveOnly ==  \* mutant: the rules that run stay what they were
  /\ Receive("save")
  /\ \/ receiving /\ Nak /\ UNCHANGED saved
     \/ ~receiving /\ mode = "loop" /\ saved' = rules /\ Ack
  /\ UNCHANGED <<transfer, rules, engine>>

\* The count is saved before the rules are loaded.
HandleSave ==
  /\ Receive("save")
  /\ \/ /\ receiving
        /\ Nak
        /\ UNCHANGED <<saved, engine>>
     \/ /\ ~receiving
        /\ saved' = rules
        /\ \/ mode = "loop" /\ Reload /\ Ack
           \/ mode = "loop" /\ ReloadThrows /\ NoReply
           \/ NoRunner /\ NoReply
  /\ UNCHANGED <<transfer, rules>>

\* clearRules() writes nothing if there is no rule.
HandleErase ==
  /\ Receive("erase")
  /\ rules' = << >>
  /\ saved' = IF rules = << >> THEN saved ELSE << >>
  /\ loader' = [loader EXCEPT !.stale = loader.stale \/ (rules # << >> /\ loader.id # NoRule)]
  /\ erased' = TRUE
  /\ Ack
  /\ UNCHANGED <<transfer, loaded, mode>>

\* The rules are loaded again, saved or not; no answer is sent.
HandleTime ==
  /\ Receive("time")
  /\ \/ mode = "loop" /\ (Reload \/ ReloadThrows)
     \/ NoRunner
  /\ NoReply /\ UNCHANGED <<transfer, store>>

-----------------------------------------------------------------------------
\* The host's port is gone: what is on its way is lost, and it starts anew.
NewSession == sent' = 0 /\ wire' = << >> /\ asked' = 0 /\ acks' = 0

\* The cable is pulled and plugged in again: init_min() resets the FIFOs and layer 1.
\* That a rule is being received is not forgotten.
Replug ==
  /\ replugs < MaxReplugs
  /\ replugs' = replugs + 1
  /\ NewSession
  /\ wanted' = [rules |-> rules, saved |-> saved] /\ amid' = receiving
  /\ UNCHANGED <<lost, transfer, store, engine, restarts>>

\* The processor restarts: init() loads what was saved, with a new loader.
Restart ==
  /\ restarts < MaxRestarts
  /\ restarts' = restarts + 1
  /\ NewSession
  /\ receiving' = FALSE /\ buffer' = << >> /\ ruleSize' = 0
  /\ rules' = saved
  /\ wanted' = [rules |-> saved, saved |-> saved] /\ amid' = FALSE
  /\ \/ /\ Sound(saved)
        /\ mode' = "loop"
        /\ loaded' = saved
        /\ loader' = [id |-> Len(saved) - 1, stale |-> FALSE]
     \/ /\ Throws(saved)
        /\ mode' = "setup"
        /\ loaded' = << >>
        /\ \E i \in DOMAIN saved : ~Decodes(saved[i]) /\ loader' = [id |-> i - 1, stale |-> FALSE]
  /\ erased' = FALSE
  /\ UNCHANGED <<saved, lost, replugs>>

Init ==
  /\ sent = 0 /\ wire = << >> /\ asked = 0 /\ acks = 0
  /\ receiving = FALSE /\ buffer = << >> /\ ruleSize = 0
  /\ rules = << >> /\ saved = << >>
  /\ wanted = [rules |-> << >>, saved |-> << >>] /\ amid = FALSE
  /\ loader = Fresh /\ loaded = << >> /\ mode = "loop" /\ erased = FALSE
  /\ lost = 0 /\ restarts = 0 /\ replugs = 0

Handle == \/ HandleStart \/ HandleData \/ HandleEnd
          \/ HandleSave \/ HandleErase \/ HandleTime

Next ==
  \/ \E request \in Requests : HostSend(request)
  \/ LoseFrame
  \/ Handle
  \/ Replug
  \/ Restart

Spec == Init /\ [][Next]_vars
-----------------------------------------------------------------------------
TypeOK ==
  /\ sent \in 0 .. MaxRequests /\ asked \in 0 .. sent /\ acks \in 0 .. asked
  /\ receiving \in BOOLEAN
  /\ buffer \in Seq(Chunk)
  /\ ruleSize \in 0 .. BufferSize
  /\ rules \in Seq(Seq(Chunk)) /\ saved \in Seq(Seq(Chunk))
  /\ wanted \in [rules : Seq(Seq(Chunk)), saved : Seq(Seq(Chunk))] /\ amid \in BOOLEAN
  /\ Used(rules) <= Capacity
  /\ loader.id \in NoRule .. Capacity /\ loader.stale \in BOOLEAN
  /\ loaded = Garbled \/ loaded \in Seq(Seq(Chunk))
  /\ mode \in {"loop", "setup", "dead"}
  /\ erased \in BOOLEAN
  /\ lost \in 0 .. MaxLost /\ restarts \in 0 .. MaxRestarts
  /\ replugs \in 0 .. MaxReplugs

\* A host that has had an ACK for each of its requests knows that all were
\* carried out, in order and with every byte, although an answer does not say
\* what it answers and any frame or answer may be lost.  But for a host that finds
\* the device amid a rule: if frames are lost its rule may end the one begun before.
AckedMeansDone ==
  (acks = asked /\ (amid => lost = 0)) =>
    rules = wanted.rules /\ saved = wanted.saved

\* No rule is put together from two: what is stored is what was sent, unless
\* more than two frames are lost, or one and the rest of a rule with a cable that
\* is pulled.  (The end of one rule and the start of the next may then be among
\* them, and the size agree.)
StoredWasSent ==
  (lost <= 2 /\ (replugs > 0 => lost = 0)) => ToSet(rules) \cup ToSet(saved) \subseteq Rules

\* DATA frames are copied to rule_buffer without a bound: they stay inside while
\* rules take at most half of it and no more than three times a frame is lost or the
\* cable is pulled.  (A rule is added to what came before it if its START is lost
\* after a rule that lost its END or was cut off by the cable: twice, it takes four.)
BufferHolds == lost + replugs <= 3 => Size(buffer) <= BufferSize

\* The rules that run are rules of the store, in its order, and all that a
\* restart would bring: until the rules are erased (ERASE does not stop them),
\* or were read with the header of erased ones.
RunsStoredRules ==
  (mode = "loop" /\ ~erased /\ loaded # Garbled) =>
    IsPrefix(saved, loaded) /\ IsPrefix(loaded, rules)
=============================================================================
