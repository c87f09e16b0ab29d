------------------------------- MODULE RuleStore -------------------------------
(***************************************************************************)
(* NvmRuleManager and its NvmRuleLoader on top of the EEPROM driver.  The  *)
(* store is a count byte followed by the rules, each a length byte and its *)
(* data.  Every operation is the sequence of driver calls the code makes,  *)
(* with the memory it keeps in RAM changed where the code changes it.      *)
(***************************************************************************)
EXTENDS EepromDriver

CONSTANTS
  Rules,       \* the data of the rules that are uploaded
  MaxRules,    \* bound on the rules uploaded between two clearings (MAX_RULES)
  MaxRestarts  \* bound on losses of power

CountAddress == 0
FirstRule    == 1
EndAddress   == Rows * RowSize

\* A rule has at least its header; a count that is saved does not read as erased.
ASSUME RulesAssumption ==
  /\ Byte \subseteq 0 .. 255
  /\ \A r \in Rules : r \in Seq(Byte) /\ Len(r) \in Byte \ {0, Erased}
  /\ MaxRules \in Nat /\ 0 .. MaxRules \subseteq Byte \ {Erased}
  /\ FirstRule < EndAddress
  /\ MaxRestarts \in Nat

VARIABLES
  count,     \* rule_count_
  newAddr,   \* new_rule_nvm_address_
  loader,    \* rule_loader_: the rule last read
  doing,     \* the operation in progress and the driver call it makes next
  answer,    \* what the last getRuleData() returned, None after another operation
  cleared,   \* history: the rules were cleared since the loader last walked the list
  restarts

managerVars == <<count, newAddr, loader, doing, answer, cleared>>
vars == <<driverVars, managerVars, restarts>>

NoLoader == [initialised |-> FALSE, id |-> 0, addr |-> FirstRule, len |-> 0]
NoOp     == [op |-> "none"]

-----------------------------------------------------------------------------
(* NvmRuleLoader *)

\* readHeaderFromNvm() for the rule at a: an erased length byte is no rule.
Header(mem, id, a) == [initialised |-> mem[a] # Erased, id |-> id, addr |-> a, len |-> mem[a]]

NextAddress(l) == l.addr + l.len + 1
NextRuleSameId(mem, l) == Header(mem, l.id, NextAddress(l))  \* mutant: keeps the id
NextRule(mem, l) == Header(mem, l.id + 1, NextAddress(l))

\* getRule(): from the start of the list, stopping at a length byte that is erased.
GetRule(mem, id) ==
  LET walk[k \in 0 .. id] ==
        IF k = 0 THEN Header(mem, 0, FirstRule)
        ELSE IF walk[k - 1].initialised THEN NextRule(mem, walk[k - 1]) ELSE walk[k - 1]
  IN walk[id]

Data(mem, l) == [i \in 1 .. l.len |-> mem[l.addr + i]]

-----------------------------------------------------------------------------
Ready == doing = NoOp /\ call = Idle

\* addNewRule(): the length byte, the data, flush(), and only then the count in RAM.
\* It throws, changing nothing, when the rule does not fit in the region.
AddNewRule(r) ==
  /\ Ready
  /\ count < MaxRules       \* the code does not check it: the host's duty
  /\ newAddr + 1 + Len(r) <= EndAddress
  /\ Fits(newAddr + 1, r)   \* the driver corrupts the row otherwise: see EepromClient
  /\ Write(newAddr, <<Len(r)>>)
  /\ doing' = [op |-> "add", rule |-> r, next |-> "data"]
  /\ answer' = None
  /\ UNCHANGED <<count, newAddr, loader, cleared>>

AddData ==
  /\ doing.op = "add" /\ doing.next = "data" /\ call = Idle
  /\ Write(newAddr + 1, doing.rule)
  /\ doing' = [doing EXCEPT !.next = "flush"]
  /\ UNCHANGED <<count, newAddr, loader, answer, cleared>>

AddedWide ==  \* mutant: counts the length byte twice
  /\ doing.op = "add" /\ doing.next = "done" /\ call = Idle
  /\ count' = (count + 1) % 256
  /\ newAddr' = newAddr + Len(doing.rule) + 2
  /\ doing' = NoOp
  /\ UNCHANGED <<driverVars, loader, answer, cleared>>

Added ==
  /\ doing.op = "add" /\ doing.next = "done" /\ call = Idle
  /\ count' = (count + 1) % 256
  /\ newAddr' = newAddr + Len(doing.rule) + 1
  /\ doing' = NoOp
  /\ UNCHANGED <<driverVars, loader, answer, cleared>>

SaveRuleCount ==
  /\ Ready
  /\ Write(CountAddress, <<count>>)
  /\ doing' = [op |-> "save", next |-> "flush"]
  /\ answer' = None
  /\ UNCHANGED <<count, newAddr, loader, cleared>>

ClearKeepingCount ==  \* mutant: leaves the count in flash to the next save
  /\ Ready /\ count # 0
  /\ count' = 0
  /\ newAddr' = FirstRule
  /\ answer' = None
  /\ cleared' = TRUE
  /\ UNCHANGED <<driverVars, loader, doing>>

\* clearRules(): nothing to do without rules; the loader is left alone.
ClearRules ==
  /\ Ready /\ count # 0
  /\ count' = 0
  /\ Write(CountAddress, <<0>>)
  /\ doing' = [op |-> "clear", next |-> "flush"]
  /\ answer' = None
  /\ cleared' = TRUE
  /\ UNCHANGED <<newAddr, loader>>

DoFlush ==
  /\ doing # NoOp /\ doing.next = "flush" /\ call = Idle
  /\ Flush
  /\ doing' = [doing EXCEPT !.next = "done"]
  /\ UNCHANGED <<count, newAddr, loader, answer, cleared>>

Saved ==
  /\ doing.op = "save" /\ doing.next = "done" /\ call = Idle
  /\ doing' = NoOp
  /\ UNCHANGED <<driverVars, count, newAddr, loader, answer, cleared>>

Cleared ==
  /\ doing.op = "clear" /\ doing.next = "done" /\ call = Idle
  /\ newAddr' = FirstRule
  /\ doing' = NoOp
  /\ UNCHANGED <<driverVars, count, loader, answer, cleared>>

\* getRuleInfo(): the rule last read, or the one after it, is not searched for again.
Load(id) ==
  IF loader.initialised /\ id = loader.id THEN loader
  ELSE IF loader.initialised /\ id = loader.id + 1 THEN NextRule(nvm, loader)
  ELSE GetRule(nvm, id)

\* getRuleData().  Every operation flushes, so its reads find the buffer clean; beyond the
\* region they throw.
GetRuleData(id) ==
  /\ Ready /\ id < count
  /\ loader.initialised => NextAddress(loader) \in Addr
  /\ loader' = Load(id)
  /\ loader'.addr + loader'.len \in Addr
  /\ answer' = [id |-> id, data |-> Data(nvm, loader')]
  /\ cleared' = (cleared /\ loader.initialised /\ id \in {loader.id, loader.id + 1})
  /\ UNCHANGED <<driverVars, count, newAddr, doing>>

-----------------------------------------------------------------------------
\* The constructor: the count, then a walk over the rules to the end of the last one.
StartNoWalk(mem) ==  \* mutant: takes the first free address to be the first address
  /\ count' = IF mem[CountAddress] = Erased THEN 0 ELSE mem[CountAddress]
  /\ newAddr' = FirstRule
  /\ loader' = NoLoader /\ doing' = NoOp /\ answer' = None /\ cleared' = FALSE

Start(mem) ==
  /\ count' = IF mem[CountAddress] = Erased THEN 0 ELSE mem[CountAddress]
  /\ newAddr' = IF count' = 0 THEN FirstRule ELSE NextAddress(GetRule(mem, count' - 1))
  /\ loader' = NoLoader /\ doing' = NoOp /\ answer' = None /\ cleared' = FALSE

Restart ==
  /\ restarts < MaxRestarts
  /\ restarts' = restarts + 1
  /\ ~Flushing   \* a row torn by the failure is EepromClient's subject
  /\ PowerFail
  /\ Start(nvm)

Init ==
  /\ nvm = [a \in Addr |-> Erased] /\ DriverInit
  /\ count = 0 /\ newAddr = FirstRule /\ loader = NoLoader /\ doing = NoOp
  /\ answer = None /\ cleared = FALSE /\ restarts = 0

Operation ==
  \/ \E r \in Rules : AddNewRule(r)
  \/ AddData \/ Added
  \/ SaveRuleCount \/ Saved
  \/ ClearRules \/ Cleared
  \/ DoFlush
  \/ \E id \in 0 .. EndAddress : GetRuleData(id)

Next ==
  \/ Operation /\ UNCHANGED restarts
  \/ DriverStep /\ UNCHANGED <<managerVars, restarts>>
  \/ Restart

Spec == Init /\ [][Next]_vars

-----------------------------------------------------------------------------
RulesIn(mem, n) == [i \in 1 .. n |-> Data(mem, GetRule(mem, i - 1))]

\* What a restart would find: a row being saved counts as saved from the erase on.
Durable == IF Flushing THEN Content ELSE nvm
DurableCount == IF Durable[CountAddress] = Erased THEN 0 ELSE Durable[CountAddress]

TypeOK ==
  /\ nvm \in [Addr -> Byte] /\ buffer \in [Index -> Byte]
  /\ row \in Row \cup {None} /\ dirty \in BOOLEAN /\ page \in 0 .. Pages
  /\ count \in Byte \ {Erased}
  /\ newAddr \in FirstRule .. EndAddress
  /\ loader \in [initialised : BOOLEAN, id : 0 .. EndAddress, addr : Addr, len : Byte]
  /\ cleared \in BOOLEAN
  /\ restarts \in 0 .. MaxRestarts

\* The rules are the list of NvmRuleManager.h: only appended to or cleared, saved by
\* saveRuleCountToNvm() and, when power fails between two rows, back as last saved,
\* whatever additions and clearings were under way.
List == INSTANCE RuleList WITH
  rules <- RulesIn(Content, count), saved <- RulesIn(Durable, DurableCount)

ImplementsList == List!Spec

\* The first free address, kept up to date in RAM, is where the walk over the rules in
\* flash ends: a rule added after a restart or a clearing never lands on another.
NewRuleAfterLast ==
  doing = NoOp =>
    newAddr = IF count = 0 THEN FirstRule ELSE NextAddress(GetRule(Content, count - 1))

\* The link kept to the rule last read agrees with the flash while rules are appended and
\* saved, until the list is cleared.
LoaderCoherent ==
  loader.initialised /\ ~cleared => loader = GetRule(Content, loader.id)

\* "Retrieves a rule from NVM": getRuleData() returns what the flash holds under the id.
ReturnsStoredRule ==
  answer # None => answer.data = RulesIn(Content, count)[answer.id + 1]
=============================================================================
