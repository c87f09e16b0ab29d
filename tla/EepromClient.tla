----------------------------- MODULE EepromClient -----------------------------
(***************************************************************************)
(* The EEPROM driver under any sequence of calls, and what it keeps of the *)
(* promise of NvmDriverInterface.h (module NvmMemory).                     *)
(***************************************************************************)
EXTENDS EepromDriver

CONSTANTS
  Payloads,    \* what is written
  Crossing,    \* TRUE: a write may run past the end of its row
  Erasing,     \* TRUE: erase() is called (only the tests on the board do)
  MaxFailures  \* bound on losses of power

ASSUME CallsAssumption ==
  /\ Payloads \subseteq Seq(Byte)
  /\ Crossing \in BOOLEAN /\ Erasing \in BOOLEAN
  /\ MaxFailures \in Nat

VARIABLES
  failures,
  strayed    \* history: there was a call that the promise does not survive
vars == <<driverVars, failures, strayed>>

InRegion(a, data) == a + Len(data) <= Rows * RowSize

Call ==
  /\ \/ /\ \E a \in Addr, data \in Payloads :
             /\ InRegion(a, data) /\ (Crossing \/ Fits(a, data))
             /\ Write(a, data)
             /\ strayed' = (strayed \/ ~Fits(a, data))
     \/ Flush /\ UNCHANGED strayed
     \/ Read /\ UNCHANGED strayed
     \/ Erasing /\ Erase /\ strayed' = TRUE
  /\ UNCHANGED failures

Step == DriverStep /\ UNCHANGED <<failures, strayed>>

LosePower ==
  /\ failures < MaxFailures
  /\ failures' = failures + 1
  /\ PowerFail
  /\ UNCHANGED strayed

Init == DriverInit /\ failures = 0 /\ strayed = FALSE
Next == Call \/ Step \/ LosePower
Spec == Init /\ [][Next]_vars

\* The driver runs in the main loop and waits for each flash command.
FairSpec == Spec /\ WF_vars(Step)

-----------------------------------------------------------------------------
\* Calls in progress.
Calls ==
  {Idle, [op |-> "flush"], [op |-> "read"]}
    \cup [op : {"write"}, at : Addr, data : Payloads]
    \cup [op : {"wrap"}, data : Seq(Byte)]
    \cup [op : {"erase"}, left : 0 .. Rows]

TypeOK ==
  /\ nvm \in [Addr -> Byte]
  /\ buffer \in [Index -> Byte]
  /\ row \in Row \cup {None}
  /\ dirty \in BOOLEAN
  /\ page \in 0 .. Pages
  /\ call \in Calls
  /\ failures \in 0 .. MaxFailures
  /\ strayed \in BOOLEAN

Saving == IF Flushing THEN row ELSE None

Memory == INSTANCE NvmMemory WITH
  content <- Content, saved <- nvm, saving <- Saving,
  Block <- Row, BlockOf <- RowOf

MemoryNext ==
  \/ \E a \in Addr, data \in Payloads : Memory!Write(a, data)
  \/ \E b \in Row : Memory!EraseBlock(b)
  \/ \E p \in 0 .. Pages - 1 :
       Memory!Program({a \in Addr : RowOf(a) = row /\ IndexOf(a) \div PageSize = p})
  \/ Memory!PowerFail

MemoryVars == <<Content, nvm, Saving>>

\* The driver is the linear memory of NvmDriverInterface.h: every write is readable
\* at its addresses and changes no other byte, through every load, flush and
\* eviction of the row buffer, and a loss of power damages the row being saved only;
\* until a write runs past its row or erase() is called.
ImplementsMemory == Memory!Init /\ [][MemoryNext \/ strayed']_MemoryVars

\* "address: NVM address at which to write data": a write lands at its addresses,
\* wherever these are.
WritesLand == Memory!Init /\ [][MemoryNext]_MemoryVars

\* flush() leaves nothing behind: what it returns to is all in flash (until a write runs
\* past its row or erase() is called).
FlushSaves ==
  [][call.op = "flush" /\ call' = Idle /\ failures' = failures /\ ~strayed =>
       nvm' = Content]_vars

\* Flash is erased or programmed only in the row the buffer holds (or by erase()), also
\* while a write makes room for another row or runs off the end of its own.
OtherRowsKept ==
  [][\A a \in Addr : nvm'[a] # nvm[a] => RowOf(a) = row \/ call.op = "erase"]_vars

\* What survives erase(): the flash is erased everywhere, and reads return erased bytes
\* but for the row in the buffer, which erase() leaves valid (and dirty, if it was: a
\* later flush brings it back), unless power failed meanwhile.
EraseSparesBuffer ==
  [][call.op = "erase" /\ call' = Idle /\ failures' = failures =>
       /\ \A a \in Addr : nvm'[a] = Erased
       /\ \A a \in Addr : Content'[a] # Erased => RowOf(a) = row /\ dirty' = dirty]_vars

\* No call hangs: the flushes inside write() and read() come to an end.
CallsReturn == call # Idle ~> call = Idle
=============================================================================
