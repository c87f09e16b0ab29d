------------------------- MODULE EepromClient_proofs -------------------------
(***************************************************************************)
(* The driver is the memory of its interface for every geometry of the     *)
(* flash, every content and every set of payloads.                         *)
(***************************************************************************)
EXTENDS EepromClient, EepromDriver_proofs

-----------------------------------------------------------------------------
(* Every variable keeps its type. *)

LEMMA TypeInit == Init => TypeOK
  <1> SUFFICES ASSUME Init PROVE TypeOK
    OBVIOUS
  <1>1. 0 \in 0 .. MaxFailures /\ Pages \in 0 .. Pages
    BY GeometryAssumption, CallsAssumption
  <1>2. QED
    BY <1>1, ErasedBuffer DEF Init, DriverInit, TypeOK, Calls

LEMMA TypeNext == TypeOK /\ [Next]_vars => TypeOK'
  <1> SUFFICES ASSUME TypeOK, [Next]_vars PROVE TypeOK'
    OBVIOUS
  <1> USE GeometryAssumption, CallsAssumption DEF TypeOK
  <1>1. ASSUME NEW a \in Addr, NEW data \in Payloads, Write(a, data), UNCHANGED failures,
               strayed' \in BOOLEAN
        PROVE  TypeOK'
    BY <1>1 DEF Write, Calls
  <1>2. CASE Flush /\ UNCHANGED <<failures, strayed>>
    BY <1>2 DEF Flush, Calls
  <1>3. CASE Read /\ UNCHANGED <<failures, strayed>>
    BY <1>3 DEF Read, Calls
  <1>4. CASE Erase /\ strayed' = TRUE /\ UNCHANGED failures
    BY <1>4 DEF Erase, Calls
  <1>5. CASE EraseRow /\ UNCHANGED <<failures, strayed>>
    BY <1>5 DEF EraseRow, Calls
  <1>6. CASE ProgramPage /\ UNCHANGED <<failures, strayed>>
    <2>1. page' \in 0 .. Pages /\ dirty' \in BOOLEAN
      BY <1>6 DEF ProgramPage, Flushing
    <2>2. nvm' \in [Addr -> Byte]
      BY <1>6, Split DEF ProgramPage
    <2>3. QED
      BY <1>6, <2>1, <2>2 DEF ProgramPage, Calls
  <1>7. CASE Return /\ UNCHANGED <<failures, strayed>>
    BY <1>7 DEF Return, Calls
  <1>8. CASE LoadRow /\ UNCHANGED <<failures, strayed>>
    <2>1. RowOf(call.at) \in Row
      BY <1>8, Split DEF LoadRow, NeedsRow, Calls, Idle
    <2>2. QED
      BY <1>8, <2>1, RowContentType DEF LoadRow, Calls
  <1>9. CASE Copy /\ UNCHANGED <<failures, strayed>>
    <2>1. call.at \in Addr /\ call.data \in Seq(Byte)
      BY <1>9 DEF Copy, Calls, Idle
    <2>2. IndexOf(call.at) \in Int
      BY <2>1, Split DEF Index
    <2>3. QED
      BY <1>9, <2>1, <2>2, OverlayType DEF Copy, Calls
  <1>10. CASE CopyToEnd /\ UNCHANGED <<failures, strayed>>
    <2>1. call.at \in Addr /\ call.data \in Seq(Byte)
      BY <1>10 DEF CopyToEnd, Calls, Idle
    <2>2. IndexOf(call.at) \in 0 .. RowSize - 1 /\ RowSize \in Nat
      BY <2>1, Split, RowSizePositive DEF Index
    <2>3. SubSeq(call.data, RowSize - IndexOf(call.at) + 2, Len(call.data)) \in Seq(Byte)
      BY <2>1, <2>2
    <2>4. call' \in Calls
      BY <1>10, <2>3 DEF CopyToEnd, Calls
    <2>5. QED
      BY <1>10, <2>1, <2>2, <2>4, OverlayType DEF CopyToEnd
  <1>11. CASE CopyWrapped /\ UNCHANGED <<failures, strayed>>
    <2>1. call.data \in Seq(Byte)
      BY <1>11 DEF CopyWrapped, Calls, Idle
    <2>2. QED
      BY <1>11, <2>1, OverlayType DEF CopyWrapped, Calls
  <1>12. CASE EraseNext /\ UNCHANGED <<failures, strayed>>
    <2>1. call.left \in 0 .. Rows /\ call = [op |-> "erase", left |-> call.left]
      BY <1>12 DEF EraseNext, Calls, Idle
    <2>2. call' \in Calls
      BY <1>12, <2>1 DEF EraseNext, Calls
    <2>3. QED
      BY <1>12, <2>2 DEF EraseNext
  <1>13. CASE LosePower
    <2>1. failures' \in 0 .. MaxFailures
      BY <1>13 DEF LosePower
    <2>2. Pages \in 0 .. Pages
      OBVIOUS
    <2>3. QED
      BY <1>13, <2>1, <2>2, ErasedBuffer DEF LosePower, PowerFail, Calls
  <1>14. CASE UNCHANGED vars
    BY <1>14 DEF vars, driverVars, Calls
  <1>15. CASE Call
    BY <1>15, <1>1, <1>2, <1>3, <1>4 DEF Call
  <1>16. QED
    BY <1>5, <1>6, <1>7, <1>8, <1>9, <1>10, <1>11, <1>12, <1>13, <1>14, <1>15
       DEF Next, Step, DriverStep

\* Every variable of the driver keeps its type, for every geometry of the flash.
THEOREM TypeCorrect == Spec => []TypeOK
  BY TypeInit, TypeNext, PTL DEF Spec
-----------------------------------------------------------------------------
(* The buffer agrees with the flash until a write runs past its row or erase() is called. *)

BufferInv ==
  ~strayed =>
    /\ call.op \in {"none", "flush", "read", "write"}
    /\ call.op = "write" => Fits(call.at, call.data)
    /\ BufferAgrees

LEMMA TypeOfDriver == TypeOK => DriverTypes
  BY DEF TypeOK, DriverTypes

LEMMA WriteInProgress ==
  ASSUME TypeOK, call.op = "write"
  PROVE  call.at \in Addr /\ call.data \in Payloads /\ call.data \in Seq(Byte)
  BY CallsAssumption DEF TypeOK, Calls, Idle

LEMMA BufferInit == Init => BufferInv
  <1> SUFFICES ASSUME Init PROVE BufferInv
    OBVIOUS
  <1>1. row = None /\ dirty = FALSE /\ page = Pages /\ call = Idle
    BY DEF Init, DriverInit
  <1>2. QED
    BY <1>1, NoRowAgrees DEF BufferInv, Idle

LEMMA BufferNext == TypeOK /\ BufferInv /\ [Next]_vars => BufferInv'
  <1> SUFFICES ASSUME TypeOK, BufferInv, [Next]_vars, ~strayed' PROVE BufferInv'
    BY DEF BufferInv
  <1>0. ~strayed
    BY DEF TypeOK, Next, Call, Step, LosePower, vars
  <1> USE <1>0, TypeOfDriver DEF BufferInv
  <1>1. ASSUME UNCHANGED <<nvm, buffer, row, dirty, page>> PROVE BufferAgrees'
    BY <1>1 DEF BufferAgrees, Programmed, Flushing
  <1>2. CASE EraseRow
    BY <1>2, EraseRowStep DEF EraseRow, Fits
  <1>3. CASE ProgramPage
    BY <1>3, ProgramPageStep DEF ProgramPage, Fits
  <1>4. CASE LoadRow
    BY <1>4, LoadRowStep, WriteInProgress DEF LoadRow, NeedsRow, Fits
  <1>5. CASE Copy
    BY <1>5, CopyStep, WriteInProgress DEF Copy, Idle
  <1>6. CASE CopyToEnd \/ CopyWrapped \/ EraseNext
    BY <1>6 DEF CopyToEnd, CopyWrapped, EraseNext
  <1>7. CASE LosePower
    <2>1. row' = None /\ dirty' = FALSE /\ page' = Pages /\ call' = Idle
      BY <1>7 DEF LosePower, PowerFail
    <2>2. BufferAgrees'
      BY <2>1, Split, GeometryAssumption DEF BufferAgrees, Flushing
    <2>3. QED
      BY <2>1, <2>2 DEF Idle
  <1>8. ASSUME NEW a \in Addr, NEW data \in Payloads, Write(a, data), Fits(a, data)
        PROVE  BufferInv'
    BY <1>1, <1>8 DEF Write, Fits
  <1>9. CASE Flush \/ Read
    BY <1>1, <1>9 DEF Flush, Read
  <1>10. CASE Call
    BY <1>8, <1>9, <1>10 DEF Call
  <1>11. CASE Return
    BY <1>1, <1>11 DEF Return, Idle
  <1>12. CASE UNCHANGED vars
    BY <1>1, <1>12 DEF vars, driverVars, Fits
  <1>13. QED
    BY <1>2, <1>3, <1>4, <1>5, <1>6, <1>7, <1>10, <1>11, <1>12 DEF Next, Step, DriverStep
-----------------------------------------------------------------------------
(* Every step of the driver is a step of the memory, or leaves it as it is. *)

LEMMA MemoryInit == Init => Memory!Init
  <1> SUFFICES ASSUME Init PROVE Memory!Init
    OBVIOUS
  <1>1. /\ nvm \in [Addr -> Byte] /\ buffer \in [Index -> Byte]
        /\ row = None /\ dirty = FALSE /\ page = Pages
    BY ErasedBuffer DEF Init, DriverInit
  <1>2. BufferAgrees /\ DriverTypes /\ Saving = None
    <2>1. BufferAgrees /\ ~Flushing
      BY <1>1, NoRowAgrees
    <2>2. DriverTypes
      BY TypeInit, TypeOfDriver
    <2>3. QED
      BY <2>1, <2>2 DEF Saving
  <1>3. Content = nvm
    BY <1>1, <1>2, CleanIsSaved
  <1>4. QED
    BY <1>1, <1>2, <1>3 DEF Memory!Init

LEMMA MemoryStep ==
  TypeOK /\ BufferInv /\ [Next]_vars => [MemoryNext \/ strayed']_MemoryVars
  <1> SUFFICES ASSUME TypeOK, BufferInv, [Next]_vars, ~strayed'
               PROVE  [MemoryNext]_MemoryVars
    OBVIOUS
  <1>0. ~strayed /\ DriverTypes /\ BufferAgrees
    BY TypeOfDriver DEF BufferInv, TypeOK, Next, Call, Step, LosePower, vars
  <1>1. ASSUME UNCHANGED <<nvm, buffer, row, page>> PROVE UNCHANGED MemoryVars
    BY <1>1 DEF MemoryVars, Content, Saving, Flushing
  <1>2. CASE Call \/ Return \/ UNCHANGED vars
    BY <1>1, <1>2 DEF Call, Write, Flush, Read, Erase, Return, vars, driverVars
  <1>3. CASE EraseRow
    <2>1. Saving = None /\ Saving' = row /\ row \in Row
      BY <1>0, <1>3, EraseRowStep DEF EraseRow, Saving, Flushing, BufferAgrees
    <2>2. Memory!EraseBlock(row)
      BY <1>0, <1>3, <2>1, EraseRowStep DEF EraseRow, Memory!EraseBlock
    <2>3. QED
      BY <2>1, <2>2 DEF MemoryNext
  <1>4. CASE ProgramPage
    <2> DEFINE done == {a \in Addr : RowOf(a) = row /\ IndexOf(a) \div PageSize = page}
    <2>1. /\ Saving = row /\ row \in Row /\ row' = row
          /\ page \in 0 .. Pages - 1 /\ Content' = Content
      BY <1>0, <1>4, ProgramPageStep, GeometryAssumption
         DEF ProgramPage, Saving, Flushing, BufferAgrees, DriverTypes
    <2>2. nvm' = [x \in Addr |-> IF x \in done THEN Content[x] ELSE nvm[x]]
      BY <1>4 DEF ProgramPage, Content
    <2>3. \/ Saving' = Saving
          \/ Saving' = None /\ \A x \in Addr : RowOf(x) = Saving => nvm'[x] = Content[x]
      BY <1>0, <1>4, <2>1, ProgramPageStep DEF Saving
    <2>4. Memory!Program(done)
      BY <2>1, <2>2, <2>3, GeometryAssumption DEF Memory!Program
    <2>5. QED
      BY <2>1, <2>4 DEF MemoryNext
  <1>5. CASE LoadRow
    BY <1>0, <1>5, LoadRowStep, WriteInProgress
       DEF LoadRow, NeedsRow, MemoryVars, Saving, Flushing
  <1>6. CASE Copy
    <2>1. call.at \in Addr /\ call.data \in Payloads /\ call.data \in Seq(Byte)
      BY <1>6, WriteInProgress DEF Copy
    <2>2. Saving = None /\ Saving' = None /\ nvm' = nvm
      BY <1>6 DEF Copy, Saving, Flushing
    <2>3. Memory!Write(call.at, call.data)
      BY <1>0, <1>6, <2>1, <2>2, CopyStep DEF Memory!Write
    <2>4. QED
      BY <2>1, <2>3 DEF MemoryNext
  <1>7. CASE CopyToEnd \/ CopyWrapped \/ EraseNext
    BY <1>0, <1>7 DEF BufferInv, CopyToEnd, CopyWrapped, EraseNext
  <1>8. CASE LosePower
    <2>1. row' = None /\ dirty' = FALSE /\ page' = Pages /\ nvm' = nvm
      BY <1>8 DEF LosePower, PowerFail
    <2>2. Content' = nvm
      BY <1>0, <2>1, Split, GeometryAssumption DEF Content, DriverTypes
    <2>3. Saving' = None
      BY <2>1, GeometryAssumption DEF Saving, Flushing
    <2>4. Memory!PowerFail
      BY <2>1, <2>2, <2>3 DEF Memory!PowerFail
    <2>5. QED
      BY <2>4 DEF MemoryNext
  <1>9. QED
    BY <1>2, <1>3, <1>4, <1>5, <1>6, <1>7, <1>8 DEF Next, Step, DriverStep

\* The driver implements the memory of its interface, for every geometry of the flash,
\* until a write runs past its row or erase() is called: its row buffer is invisible, and
\* a loss of power damages the row being saved only.
THEOREM DriverIsMemory == Spec => ImplementsMemory
  BY TypeInit, TypeNext, BufferInit, BufferNext, MemoryInit, MemoryStep, PTL
     DEF Spec, ImplementsMemory
-----------------------------------------------------------------------------
(* What single steps do. *)

LEMMA FlushStep ==
  TypeOK /\ BufferInv /\ [Next]_vars =>
    [call.op = "flush" /\ call' = Idle /\ failures' = failures /\ ~strayed => nvm' = Content]_vars
  <1> SUFFICES ASSUME TypeOK, BufferInv, Next,
                      call.op = "flush", call' = Idle, failures' = failures, ~strayed
               PROVE  nvm' = Content
    BY DEF vars
  <1>1. call # Idle
    BY DEF Idle
  <1>2. ~Call /\ ~LosePower
    BY <1>1 DEF Call, Write, Flush, Read, Erase, LosePower, TypeOK
  <1>3. Return
    BY <1>1, <1>2 DEF Next, Step, DriverStep, EraseRow, ProgramPage, LoadRow, NeedsRow, Copy,
                      CopyToEnd, CopyWrapped, EraseNext
  <1>4. QED
    BY <1>3, TypeOfDriver, CleanIsSaved DEF Return, BufferInv

\* When flush() returns, what was written is in flash, through every eviction and load.
THEOREM FlushAlwaysSaves == Spec => FlushSaves
  BY TypeInit, TypeNext, BufferInit, BufferNext, FlushStep, PTL DEF Spec, FlushSaves

LEMMA OtherRowsStep ==
  TypeOK /\ [Next]_vars =>
    [\A a \in Addr : nvm'[a] # nvm[a] => RowOf(a) = row \/ call.op = "erase"]_vars
  <1> SUFFICES ASSUME Next, NEW a \in Addr, nvm'[a] # nvm[a], call.op # "erase"
               PROVE  RowOf(a) = row
    OBVIOUS
  <1>1. CASE EraseRow
    BY <1>1 DEF EraseRow
  <1>2. CASE ProgramPage
    BY <1>2 DEF ProgramPage
  <1>3. QED
    BY <1>1, <1>2 DEF Next, Call, Write, Flush, Read, Erase, Step, DriverStep, Return, LoadRow,
                      Copy, CopyToEnd, CopyWrapped, EraseNext, LosePower, PowerFail

\* Flash changes in the buffered row only, whatever call is in progress, unless it is
\* erase().
THEOREM OtherRowsAlwaysKept == Spec => OtherRowsKept
  BY TypeInit, TypeNext, OtherRowsStep, PTL DEF Spec, OtherRowsKept
-----------------------------------------------------------------------------
(* erase(): the rows it has passed are erased, and no flush is under way meanwhile. *)

ErasePassed ==
  /\ Flushing => call.op \in {"flush", "read", "wrap", "write"}
  /\ call.op = "erase" => \A a \in Addr : RowOf(a) >= call.left => nvm[a] = Erased

LEMMA EraseInit == Init => ErasePassed
  BY GeometryAssumption DEF Init, DriverInit, ErasePassed, Flushing, Idle

LEMMA EraseStep == TypeOK /\ ErasePassed /\ [Next]_vars => ErasePassed'
  <1> SUFFICES ASSUME TypeOK, ErasePassed, [Next]_vars PROVE ErasePassed'
    OBVIOUS
  <1> USE DEF ErasePassed, Flushing
  <1>1. CASE Call
    <2>1. CASE Erase
      <3>1. \A a \in Addr : ~(RowOf(a) >= Rows)
        BY Split, GeometryAssumption DEF Row
      <3>2. QED
        BY <2>1, <3>1 DEF Erase, Idle
    <2>2. QED
      BY <1>1, <2>1 DEF Call, Write, Flush, Read
  <1>2. CASE EraseRow
    BY <1>2 DEF EraseRow, NeedsRow
  <1>3. CASE ProgramPage
    BY <1>3, GeometryAssumption DEF ProgramPage, TypeOK
  <1>4. CASE EraseNext
    <2>1. call.left \in 0 .. Rows /\ call = [op |-> "erase", left |-> call.left]
      BY <1>4 DEF EraseNext, TypeOK, Calls, Idle
    <2>2. CASE call.left = 0
      BY <1>4, <2>2 DEF EraseNext, Idle
    <2>3. CASE call.left # 0
      <3>1. /\ call'.op = "erase" /\ call'.left = call.left - 1 /\ page' = page
            /\ nvm' = [a \in Addr |-> IF RowOf(a) = call.left - 1 THEN Erased ELSE nvm[a]]
        BY <1>4, <2>1, <2>3 DEF EraseNext
      <3>2. ASSUME NEW a \in Addr, RowOf(a) >= call.left - 1 PROVE nvm'[a] = Erased
        <4>1. RowOf(a) = call.left - 1 \/ RowOf(a) >= call.left
          BY <2>1, <3>2, Split, GeometryAssumption DEF Row
        <4>2. QED
          BY <1>4, <3>1, <4>1 DEF EraseNext
      <3>3. QED
        BY <1>4, <3>1, <3>2 DEF EraseNext
    <2>4. QED
      BY <2>2, <2>3
  <1>5. CASE Return \/ LoadRow \/ Copy \/ CopyToEnd \/ CopyWrapped
    BY <1>5 DEF Return, LoadRow, NeedsRow, Copy, CopyToEnd, CopyWrapped, Idle
  <1>6. CASE LosePower
    BY <1>6, GeometryAssumption DEF LosePower, PowerFail, Idle
  <1>7. CASE UNCHANGED vars
    BY <1>7 DEF vars, driverVars
  <1>8. QED
    BY <1>1, <1>2, <1>3, <1>4, <1>5, <1>6, <1>7 DEF Next, Step, DriverStep

LEMMA EraseReturns ==
  TypeOK /\ ErasePassed /\ [Next]_vars =>
    [call.op = "erase" /\ call' = Idle /\ failures' = failures =>
       /\ \A a \in Addr : nvm'[a] = Erased
       /\ \A a \in Addr : Content'[a] # Erased => RowOf(a) = row /\ dirty' = dirty]_vars
  <1> SUFFICES ASSUME TypeOK, ErasePassed, Next,
                      call.op = "erase", call' = Idle, failures' = failures
               PROVE  /\ \A a \in Addr : nvm'[a] = Erased
                      /\ \A a \in Addr : Content'[a] # Erased => RowOf(a) = row /\ dirty' = dirty
    BY DEF vars
  <1>0. call # Idle
    BY DEF Idle
  <1>1. ~Call /\ ~LosePower
    BY <1>0 DEF Call, Write, Flush, Read, Erase, LosePower, TypeOK
  <1>2. EraseNext
    BY <1>1 DEF Next, Step, DriverStep, EraseRow, ProgramPage, LoadRow, NeedsRow, Copy,
                CopyToEnd, CopyWrapped, Return, ErasePassed, Flushing
  <1>3. call.left = 0
    BY <1>2 DEF EraseNext, Idle
  <1>4. \A a \in Addr : RowOf(a) >= 0
    BY Split, GeometryAssumption DEF Row
  <1>5. \A a \in Addr : nvm'[a] = Erased
    BY <1>2, <1>3, <1>4 DEF EraseNext, ErasePassed
  <1>6. QED
    BY <1>2, <1>5 DEF EraseNext, Content

\* When erase() returns the flash is erased everywhere; only the row in the buffer still
\* reads as before.
THEOREM EraseAlwaysSparesBuffer == Spec => EraseSparesBuffer
  BY TypeInit, TypeNext, EraseInit, EraseStep, EraseReturns, PTL DEF Spec, EraseSparesBuffer
=============================================================================
