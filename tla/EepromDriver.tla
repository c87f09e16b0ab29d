----------------------------- MODULE EepromDriver -----------------------------
(***************************************************************************)
(* SamdEmulatedEepromDriver: bytes of flash written through a buffer that  *)
(* holds one row.  A call runs to its end before the next; the flash       *)
(* commands it issues (erase a row, program a page) are single steps,      *)
(* because power may fail between two of them.                             *)
(***************************************************************************)
EXTENDS Integers, Sequences

CONSTANTS
  Rows, Pages, PageSize,   \* rows in the region, pages in a row, bytes in a page
  Byte, Erased,            \* what a byte may be, and is after an erase
  None

RowSize == Pages * PageSize
Row     == 0 .. Rows - 1
Index   == 0 .. RowSize - 1
Addr    == 0 .. Rows * RowSize - 1

ASSUME GeometryAssumption ==
  /\ Rows \in Nat \ {0} /\ Pages \in Nat \ {0} /\ PageSize \in Nat \ {0}
  /\ Erased \in Byte
  /\ None \notin Row

VARIABLES
  nvm,      \* the flash
  buffer,   \* row_buffer_
  row,      \* row_buffer_address_, None until row_data_valid_
  dirty,    \* row_needs_flush_
  page,     \* the next page of the row a flush programs; Pages outside a flush
  call      \* the call in progress

driverVars == <<nvm, buffer, row, dirty, page, call>>

RowOf(a)   == a \div RowSize
IndexOf(a) == a % RowSize

Idle == [op |-> "none"]

\* What a read returns: it flushes the buffer before it reads the flash.
Content == [a \in Addr |-> IF RowOf(a) = row THEN buffer[IndexOf(a)] ELSE nvm[a]]

RowContent(r) == [i \in Index |-> nvm[r * RowSize + i]]

\* The buffer after the bytes of data have been copied to it from index i on.
Overlay(i, data) ==
  [j \in Index |-> IF j - i + 1 \in DOMAIN data THEN data[j - i + 1] ELSE buffer[j]]

-----------------------------------------------------------------------------
(* The calls. *)

Write(a, data) ==
  /\ call = Idle
  /\ call' = [op |-> "write", at |-> a, data |-> data]
  /\ UNCHANGED <<nvm, buffer, row, dirty, page>>

Flush ==
  /\ call = Idle
  /\ call' = [op |-> "flush"]
  /\ UNCHANGED <<nvm, buffer, row, dirty, page>>

Read ==
  /\ call = Idle
  /\ call' = [op |-> "read"]
  /\ UNCHANGED <<nvm, buffer, row, dirty, page>>

\* erase(): every row, the last one first; the buffer is left alone.
Erase ==
  /\ call = Idle
  /\ call' = [op |-> "erase", left |-> Rows]
  /\ UNCHANGED <<nvm, buffer, row, dirty, page>>

-----------------------------------------------------------------------------
(* flush(), wherever it is called from. *)

NeedsRow == call.op = "write" /\ row # RowOf(call.at)
Flushing == page < Pages

EraseRowWritten ==  \* mutant: erases the row about to be written, not the one in the buffer
  /\ ~Flushing /\ dirty
  /\ call.op \in {"flush", "read", "wrap"} \/ NeedsRow
  /\ page' = 0
  /\ nvm' = [a \in Addr |-> IF RowOf(a) = (IF call.op = "write" THEN RowOf(call.at) ELSE row)
                            THEN Erased ELSE nvm[a]]
  /\ UNCHANGED <<buffer, row, dirty, call>>

EraseRow ==
  /\ ~Flushing /\ dirty
  /\ call.op \in {"flush", "read", "wrap"} \/ NeedsRow
  /\ page' = 0
  /\ nvm' = [a \in Addr |-> IF RowOf(a) = row THEN Erased ELSE nvm[a]]
  /\ UNCHANGED <<buffer, row, dirty, call>>

ProgramPageDirty ==  \* mutant: row_needs_flush_ stays set
  /\ Flushing
  /\ nvm' = [a \in Addr |-> IF RowOf(a) = row /\ IndexOf(a) \div PageSize = page
                            THEN buffer[IndexOf(a)] ELSE nvm[a]]
  /\ page' = page + 1
  /\ UNCHANGED <<buffer, row, dirty, call>>

ProgramPage ==
  /\ Flushing
  /\ nvm' = [a \in Addr |-> IF RowOf(a) = row /\ IndexOf(a) \div PageSize = page
                            THEN buffer[IndexOf(a)] ELSE nvm[a]]
  /\ page' = page + 1
  /\ dirty' = (page + 1 < Pages)
  /\ UNCHANGED <<buffer, row, call>>

\* The flush is over, or there was nothing to flush.
Return ==
  /\ ~Flushing /\ ~dirty
  /\ call.op \in {"flush", "read"}
  /\ call' = Idle
  /\ UNCHANGED <<nvm, buffer, row, dirty, page>>

-----------------------------------------------------------------------------
(* write() *)

LoadRowKeepingBuffer ==  \* mutant: takes the row's address and not its bytes
  /\ ~Flushing /\ ~dirty /\ NeedsRow
  /\ row' = RowOf(call.at)
  /\ UNCHANGED <<nvm, buffer, dirty, page, call>>

LoadRowAddress ==  \* mutant: remembers the byte's address as the row's
  /\ ~Flushing /\ ~dirty /\ NeedsRow
  /\ buffer' = RowContent(RowOf(call.at))
  /\ row' = call.at
  /\ UNCHANGED <<nvm, dirty, page, call>>

LoadRow ==
  /\ ~Flushing /\ ~dirty /\ NeedsRow
  /\ buffer' = RowContent(RowOf(call.at))
  /\ row' = RowOf(call.at)
  /\ UNCHANGED <<nvm, dirty, page, call>>

Fits(a, data) == IndexOf(a) + Len(data) <= RowSize

CopyClean ==  \* mutant: does not mark the buffer as changed
  /\ ~Flushing /\ call.op = "write" /\ ~NeedsRow
  /\ Fits(call.at, call.data)
  /\ buffer' = Overlay(IndexOf(call.at), call.data)
  /\ call' = Idle
  /\ UNCHANGED <<nvm, row, dirty, page>>

Copy ==
  /\ ~Flushing /\ call.op = "write" /\ ~NeedsRow
  /\ Fits(call.at, call.data)
  /\ buffer' = Overlay(IndexOf(call.at), call.data)
  /\ dirty' = TRUE
  /\ call' = Idle
  /\ UNCHANGED <<nvm, row, page>>

\* The copy loop runs off the end of the row: one byte lands after the buffer, the row is
\* flushed, and the rest is copied to the start of the same row.
CopyToEnd ==
  /\ ~Flushing /\ call.op = "write" /\ ~NeedsRow
  /\ ~Fits(call.at, call.data)
  /\ buffer' = Overlay(IndexOf(call.at), call.data)
  /\ dirty' = TRUE
  /\ call' = [op |-> "wrap",
              data |-> SubSeq(call.data, RowSize - IndexOf(call.at) + 2, Len(call.data))]
  /\ UNCHANGED <<nvm, row, page>>

CopyWrapped ==
  /\ ~Flushing /\ call.op = "wrap" /\ ~dirty
  /\ buffer' = Overlay(0, call.data)
  /\ dirty' = TRUE
  /\ call' = Idle
  /\ UNCHANGED <<nvm, row, page>>

-----------------------------------------------------------------------------
EraseNextButFirst ==  \* mutant: the loop ends before row 0
  /\ call.op = "erase"
  /\ IF call.left <= 1
     THEN call' = Idle /\ UNCHANGED nvm
     ELSE /\ call' = [call EXCEPT !.left = @ - 1]
          /\ nvm' = [a \in Addr |-> IF RowOf(a) = call.left - 1 THEN Erased ELSE nvm[a]]
  /\ UNCHANGED <<buffer, row, dirty, page>>

EraseNext ==
  /\ call.op = "erase"
  /\ IF call.left = 0
     THEN call' = Idle /\ UNCHANGED nvm
     ELSE /\ call' = [call EXCEPT !.left = @ - 1]
          /\ nvm' = [a \in Addr |-> IF RowOf(a) = call.left - 1 THEN Erased ELSE nvm[a]]
  /\ UNCHANGED <<buffer, row, dirty, page>>

\* Power fails and returns: the constructor starts with no row in the buffer.
PowerFail ==
  /\ row' = None /\ dirty' = FALSE /\ page' = Pages /\ call' = Idle
  /\ buffer' \in [Index -> {Erased}]
  /\ UNCHANGED nvm

DriverStep ==
  \/ EraseRow \/ ProgramPage \/ Return \/ LoadRow \/ Copy \/ CopyToEnd \/ CopyWrapped
  \/ EraseNext

DriverInit ==
  /\ nvm \in [Addr -> Byte]
  /\ buffer \in [Index -> {Erased}]
  /\ row = None /\ dirty = FALSE /\ page = Pages /\ call = Idle
=============================================================================
