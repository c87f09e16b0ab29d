------------------------- MODULE EepromDriver_proofs -------------------------
(***************************************************************************)
(* What the steps of the EEPROM driver do to the flash, the buffer and what *)
(* a read returns, for every geometry: the lemmas its users' proofs share.  *)
(***************************************************************************)
EXTENDS EepromDriver, TLAPS

-----------------------------------------------------------------------------
(* Addresses, rows and pages. *)

LEMMA TimesMonotone ==
  ASSUME NEW k \in Nat, NEW i \in Int, NEW j \in Int, i <= j
  PROVE  i * k <= j * k
  <1>1. (j - i) * k >= 0
    OBVIOUS
  <1>2. (j - i) * k = j * k - i * k
    OBVIOUS
  <1>3. QED
    BY <1>1, <1>2

LEMMA TimesSuccessor ==
  ASSUME NEW k \in Nat, NEW i \in Int
  PROVE  (i + 1) * k = i * k + k /\ (i - 1) * k = i * k - k
  OBVIOUS

LEMMA RowSizePositive == RowSize \in Nat \ {0}
  BY GeometryAssumption DEF RowSize

\* An address is a row and an index into it.
LEMMA Split ==
  ASSUME NEW a \in Addr
  PROVE  /\ RowOf(a) \in Row /\ IndexOf(a) \in Index
         /\ a = RowOf(a) * RowSize + IndexOf(a)
  <1> DEFINE S == RowSize
  <1>1. S \in Nat \ {0} /\ Rows \in Nat /\ a \in 0 .. Rows * S - 1
    BY RowSizePositive, GeometryAssumption DEF Addr
  <1> HIDE DEF S
  <1>2. /\ a \div S \in Nat /\ a % S \in 0 .. S - 1
        /\ a = (a \div S) * S + (a % S)
    BY <1>1
  <1>3. a \div S < Rows
    <2>1. Rows <= a \div S => Rows * S <= (a \div S) * S
      BY <1>1, <1>2, TimesMonotone
    <2>2. QED
      BY <1>1, <1>2, <2>1
  <1>4. QED
    BY <1>1, <1>2, <1>3, GeometryAssumption DEF S, RowOf, IndexOf, Row, Index

LEMMA NextRowAfter ==
  ASSUME NEW s \in Nat \ {0}, NEW p \in Int, NEW q \in Int, p < q
  PROVE  p * s + s <= q * s
  <1>1. (p + 1) * s <= q * s
    BY TimesMonotone
  <1>2. (p + 1) * s = p * s + s
    BY TimesSuccessor
  <1>3. p * s \in Int /\ q * s \in Int
    OBVIOUS
  <1>4. QED
    BY <1>1, <1>2, <1>3

\* The addresses of another row lie before or after all of this one.
LEMMA OtherRow ==
  ASSUME NEW a \in Addr, NEW x \in Addr, RowOf(x) # RowOf(a)
  PROVE  x - a < 0 - IndexOf(a) \/ x - a >= RowSize - IndexOf(a)
  <1>1. /\ RowSize \in Nat \ {0}
        /\ RowOf(a) \in Int /\ RowOf(x) \in Int
        /\ IndexOf(a) \in 0 .. RowSize - 1 /\ IndexOf(x) \in 0 .. RowSize - 1
        /\ a = RowOf(a) * RowSize + IndexOf(a) /\ x = RowOf(x) * RowSize + IndexOf(x)
    BY Split, RowSizePositive, GeometryAssumption DEF Row, Index
  <1>2. \/ RowOf(x) * RowSize + RowSize <= RowOf(a) * RowSize
        \/ RowOf(a) * RowSize + RowSize <= RowOf(x) * RowSize
    <2>1. RowOf(x) < RowOf(a) \/ RowOf(a) < RowOf(x)
      BY <1>1
    <2>2. QED
      BY <1>1, <2>1, NextRowAfter, Zenon
  <1>3. RowOf(a) * RowSize \in Int /\ RowOf(x) * RowSize \in Int
    BY <1>1
  <1>4. QED
    BY <1>1, <1>2, <1>3

\* The pages of a row are numbered from 0 to Pages - 1.
LEMMA PageInRow == ASSUME NEW i \in Index PROVE i \div PageSize \in 0 .. Pages - 1
  <1>1. i \in 0 .. Pages * PageSize - 1 /\ PageSize \in Nat \ {0} /\ Pages \in Nat \ {0}
    BY GeometryAssumption DEF Index, RowSize
  <1>2. i \div PageSize \in Nat /\ i = (i \div PageSize) * PageSize + (i % PageSize)
        /\ i % PageSize >= 0
    BY <1>1
  <1>3. i \div PageSize < Pages
    <2>1. Pages <= i \div PageSize => Pages * PageSize <= (i \div PageSize) * PageSize
      BY <1>1, <1>2, TimesMonotone
    <2>2. QED
      BY <1>1, <1>2, <2>1
  <1>4. QED
    BY <1>1, <1>2, <1>3

LEMMA InRange ==
  ASSUME NEW s \in Nat \ {0}, NEW p \in Nat, NEW q \in Nat, p < q, NEW i \in 0 .. s - 1
  PROVE  p * s + i \in 0 .. q * s - 1
  <1>1. p * s + s <= q * s
    BY NextRowAfter
  <1>2. 0 * s <= p * s
    BY TimesMonotone
  <1>3. p * s \in Int /\ q * s \in Int /\ 0 * s = 0
    OBVIOUS
  <1>4. QED
    BY <1>1, <1>2, <1>3

\* The bytes of a row have addresses in the region.
LEMMA AddressOf ==
  ASSUME NEW r \in Row, NEW i \in Index PROVE r * RowSize + i \in Addr
  <1>1. RowSize \in Nat \ {0} /\ r \in Nat /\ Rows \in Nat /\ r < Rows
    BY RowSizePositive, GeometryAssumption DEF Row
  <1>2. QED
    BY <1>1, InRange, Zenon DEF Addr, Index

-----------------------------------------------------------------------------
(* Types. *)

LEMMA OverlayType ==
  ASSUME buffer \in [Index -> Byte], NEW data \in Seq(Byte), NEW i \in Int
  PROVE  Overlay(i, data) \in [Index -> Byte]
  BY RowSizePositive DEF Overlay, Index

LEMMA RowContentType ==
  ASSUME nvm \in [Addr -> Byte], NEW r \in Row PROVE RowContent(r) \in [Index -> Byte]
  BY AddressOf DEF RowContent

LEMMA ErasedBuffer == [Index -> {Erased}] \subseteq [Index -> Byte]
  BY GeometryAssumption

-----------------------------------------------------------------------------
(* The buffer agrees with the flash where it is clean or has been programmed. *)

DriverTypes ==
  /\ nvm \in [Addr -> Byte]
  /\ buffer \in [Index -> Byte]
  /\ row \in Row \cup {None}
  /\ dirty \in BOOLEAN
  /\ page \in 0 .. Pages

Programmed(a) == dirty => Flushing /\ IndexOf(a) \div PageSize < page

BufferAgrees ==
  /\ dirty => row \in Row
  /\ Flushing => dirty
  /\ \A a \in Addr : RowOf(a) = row /\ Programmed(a) => nvm[a] = buffer[IndexOf(a)]

\* Nothing buffered is missing from flash when the buffer is clean.
LEMMA CleanIsSaved ==
  ASSUME DriverTypes, BufferAgrees, ~dirty PROVE Content = nvm
  BY DEF DriverTypes, BufferAgrees, Programmed, Content

LEMMA NoRowAgrees ==
  ASSUME row = None, dirty = FALSE, page = Pages PROVE BufferAgrees /\ ~Flushing
  <1>1. \A a \in Addr : RowOf(a) # None
    BY Split, GeometryAssumption
  <1>2. QED
    BY <1>1, GeometryAssumption DEF BufferAgrees, Flushing

\* Erasing the row of the buffer: reads still find it in the buffer.
LEMMA EraseRowStep ==
  ASSUME DriverTypes, BufferAgrees, EraseRow
  PROVE  DriverTypes' /\ BufferAgrees' /\ Content' = Content /\ Flushing'
  <1>1. page' = 0 /\ dirty /\ row \in Row /\ UNCHANGED <<buffer, row, dirty, call>>
    BY DEF EraseRow, BufferAgrees
  <1>2. \A a \in Addr : ~(IndexOf(a) \div PageSize < 0)
    BY Split, PageInRow, GeometryAssumption
  <1>3. \A a \in Addr : ~Programmed(a)'
    BY <1>1, <1>2 DEF Programmed
  <1>4. DriverTypes'
    BY <1>1, GeometryAssumption DEF EraseRow, DriverTypes
  <1>5. Content' = Content
    BY DEF EraseRow, Content
  <1>6. Flushing'
    BY <1>1, GeometryAssumption DEF Flushing
  <1>7. QED
    BY <1>1, <1>3, <1>4, <1>5, <1>6 DEF BufferAgrees

\* Programming a page: after the last one flash holds all that a read returns.
LEMMA ProgramPageStep ==
  ASSUME DriverTypes, BufferAgrees, ProgramPage
  PROVE  /\ DriverTypes' /\ BufferAgrees' /\ Content' = Content
         /\ ~Flushing' => nvm' = Content
  <1>0. /\ Flushing /\ page' = page + 1 /\ dirty' = (page + 1 < Pages) /\ row \in Row
        /\ UNCHANGED <<buffer, row, call>> /\ page \in 0 .. Pages - 1 /\ Pages \in Nat
    BY GeometryAssumption DEF ProgramPage, DriverTypes, BufferAgrees, Flushing
  <1>1. DriverTypes'
    <2>1. nvm' \in [Addr -> Byte]
      BY Split DEF ProgramPage, DriverTypes
    <2>2. QED
      BY <1>0, <2>1 DEF DriverTypes
  <1>2. ASSUME NEW a \in Addr, RowOf(a) = row,
               page + 1 < Pages => IndexOf(a) \div PageSize < page + 1
        PROVE  nvm'[a] = buffer[IndexOf(a)]
    <2>1. IndexOf(a) \div PageSize \in 0 .. Pages - 1
      BY Split, PageInRow
    <2>2. IndexOf(a) \div PageSize = page \/ IndexOf(a) \div PageSize < page
      BY <1>0, <1>2, <2>1
    <2>3. IndexOf(a) \div PageSize < page => nvm[a] = buffer[IndexOf(a)]
      BY <1>0, <1>2 DEF BufferAgrees, Programmed
    <2>4. QED
      BY <1>2, <2>2, <2>3 DEF ProgramPage
  <1>3. \A a \in Addr : RowOf(a) = row' /\ Programmed(a)' => nvm'[a] = buffer'[IndexOf(a)]
    BY <1>0, <1>2 DEF Programmed
  <1>4. Content' = Content
    BY DEF ProgramPage, Content
  <1>5. ASSUME ~Flushing' PROVE nvm' = Content
    <2>1. ~(page + 1 < Pages)
      BY <1>0, <1>5 DEF Flushing
    <2>2. \A a \in Addr : nvm'[a] = Content[a]
      BY <1>2, <2>1 DEF Content, ProgramPage
    <2>3. QED
      BY <1>1, <2>2 DEF DriverTypes, Content
  <1>6. Flushing' => dirty'
    BY <1>0 DEF Flushing
  <1>7. QED
    BY <1>0, <1>1, <1>3, <1>4, <1>5, <1>6 DEF BufferAgrees

\* Loading another row: reads return what they did.
LEMMA LoadRowStep ==
  ASSUME DriverTypes, BufferAgrees, LoadRow, call.at \in Addr
  PROVE  DriverTypes' /\ BufferAgrees' /\ Content' = Content
  <1>1. RowOf(call.at) \in Row /\ row' = RowOf(call.at) /\ ~dirty /\ ~Flushing
        /\ buffer' = RowContent(RowOf(call.at)) /\ UNCHANGED <<nvm, dirty, page>>
    BY Split DEF LoadRow
  <1>2. ASSUME NEW a \in Addr, RowOf(a) = row' PROVE nvm[a] = buffer'[IndexOf(a)]
    BY <1>1, <1>2, Split DEF RowContent
  <1>3. Content' = nvm
    BY <1>1, <1>2 DEF Content, DriverTypes
  <1>4. DriverTypes'
    BY <1>1, RowContentType DEF DriverTypes
  <1>5. QED
    BY <1>1, <1>2, <1>3, <1>4, CleanIsSaved DEF BufferAgrees, Flushing

\* The bytes a write puts into the buffer are those the memory puts at their addresses.
LEMMA CopyWrites ==
  ASSUME NEW a \in Addr, NEW data \in Seq(Byte), Fits(a, data), row = RowOf(a),
         buffer' = Overlay(IndexOf(a), data), UNCHANGED <<nvm, row>>
  PROVE  Content' =
           [x \in Addr |-> IF x - a + 1 \in DOMAIN data THEN data[x - a + 1] ELSE Content[x]]
  <1>1. SUFFICES ASSUME NEW x \in Addr
                 PROVE  Content'[x] = IF x - a + 1 \in DOMAIN data
                                      THEN data[x - a + 1] ELSE Content[x]
    BY DEF Content
  <1>2. /\ IndexOf(a) \in Int /\ IndexOf(x) \in Int /\ RowSize \in Int
        /\ IndexOf(x) \in Index /\ x \in Int /\ a \in Int
        /\ DOMAIN data = 1 .. Len(data) /\ Len(data) \in Nat
    BY Split, RowSizePositive DEF Index, Addr
  <1>3. CASE RowOf(x) = row
    <2>1. x - a = IndexOf(x) - IndexOf(a)
      <3>1. \A m, i, j \in Int : (m + i) - (m + j) = i - j
        OBVIOUS
      <3>2. /\ x = RowOf(a) * RowSize + IndexOf(x) /\ a = RowOf(a) * RowSize + IndexOf(a)
            /\ RowOf(a) * RowSize \in Int
        <4>1. RowOf(a) \in Int
          BY Split, GeometryAssumption DEF Row
        <4>2. QED
          BY <1>2, <1>3, <4>1, Split
      <3>3. QED
        BY <1>2, <3>1, <3>2
    <2>2. Content'[x] = Overlay(IndexOf(a), data)[IndexOf(x)] /\ Content[x] = buffer[IndexOf(x)]
      BY <1>3 DEF Content
    <2>3. QED
      BY <1>2, <2>1, <2>2 DEF Overlay
  <1>4. CASE RowOf(x) # row
    <2>1. x - a < 0 - IndexOf(a) \/ x - a >= RowSize - IndexOf(a)
      BY <1>4, OtherRow
    <2>2. x - a + 1 \notin DOMAIN data
      <3>1. IndexOf(a) >= 0 /\ IndexOf(a) + Len(data) <= RowSize
        BY Split, RowSizePositive DEF Fits, Index
      <3>2. QED
        BY <1>2, <2>1, <3>1
    <2>3. Content'[x] = nvm[x] /\ Content[x] = nvm[x]
      BY <1>4 DEF Content
    <2>4. QED
      BY <2>2, <2>3
  <1>5. QED
    BY <1>3, <1>4

LEMMA CopyStep ==
  ASSUME DriverTypes, BufferAgrees, Copy, call.at \in Addr, call.data \in Seq(Byte)
  PROVE  /\ DriverTypes' /\ BufferAgrees' /\ dirty' /\ ~Flushing /\ ~Flushing'
         /\ Content' = [x \in Addr |-> IF x - call.at + 1 \in DOMAIN call.data
                                       THEN call.data[x - call.at + 1] ELSE Content[x]]
  <1>1. /\ row = RowOf(call.at) /\ dirty' = TRUE /\ UNCHANGED <<nvm, row, page>> /\ ~Flushing
        /\ Fits(call.at, call.data) /\ buffer' = Overlay(IndexOf(call.at), call.data)
    BY DEF Copy, NeedsRow
  <1>2. row \in Row /\ IndexOf(call.at) \in Int
    BY <1>1, Split DEF Index
  <1>3. DriverTypes'
    BY <1>1, <1>2, OverlayType DEF DriverTypes
  <1>4. BufferAgrees' /\ ~Flushing'
    BY <1>1, <1>2 DEF BufferAgrees, Programmed, Flushing
  <1>5. QED
    BY <1>1, <1>3, <1>4, CopyWrites
=============================================================================
