------------------------------ MODULE MinFrame ------------------------------
(***************************************************************************)
(* Layer 1 of the MIN protocol: how a frame becomes bytes                  *)
(* (min_tx_frame(), which the host's implementation mirrors) and how the   *)
(* receiver takes them apart one by one (min_rx_byte()).                   *)
(*                                                                         *)
(* A frame is [id, control, payload].  Three header bytes in a row start   *)
(* it; two in a row inside it are followed by a stuff byte.                *)
(***************************************************************************)
EXTENDS Integers, SequencesExt

HEADER_BYTE == 170
STUFF_BYTE == 85
EOF_BYTE == 85

Byte == 0 .. 255
MAX_FRAME_PAYLOAD_SIZE == 15

Frame == [id : Byte, control : Byte, payload : Seq(Byte)]

\* fletcher16: two sums of 16 bits, folded to 8 by adding the carries.
Fold(x) == (x % 256) + x \div 256
SumsInit == <<255, 255>>
SumsStep(sums, byte) ==
  LET sum1 == sums[1] + byte
  IN <<Fold(sum1), Fold(sums[2] + sum1)>>
Finalize(sums) == 256 * Fold(sums[2]) + Fold(sums[1])

\* stuffed_tx_byte(): tx is what is queued so far, left the header bytes that
\* may still be queued in a row.
StuffedTxByte(tx, byte) ==
  CASE byte # HEADER_BYTE -> [bytes |-> Append(tx.bytes, byte), left |-> 2]
    [] byte = HEADER_BYTE /\ tx.left > 1 ->
         [bytes |-> Append(tx.bytes, byte), left |-> tx.left - 1]
    [] byte = HEADER_BYTE /\ tx.left <= 1 ->
         [bytes |-> tx.bytes \o <<byte, STUFF_BYTE>>, left |-> 2]

\* min_tx_frame(): the bytes of a frame.
TxFrame(f) ==
  LET content == <<f.id, f.control>> \o f.payload
      checksum == Finalize(FoldLeft(SumsStep, SumsInit, content))
      stuffed == FoldLeft(StuffedTxByte, [bytes |-> << >>, left |-> 2],
                          content \o <<checksum \div 256, checksum % 256>>)
  IN <<HEADER_BYTE, HEADER_BYTE, HEADER_BYTE>> \o stuffed.bytes \o <<EOF_BYTE>>
-----------------------------------------------------------------------------
\* The receiver: header bytes seen in a row, the state of its machine, and the
\* frame as far as it has come.
Receiver ==
  [seen : 0 .. 2,
   state : {"SEARCHING_FOR_SOF", "RECEIVING_ID", "RECEIVING_CONTROL", "RECEIVING_PAYLOAD",
            "RECEIVING_CHECKSUM_HIGH", "RECEIVING_CHECKSUM_LOW", "RECEIVING_EOF"},
   id : Byte, control : Byte, length : 0 .. MAX_FRAME_PAYLOAD_SIZE,
   buf : Seq(Byte), sums : (0 .. 511) \X (0 .. 511), checksum : 0 .. 65535]

\* min_init_layer1()
InitLayer1(r) == [r EXCEPT !.seen = 0, !.state = "SEARCHING_FOR_SOF"]

\* The machine as the linker clears it.
Cleared ==
  [seen |-> 0, state |-> "SEARCHING_FOR_SOF", id |-> 0, control |-> 0, length |-> 0,
   buf |-> << >>, sums |-> <<0, 0>>, checksum |-> 0]

\* The byte after two header bytes: a third starts a frame whatever came before,
\* a stuff byte is skipped, anything else is an error.
AfterHeaders(r, byte) ==
  [r EXCEPT !.seen = 0,
            !.state = CASE byte = HEADER_BYTE -> "RECEIVING_ID"
                        [] byte = STUFF_BYTE -> @
                        [] OTHER -> "SEARCHING_FOR_SOF"]

\* The checksum is compared with nothing.
ChecksumUnchecked(r, byte) == [r EXCEPT !.checksum = @ + byte, !.state = "RECEIVING_EOF"]

\* The second byte of the checksum, and the comparison.
ChecksumLow(r, byte) ==
  [r EXCEPT !.checksum = @ + byte,
            !.state = IF r.checksum + byte = Finalize(r.sums) THEN "RECEIVING_EOF"
                      ELSE "SEARCHING_FOR_SOF"]

\* A payload that ends one byte late.
PayloadByteLate(r, byte) ==
  [r EXCEPT !.buf = Append(@, byte), !.length = @ - 1, !.sums = SumsStep(@, byte),
            !.state = IF r.length = 0 THEN "RECEIVING_CHECKSUM_HIGH" ELSE @]

\* A byte of the payload, the last one if length has come down to it.
PayloadByte(r, byte) ==
  [r EXCEPT !.buf = Append(@, byte), !.length = @ - 1, !.sums = SumsStep(@, byte),
            !.state = IF r.length = 1 THEN "RECEIVING_CHECKSUM_HIGH" ELSE @]

\* A byte of the frame, by the state of the machine.
Receive(r, byte) ==
  CASE r.state = "SEARCHING_FOR_SOF" -> r
    [] r.state = "RECEIVING_ID" ->
         [r EXCEPT !.id = byte, !.buf = << >>, !.sums = SumsStep(SumsInit, byte),
                   !.state = "RECEIVING_CONTROL"]
    [] r.state = "RECEIVING_CONTROL" ->
         [r EXCEPT !.control = byte, !.length = byte % 16, !.sums = SumsStep(@, byte),
                   !.state = IF byte % 16 > 0 THEN "RECEIVING_PAYLOAD"
                             ELSE "RECEIVING_CHECKSUM_HIGH"]
    [] r.state = "RECEIVING_PAYLOAD" -> PayloadByte(r, byte)
    [] r.state = "RECEIVING_CHECKSUM_HIGH" ->
         [r EXCEPT !.checksum = 256 * byte, !.state = "RECEIVING_CHECKSUM_LOW"]
    [] r.state = "RECEIVING_CHECKSUM_LOW" -> ChecksumLow(r, byte)
    [] r.state = "RECEIVING_EOF" -> [r EXCEPT !.state = "SEARCHING_FOR_SOF"]

\* Header bytes are counted only while the receiver searches for a frame.
CountHeadersSearching(r, byte) ==
  IF byte = HEADER_BYTE /\ r.state = "SEARCHING_FOR_SOF" THEN r.seen + 1 ELSE 0

\* Header bytes in a row.
CountHeaders(r, byte) == IF byte = HEADER_BYTE THEN r.seen + 1 ELSE 0

\* min_rx_byte(): the receiver after a byte.
RxByte(r, byte) ==
  IF r.seen = 2 THEN AfterHeaders(r, byte)
  ELSE [Receive(r, byte) EXCEPT !.seen = CountHeaders(r, byte)]

\* The byte ends a frame that is passed up.
Completes(r, byte) == r.seen < 2 /\ r.state = "RECEIVING_EOF" /\ byte = EOF_BYTE
=============================================================================
