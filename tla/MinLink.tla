------------------------------ MODULE MinLink ------------------------------
(***************************************************************************)
(* The way of a frame from the host to the firmware: bytes on USB, the     *)
(* interrupt that moves them to a FIFO which discards what it has no room  *)
(* for, the main loop that polls the FIFO when it finds the time, and the  *)
(* receiver of layer 1.  Plugging the device in resets the FIFO and the    *)
(* receiver from an interrupt, wherever the main loop is.                  *)
(***************************************************************************)
EXTENDS MinFrame

CONSTANTS
  Frames,     \* the frames the host may send
  RxSize,     \* RX_FIFO_MAXSIZE
  MaxFrames,  \* bound: frames the host sends
  MaxGaps,    \* bound: times the FIFO overflows
  MaxPlugs    \* bound: times the device is plugged in again

\* The low bits of control are the length of the payload, as min_tx_frame() has it.
ASSUME LinkAssumption ==
  /\ \A f \in Frames : f \in Frame /\ Len(f.payload) = f.control % 16
  /\ RxSize \in Nat \ {0}
  /\ MaxFrames \in Nat /\ MaxGaps \in Nat /\ MaxPlugs \in Nat

VARIABLES
  sent,       \* the frames the host has sent
  wire,       \* what the USB endpoint holds of the last of them
  rxFifo,     \* rx_fifo
  receiver,   \* the variables of layer 1
  received,   \* the frames layer 2 was given
  plugs,      \* times the device was plugged in again
  \* History: how many of the frames sent last came into the FIFO whole, one
  \* after another; the receiver's start counts as one.
  whole,
  cut,        \* history: a byte of the last frame was lost on the way to the FIFO
  gaps,       \* history: times the FIFO has overflowed
  open        \* history: the FIFO is overflowing

vars == <<sent, wire, rxFifo, receiver, received, plugs, whole, cut, gaps, open>>
loss == <<cut, gaps, open>>

Init == /\ sent = << >>
        /\ wire = << >>
        /\ rxFifo = << >>
        /\ receiver = Cleared
        /\ received = << >>
        /\ plugs = 0
        /\ whole = 1
        /\ cut = FALSE
        /\ gaps = 0
        /\ open = FALSE

\* The host sends a frame when the one before has left.
HostSend(f) ==
  /\ Len(sent) < MaxFrames
  /\ wire = << >>
  /\ sent' = Append(sent, f)
  /\ wire' = TxFrame(f)
  /\ cut' = FALSE
  /\ UNCHANGED <<rxFifo, receiver, received, plugs, whole, gaps, open>>

Room == RxSize - Len(rxFifo)

\* serial_ireceive(), for one of the bytes it moves: into the FIFO if that has
\* room (fifo_write()).
Ireceive ==
  /\ wire # << >>
  /\ Len(rxFifo) < RxSize
  /\ rxFifo' = Append(rxFifo, Head(wire))
  /\ wire' = Tail(wire)
  /\ open' = FALSE
  /\ whole' = IF wire' = << >> /\ ~cut THEN whole + 1 ELSE whole
  /\ UNCHANGED <<sent, receiver, received, plugs, cut, gaps>>

\* The same with the FIFO full: the byte is discarded.
Discard ==
  /\ wire # << >>
  /\ Len(rxFifo) = RxSize
  /\ open \/ gaps < MaxGaps
  /\ gaps' = IF open THEN gaps ELSE gaps + 1
  /\ open' = TRUE
  /\ cut' = TRUE
  /\ whole' = 0
  /\ wire' = Tail(wire)
  /\ UNCHANGED <<sent, rxFifo, receiver, received, plugs>>

\* min_frame_received(), if the byte completes a frame.
PassUp(byte) ==
  received' = IF Completes(receiver, byte)
              THEN Append(received, [id |-> receiver.id, control |-> receiver.control,
                                     payload |-> receiver.buf])
              ELSE received

\* One turn of poll_rx_bytes(): the next byte of the FIFO goes to min_rx_byte().
PollByte ==
  /\ rxFifo # << >>
  /\ receiver' = RxByte(receiver, Head(rxFifo))
  /\ PassUp(Head(rxFifo))
  /\ rxFifo' = Tail(rxFifo)
  /\ UNCHANGED <<sent, wire, plugs, whole, loss>>

\* init_serial(): what is on its way is lost.
ResetFifos ==
  /\ plugs < MaxPlugs
  /\ plugs' = plugs + 1
  /\ rxFifo' = << >>
  /\ wire' = << >>
  /\ whole' = 0
  /\ UNCHANGED <<sent, loss>>

\* init_min(), called by the interrupt of a USB plug while the main loop does
\* something else.
Plug ==
  /\ ResetFifos
  /\ receiver' = InitLayer1(receiver)
  /\ UNCHANGED received

\* The same between serial_receive() and min_rx_byte(): the byte comes to a
\* receiver that has been reset.
PlugBeforeByte ==
  /\ rxFifo # << >>
  /\ ResetFifos
  /\ receiver' = RxByte(InitLayer1(receiver), Head(rxFifo))
  /\ UNCHANGED received

\* The same inside min_rx_byte(): the state of the machine, or the count of
\* header bytes, is written after the interrupt has reset it.
PlugInsideByte ==
  /\ rxFifo # << >>
  /\ ResetFifos
  /\ LET after == RxByte(receiver, Head(rxFifo))
     IN \/ receiver' = [after EXCEPT !.seen = 0] /\ PassUp(Head(rxFifo))
        \/ receiver' = [InitLayer1(receiver) EXCEPT !.seen = after.seen] /\ UNCHANGED received

Next ==
  \/ \E f \in Frames : HostSend(f)
  \/ Ireceive \/ Discard
  \/ PollByte
  \/ Plug \/ PlugBeforeByte \/ PlugInsideByte

Spec == Init /\ [][Next]_vars
-----------------------------------------------------------------------------
TypeOK ==
  /\ sent \in Seq(Frame)
  /\ wire \in Seq(Byte)
  /\ rxFifo \in Seq(Byte) /\ Len(rxFifo) <= RxSize
  /\ receiver \in Receiver /\ Len(receiver.buf) <= MAX_FRAME_PAYLOAD_SIZE
  /\ received \in Seq(Frame)
  /\ plugs \in 0 .. MaxPlugs
  /\ whole \in 0 .. MaxFrames + 1
  /\ cut \in BOOLEAN /\ gaps \in 0 .. MaxGaps /\ open \in BOOLEAN

\* Whatever bytes the FIFO discards and a plug throws away, wherever the pieces
\* of two frames meet: layer 2 is given only frames the host has sent, in their
\* order and each once.
OnlySentFrames ==
  \E at \in [DOMAIN received -> DOMAIN sent] :
    /\ \A i \in DOMAIN received : received[i] = sent[at[i]]
    /\ \A i, j \in DOMAIN received : i < j => at[i] < at[j]

\* Everything the host has sent has been looked at.
Drained == wire = << >> /\ rxFifo = << >>

\* "three header bytes means start of frame and should reset": the receiver
\* finds back from any loss.  Of the frames that came whole since the last one,
\* all but the first are received (the first may lose its header to a piece
\* that ends in a header byte).
Resynchronises ==
  Drained =>
    LET n == IF whole = 0 THEN 0 ELSE whole - 1
    IN IsSuffix(SubSeq(sent, Len(sent) - n + 1, Len(sent)), received)
=============================================================================
