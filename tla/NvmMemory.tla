------------------------------- MODULE NvmMemory -------------------------------
(***************************************************************************)
(* What NvmDriverInterface.h promises its users: a linear memory of bytes  *)
(* that can be written anywhere, whose writes may wait in a buffer until   *)
(* flush(), plus what the hardware imposes: a block is erased before it is *)
(* programmed, so a loss of power damages the one block being saved.       *)
(***************************************************************************)
EXTENDS Integers, Sequences

CONSTANTS Addr, Byte, Erased, Block, BlockOf(_), None

VARIABLES
  content,   \* the byte a read of each address returns
  saved,     \* the byte each address holds without power
  saving     \* the block being saved, or None

Init ==
  /\ saved \in [Addr -> Byte]
  /\ content = saved
  /\ saving = None

\* write() lands at the addresses it names and nowhere else.
Write(a, data) ==
  /\ saving = None
  /\ content' = [x \in Addr |-> IF x - a + 1 \in DOMAIN data THEN data[x - a + 1] ELSE content[x]]
  /\ UNCHANGED <<saved, saving>>

\* The implementation saves a block when it likes: erase, then program piece by piece.
EraseBlock(b) ==
  /\ saving = None
  /\ saving' = b
  /\ saved' = [x \in Addr |-> IF BlockOf(x) = b THEN Erased ELSE saved[x]]
  /\ UNCHANGED content

Program(done) ==
  /\ saving # None
  /\ saved' = [x \in Addr |-> IF x \in done THEN content[x] ELSE saved[x]]
  /\ \/ saving' = saving
     \/ /\ saving' = None
        /\ \A x \in Addr : BlockOf(x) = saving => saved'[x] = content[x]
  /\ UNCHANGED content

PowerFail ==
  /\ content' = saved
  /\ saving' = None
  /\ UNCHANGED saved
=============================================================================
