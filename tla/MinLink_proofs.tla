---------------------------- MODULE MinLink_proofs ----------------------------
(***************************************************************************)
(* Whatever frames are sent, a frame never leaves the receiver's buffer,   *)
(* and of frames that come whole one after another all but the first are   *)
(* received: the receiver takes apart what min_tx_frame() puts together.   *)
(***************************************************************************)
EXTENDS MinLink, SequenceTheorems, SetInduction, TLAPS

-----------------------------------------------------------------------------
(* The checksum. *)

Sums == (0 .. 257) \X (0 .. 257)
WordTop == 65535
Word == 0 .. WordTop

LEMMA FoldBound == \A x \in 0 .. 769 : Fold(x) \in 0 .. 257
  BY DEF Fold

LEMMA FoldTwice == \A x \in 0 .. 257 : Fold(x) \in 0 .. 255
  BY DEF Fold

\* Two bytes make a word of 16 bits.
LEMMA WordOf ==
  ASSUME NEW a \in Byte, NEW b \in Byte
  PROVE  256 * a \in Word /\ 256 * a + b \in Word
  <1>1. a \in Int /\ b \in Int /\ 0 <= a /\ a <= 255 /\ 0 <= b /\ b <= 255
    BY DEF Byte
  <1>2. /\ 256 * a \in Int /\ 0 <= 256 * a /\ 256 * a <= 65535
        /\ 256 * a + b \in Int /\ 0 <= 256 * a + b /\ 256 * a + b <= 65535
    BY <1>1
  <1>3. WordTop \in Int
    BY DEF WordTop
  <1>4. 256 * a <= WordTop /\ 256 * a + b <= WordTop
    BY <1>2 DEF WordTop
  <1> DEFINE c == 256 * a
             d == 256 * a + b
  <1>5. c \in Int /\ d \in Int /\ 0 <= c /\ 0 <= d /\ c <= WordTop /\ d <= WordTop
    BY <1>2, <1>4
  <1> HIDE DEF c, d
  <1>6. c \in Word /\ d \in Word
    BY <1>3, <1>5 DEF Word
  <1>7. QED
    BY <1>6 DEF c, d

LEMMA SumsStepType ==
  ASSUME NEW s \in Sums, NEW byte \in Byte
  PROVE  SumsStep(s, byte) \in Sums
  <1> DEFINE a == s[1]
             b == s[2]
             c == a + byte
             d == b + c
  <1>1. a \in 0 .. 257 /\ b \in 0 .. 257 /\ byte \in 0 .. 255
    BY DEF Sums, Byte
  <1>2. SumsStep(s, byte) = <<Fold(c), Fold(d)>>
    BY DEF SumsStep
  <1> HIDE DEF a, b
  <1>3. c \in Int /\ 0 <= c /\ c <= 512 /\ d \in Int /\ 0 <= d /\ d <= 769
    BY <1>1
  <1> HIDE DEF c, d
  <1>4. c \in 0 .. 769 /\ d \in 0 .. 769
    BY <1>3
  <1>5. Fold(c) \in 0 .. 257 /\ Fold(d) \in 0 .. 257
    BY <1>4, FoldBound
  <1>6. QED
    BY <1>2, <1>5 DEF Sums

LEMMA FinalizeType ==
  ASSUME NEW s \in Sums
  PROVE  Finalize(s) \in Word
  <1> DEFINE a == Fold(s[2])
             b == Fold(s[1])
  <1>1. a \in Byte /\ b \in Byte
    BY FoldTwice DEF Sums, Byte
  <1>2. Finalize(s) = 256 * a + b
    BY DEF Finalize
  <1> HIDE DEF a, b
  <1>3. QED
    BY <1>1, <1>2, WordOf

LEMMA ChecksumBytes ==
  ASSUME NEW x \in Word
  PROVE  /\ x \div 256 \in Byte /\ x % 256 \in Byte
         /\ 256 * (x \div 256) + (x % 256) = x
  <1>1. x \in Int /\ 0 <= x /\ x < 65536
    <2>1. WordTop \in Int /\ WordTop < 65536
      BY DEF WordTop
    <2>2. x \in Int /\ 0 <= x /\ x <= WordTop
      BY <2>1 DEF Word
    <2>3. QED
      BY <2>1, <2>2
  <1>2. x \div 256 \in Int /\ x % 256 \in 0 .. 255 /\ x = 256 * (x \div 256) + (x % 256)
    BY <1>1
  <1>3. x \div 256 \in 0 .. 255
    BY <1>1, <1>2
  <1>4. QED
    BY <1>2, <1>3 DEF Byte

\* The sums after each byte of a frame's content.
IsSums(w, c) ==
  /\ w \in [0 .. Len(c) -> Sums]
  /\ w[0] = SumsInit
  /\ \A i \in 0 .. Len(c) - 1 : w[i + 1] = SumsStep(w[i], c[i + 1])
  /\ w[Len(c)] = FoldLeft(SumsStep, SumsInit, c)

LEMMA SumsExist ==
  ASSUME NEW c \in Seq(Byte)
  PROVE  \E w : IsSums(w, c)
  <1> DEFINE n == Len(c)
             Raw(f) == f = [S \in SUBSET (DOMAIN c) |->
                              IF S = {} THEN SumsInit
                              ELSE SumsStep(f[S \ {Max(S)}], c[Max(S)])]
             F == [p \in Sums \X Byte |-> SumsStep(p[1], p[2])]
  <1>1. n \in Nat /\ DOMAIN c = 1 .. n /\ c \in [1 .. n -> Byte]
    OBVIOUS
  <1>2. SumsInit \in Sums
    BY DEF SumsInit, Sums
  <1>3. F \in [Sums \X Byte -> Sums] /\ \A s \in Sums, b \in Byte : F[<<s, b>>] = SumsStep(s, b)
    BY SumsStepType
  <1>4. FoldLeft(SumsStep, SumsInit, c) = (CHOOSE f : Raw(f))[DOMAIN c]
    BY Zenon DEF FoldLeft, MapThenFoldSet
  <1> HIDE DEF n, F
  <1>5. PICK f : IsFold(f, Sums, SumsInit, F, c, n)
    BY <1>1, <1>2, <1>3, FoldExists
  <1>6. Raw(f)
    <2>1. /\ f \in [SUBSET (1 .. n) -> Sums]
          /\ \A S \in SUBSET (1 .. n) :
               f[S] = IF S = {} THEN SumsInit ELSE F[<<f[S \ {Max(S)}], c[Max(S)]>>]
      BY <1>5 DEF IsFold
    <2>2. \A S \in SUBSET (1 .. n) : S # {} => Max(S) \in S
      BY <1>1, GreatestPlace
    <2>3. \A S \in SUBSET (1 .. n) :
            S # {} => f[S \ {Max(S)}] \in Sums /\ c[Max(S)] \in Byte
      BY <1>1, <2>1, <2>2
    <2>4. \A S \in SUBSET (1 .. n) :
            f[S] = IF S = {} THEN SumsInit ELSE SumsStep(f[S \ {Max(S)}], c[Max(S)])
      BY <1>3, <2>1, <2>3
    <2>5. f = [S \in SUBSET (1 .. n) |->
                 IF S = {} THEN SumsInit ELSE SumsStep(f[S \ {Max(S)}], c[Max(S)])]
      BY <2>1, <2>4
    <2>6. QED
      BY <1>1, <2>5
  <1> DEFINE g == CHOOSE h : Raw(h)
  <1>7. Raw(g)
    BY <1>6, Zenon
  <1> HIDE DEF g
  <1>8. \A S \in SUBSET (1 .. n) :
          g[S] = IF S = {} THEN SumsInit ELSE SumsStep(g[S \ {Max(S)}], c[Max(S)])
    BY <1>1, <1>7
  <1> HIDE DEF Raw
  <1> DEFINE w == [i \in 0 .. n |-> g[1 .. i]]
  <1>9. w[0] = SumsInit
    <2>1. 1 .. 0 = {} /\ {} \in SUBSET (1 .. n) /\ 0 \in 0 .. n
      BY <1>1
    <2>2. QED
      BY <1>8, <2>1
  <1>10. \A i \in 0 .. n - 1 : w[i + 1] = SumsStep(w[i], c[i + 1])
    <2> TAKE i \in 0 .. n - 1
    <2>1. i \in 0 .. n /\ i + 1 \in 0 .. n
      BY <1>1
    <2>2. g[1 .. i + 1] = SumsStep(g[(1 .. i + 1) \ {Max(1 .. i + 1)}], c[Max(1 .. i + 1)])
      BY <1>1, <1>8, FirstPlaces
    <2>3. g[1 .. i + 1] = SumsStep(g[1 .. i], c[i + 1])
      BY <1>1, <2>2, FirstPlaces
    <2>4. QED
      BY <2>1, <2>3
  <1>11. \A i \in 0 .. n - 1 : c[i + 1] \in Byte
    BY <1>1
  <1>12. w[n] = FoldLeft(SumsStep, SumsInit, c)
    BY <1>1, <1>4 DEF g
  <1>13. w = [i \in 0 .. n |-> w[i]]
    OBVIOUS
  <1> HIDE DEF w
  <1>14. \A i \in 0 .. n : w[i] \in Sums
    <2>1. \A i \in 0 .. n - 1 : w[i] \in Sums => w[i + 1] \in Sums
      BY <1>10, <1>11, SumsStepType
    <2>2. QED
      BY <1>1, <1>2, <1>9, <2>1, WalkStays
  <1>15. w \in [0 .. n -> Sums]
    BY <1>13, <1>14
  <1>16. QED
    BY <1>9, <1>10, <1>12, <1>15 DEF IsSums, n

-----------------------------------------------------------------------------
(* Stuffing. *)

Queue == [bytes : Seq(Byte), left : {1, 2}]
Unsent == [bytes |-> << >>, left |-> 2]

\* A byte goes to the end of the queue, the second header byte in a row with a stuff byte.
Plain(tx, byte, next) ==
  /\ Len(next.bytes) = Len(tx.bytes) + 1
  /\ next.left = IF byte = HEADER_BYTE THEN 1 ELSE 2
  /\ byte = HEADER_BYTE => tx.left = 2

Stuffing(tx, byte, next) ==
  /\ Len(next.bytes) = Len(tx.bytes) + 2
  /\ byte = HEADER_BYTE /\ tx.left = 1 /\ next.left = 2
  /\ next.bytes[Len(tx.bytes) + 2] = STUFF_BYTE

Queued(tx, byte, next) ==
  /\ next \in Queue
  /\ \A k \in 1 .. Len(tx.bytes) : next.bytes[k] = tx.bytes[k]
  /\ next.bytes[Len(tx.bytes) + 1] = byte
  /\ Plain(tx, byte, next) \/ Stuffing(tx, byte, next)

LEMMA StuffedQueues ==
  ASSUME NEW tx \in Queue, NEW byte \in Byte
  PROVE  Queued(tx, byte, StuffedTxByte(tx, byte))
  <1> DEFINE next == StuffedTxByte(tx, byte)
  <1>1. tx.bytes \in Seq(Byte) /\ tx.left \in {1, 2} /\ HEADER_BYTE \in Byte /\ STUFF_BYTE \in Byte
    BY DEF Queue, Byte, HEADER_BYTE, STUFF_BYTE
  <1>2. CASE byte # HEADER_BYTE
    <2>1. next = [bytes |-> Append(tx.bytes, byte), left |-> 2]
      BY <1>2 DEF StuffedTxByte
    <2>2. QED
      BY <1>1, <1>2, <2>1 DEF Queued, Plain, Queue
  <1>3. CASE byte = HEADER_BYTE /\ tx.left = 2
    <2>1. next = [bytes |-> Append(tx.bytes, byte), left |-> 1]
      BY <1>3 DEF StuffedTxByte
    <2>2. QED
      BY <1>1, <1>3, <2>1 DEF Queued, Plain, Queue
  <1>4. CASE byte = HEADER_BYTE /\ tx.left = 1
    <2>1. next = [bytes |-> tx.bytes \o <<byte, STUFF_BYTE>>, left |-> 2]
      BY <1>4 DEF StuffedTxByte
    <2>2. QED
      BY <1>1, <1>4, <2>1 DEF Queued, Stuffing, Queue
  <1>5. QED
    BY <1>1, <1>2, <1>3, <1>4

LEMMA StuffedType ==
  ASSUME NEW tx \in Queue, NEW byte \in Byte
  PROVE  StuffedTxByte(tx, byte) \in Queue
  BY StuffedQueues DEF Queued

\* What is queued after each byte.
IsQueue(w, c) ==
  /\ w \in [0 .. Len(c) -> Queue]
  /\ w[0] = Unsent
  /\ \A i \in 0 .. Len(c) - 1 : w[i + 1] = StuffedTxByte(w[i], c[i + 1])
  /\ w[Len(c)] = FoldLeft(StuffedTxByte, Unsent, c)

LEMMA QueueExists ==
  ASSUME NEW c \in Seq(Byte)
  PROVE  \E w : IsQueue(w, c)
  <1> DEFINE n == Len(c)
             Raw(f) == f = [S \in SUBSET (DOMAIN c) |->
                              IF S = {} THEN Unsent
                              ELSE StuffedTxByte(f[S \ {Max(S)}], c[Max(S)])]
             F == [p \in Queue \X Byte |-> StuffedTxByte(p[1], p[2])]
  <1>1. n \in Nat /\ DOMAIN c = 1 .. n /\ c \in [1 .. n -> Byte]
    OBVIOUS
  <1>2. Unsent \in Queue
    BY DEF Unsent, Queue
  <1>3. /\ F \in [Queue \X Byte -> Queue]
        /\ \A s \in Queue, b \in Byte : F[<<s, b>>] = StuffedTxByte(s, b)
    BY StuffedType
  <1>4. FoldLeft(StuffedTxByte, Unsent, c) = (CHOOSE f : Raw(f))[DOMAIN c]
    BY Zenon DEF FoldLeft, MapThenFoldSet
  <1> HIDE DEF n, F
  <1>5. PICK f : IsFold(f, Queue, Unsent, F, c, n)
    BY <1>1, <1>2, <1>3, FoldExists
  <1>6. Raw(f)
    <2>1. /\ f \in [SUBSET (1 .. n) -> Queue]
          /\ \A S \in SUBSET (1 .. n) :
               f[S] = IF S = {} THEN Unsent ELSE F[<<f[S \ {Max(S)}], c[Max(S)]>>]
      BY <1>5 DEF IsFold
    <2>2. \A S \in SUBSET (1 .. n) : S # {} => Max(S) \in S
      BY <1>1, GreatestPlace
    <2>3. \A S \in SUBSET (1 .. n) :
            S # {} => f[S \ {Max(S)}] \in Queue /\ c[Max(S)] \in Byte
      BY <1>1, <2>1, <2>2
    <2>4. \A S \in SUBSET (1 .. n) :
            f[S] = IF S = {} THEN Unsent ELSE StuffedTxByte(f[S \ {Max(S)}], c[Max(S)])
      BY <1>3, <2>1, <2>3
    <2>5. f = [S \in SUBSET (1 .. n) |->
                 IF S = {} THEN Unsent ELSE StuffedTxByte(f[S \ {Max(S)}], c[Max(S)])]
      BY <2>1, <2>4
    <2>6. QED
      BY <1>1, <2>5
  <1> DEFINE g == CHOOSE h : Raw(h)
  <1>7. Raw(g)
    BY <1>6, Zenon
  <1> HIDE DEF g
  <1>8. \A S \in SUBSET (1 .. n) :
          g[S] = IF S = {} THEN Unsent ELSE StuffedTxByte(g[S \ {Max(S)}], c[Max(S)])
    BY <1>1, <1>7
  <1> HIDE DEF Raw
  <1> DEFINE w == [i \in 0 .. n |-> g[1 .. i]]
  <1>9. w[0] = Unsent
    <2>1. 1 .. 0 = {} /\ {} \in SUBSET (1 .. n) /\ 0 \in 0 .. n
      BY <1>1
    <2>2. QED
      BY <1>8, <2>1
  <1>10. \A i \in 0 .. n - 1 : w[i + 1] = StuffedTxByte(w[i], c[i + 1])
    <2> TAKE i \in 0 .. n - 1
    <2>1. i \in 0 .. n /\ i + 1 \in 0 .. n
      BY <1>1
    <2>2. g[1 .. i + 1] = StuffedTxByte(g[(1 .. i + 1) \ {Max(1 .. i + 1)}], c[Max(1 .. i + 1)])
      BY <1>1, <1>8, FirstPlaces
    <2>3. g[1 .. i + 1] = StuffedTxByte(g[1 .. i], c[i + 1])
      BY <1>1, <2>2, FirstPlaces
    <2>4. QED
      BY <2>1, <2>3
  <1>11. \A i \in 0 .. n - 1 : c[i + 1] \in Byte
    BY <1>1
  <1>12. w[n] = FoldLeft(StuffedTxByte, Unsent, c)
    BY <1>1, <1>4 DEF g
  <1>13. w = [i \in 0 .. n |-> w[i]]
    OBVIOUS
  <1> HIDE DEF w
  <1>14. \A i \in 0 .. n : w[i] \in Queue
    <2>1. \A i \in 0 .. n - 1 : w[i] \in Queue => w[i + 1] \in Queue
      BY <1>10, <1>11, StuffedType
    <2>2. QED
      BY <1>1, <1>2, <1>9, <2>1, WalkStays
  <1>15. w \in [0 .. n -> Queue]
    BY <1>13, <1>14
  <1>16. QED
    BY <1>9, <1>10, <1>12, <1>15 DEF IsQueue, n

-----------------------------------------------------------------------------
(* The bytes of a frame. *)

Content(f) == <<f.id, f.control>> \o f.payload
Checksum(f) == Finalize(FoldLeft(SumsStep, SumsInit, Content(f)))
Checked(f) == Content(f) \o <<Checksum(f) \div 256, Checksum(f) % 256>>

SumsOf(f) == CHOOSE w : IsSums(w, Content(f))
QueueOf(f) == CHOOSE w : IsQueue(w, Checked(f))

\* How many bytes are stuffed: id, control, payload and checksum.
Bytes(f) == Len(f.payload) + 4

LEMMA ContentType ==
  ASSUME NEW f \in Frame
  PROVE  /\ Content(f) \in Seq(Byte) /\ Len(Content(f)) = Len(f.payload) + 2
         /\ Content(f)[1] = f.id /\ Content(f)[2] = f.control
         /\ \A k \in 1 .. Len(f.payload) : Content(f)[k + 2] = f.payload[k]
  <1>1. f.id \in Byte /\ f.control \in Byte /\ f.payload \in Seq(Byte)
    BY DEF Frame
  <1>2. <<f.id, f.control>> \in Seq(Byte)
    BY <1>1
  <1>3. QED
    BY <1>1, <1>2 DEF Content

LEMMA SumsOfFrame ==
  ASSUME NEW f \in Frame
  PROVE  IsSums(SumsOf(f), Content(f)) /\ Checksum(f) = Finalize(SumsOf(f)[Len(f.payload) + 2])
  <1>1. IsSums(SumsOf(f), Content(f))
    BY ContentType, SumsExist DEF SumsOf
  <1>2. QED
    BY <1>1, ContentType DEF IsSums, Checksum

LEMMA ChecksumType ==
  ASSUME NEW f \in Frame
  PROVE  Checksum(f) \in Word
  <1>1. Len(f.payload) + 2 \in 0 .. Len(Content(f))
    BY ContentType DEF Frame
  <1>2. SumsOf(f)[Len(f.payload) + 2] \in Sums
    BY <1>1, SumsOfFrame DEF IsSums
  <1>3. QED
    BY <1>2, FinalizeType, SumsOfFrame

LEMMA CheckedType ==
  ASSUME NEW f \in Frame
  PROVE  /\ Bytes(f) \in Nat /\ Checked(f) \in Seq(Byte) /\ Len(Checked(f)) = Bytes(f)
         /\ Checked(f)[1] = f.id /\ Checked(f)[2] = f.control
         /\ \A k \in 1 .. Len(f.payload) : Checked(f)[k + 2] = f.payload[k]
         /\ Checked(f)[Len(f.payload) + 3] = Checksum(f) \div 256
         /\ Checked(f)[Len(f.payload) + 4] = Checksum(f) % 256
  <1> DEFINE c == Content(f)
             n == Len(f.payload)
             hi == Checksum(f) \div 256
             lo == Checksum(f) % 256
  <1>1. hi \in Byte /\ lo \in Byte
    BY ChecksumType, ChecksumBytes
  <1>2. /\ c \in Seq(Byte) /\ Len(c) = n + 2 /\ n \in Nat /\ c[1] = f.id /\ c[2] = f.control
        /\ \A k \in 1 .. n : c[k + 2] = f.payload[k]
    BY ContentType DEF Frame
  <1>3. Checked(f) = c \o <<hi, lo>> /\ Bytes(f) = n + 4
    BY DEF Checked, Bytes
  <1> HIDE DEF c, hi, lo, n
  <1>4. <<hi, lo>> \in Seq(Byte) /\ Len(<<hi, lo>>) = 2
    BY <1>1
  <1>5. Checked(f) \in Seq(Byte) /\ Len(Checked(f)) = n + 4
    BY <1>2, <1>3, <1>4
  <1>6. \A k \in 1 .. n + 2 : Checked(f)[k] = c[k]
    BY <1>2, <1>3, <1>4
  <1>7. Checked(f)[n + 3] = hi /\ Checked(f)[n + 4] = lo
    BY <1>2, <1>3, <1>4
  <1>8. 1 \in 1 .. n + 2 /\ 2 \in 1 .. n + 2 /\ \A k \in 1 .. n : k + 2 \in 1 .. n + 2
    BY <1>2
  <1>9. Checked(f)[1] = f.id /\ Checked(f)[2] = f.control
    BY <1>2, <1>6, <1>8
  <1>10. \A k \in 1 .. n : Checked(f)[k + 2] = f.payload[k]
    BY <1>2, <1>6, <1>8
  <1>11. QED
    BY <1>2, <1>3, <1>5, <1>7, <1>9, <1>10 DEF n, hi, lo

LEMMA QueueOfFrame ==
  ASSUME NEW f \in Frame
  PROVE  IsQueue(QueueOf(f), Checked(f))
  BY CheckedType, QueueExists DEF QueueOf

\* Each byte goes to the end of the queue.
LEMMA QueueStep ==
  ASSUME NEW f \in Frame, NEW i \in 0 .. Bytes(f) - 1
  PROVE  /\ QueueOf(f)[i] \in Queue /\ Checked(f)[i + 1] \in Byte
         /\ Queued(QueueOf(f)[i], Checked(f)[i + 1], QueueOf(f)[i + 1])
  <1>1. i \in 0 .. Bytes(f) /\ Checked(f)[i + 1] \in Byte
    BY CheckedType
  <1>2. QueueOf(f)[i] \in Queue
    BY <1>1, QueueOfFrame, CheckedType DEF IsQueue
  <1>3. QueueOf(f)[i + 1] = StuffedTxByte(QueueOf(f)[i], Checked(f)[i + 1])
    <2>1. IsQueue(QueueOf(f), Checked(f)) /\ Len(Checked(f)) = Bytes(f)
      BY QueueOfFrame, CheckedType
    <2>2. QED
      BY <2>1 DEF IsQueue
  <1>4. QED
    BY <1>1, <1>2, <1>3, StuffedQueues

LEMMA QueueType ==
  ASSUME NEW f \in Frame, NEW i \in 0 .. Bytes(f)
  PROVE  /\ QueueOf(f)[i] \in Queue /\ QueueOf(f)[i].bytes \in Seq(Byte)
         /\ Len(QueueOf(f)[i].bytes) \in Nat /\ QueueOf(f)[i].left \in {1, 2}
  <1>1. QueueOf(f)[i] \in Queue
    BY QueueOfFrame, CheckedType DEF IsQueue
  <1>2. QED
    BY <1>1 DEF Queue

\* Earlier bytes stay where they are, and each adds to the queue.
LEMMA QueueGrows ==
  ASSUME NEW f \in Frame, NEW i \in 0 .. Bytes(f), NEW j \in i .. Bytes(f)
  PROVE  /\ \A k \in 1 .. Len(QueueOf(f)[i].bytes) :
              QueueOf(f)[j].bytes[k] = QueueOf(f)[i].bytes[k]
         /\ Len(QueueOf(f)[j].bytes) >= Len(QueueOf(f)[i].bytes) + (j - i)
  <1> DEFINE q(k) == QueueOf(f)[k].bytes
             m == Bytes(f)
             Holds(l) == /\ \A k \in 1 .. Len(q(i)) : q(l)[k] = q(i)[k]
                         /\ Len(q(l)) >= Len(q(i)) + (l - i)
             G == {n \in Nat : i + n <= m => Holds(i + n)}
  <1>1. m \in Nat /\ i \in Nat /\ j \in Nat
    BY CheckedType
  <1>2. \A k \in 0 .. m : Len(q(k)) \in Nat
    BY QueueType
  <1>3. \A l \in 0 .. m - 1 :
          /\ \A k \in 1 .. Len(q(l)) : q(l + 1)[k] = q(l)[k]
          /\ Len(q(l + 1)) >= Len(q(l)) + 1
    <2> TAKE l \in 0 .. m - 1
    <2>1. Queued(QueueOf(f)[l], Checked(f)[l + 1], QueueOf(f)[l + 1])
      BY QueueStep
    <2>2. \A k \in 1 .. Len(q(l)) : q(l + 1)[k] = q(l)[k]
      BY <2>1 DEF Queued
    <2>3. Len(q(l + 1)) = Len(q(l)) + 1 \/ Len(q(l + 1)) = Len(q(l)) + 2
      BY <2>1 DEF Queued, Plain, Stuffing
    <2>4. Len(q(l)) \in Nat
      BY <1>1, <1>2
    <2>5. QED
      BY <2>2, <2>3, <2>4
  <1> HIDE DEF q, m
  <1>4. 0 \in G
    <2>1. i + 0 = i /\ i - i = 0
      BY <1>1
    <2>2. Holds(i)
      BY <1>1, <1>2, <2>1 DEF m
    <2>3. QED
      BY <2>1, <2>2
  <1>5. ASSUME NEW n \in G PROVE n + 1 \in G
    <2> SUFFICES ASSUME i + (n + 1) <= m
                 PROVE  Holds(i + (n + 1))
      OBVIOUS
    <2> DEFINE l == i + n
    <2>1. n \in Nat /\ l \in 0 .. m - 1 /\ l \in 0 .. m /\ i + (n + 1) = l + 1 /\ l - i = n
      BY <1>1
    <2>2. Holds(l)
      BY <1>1, <2>1
    <2> HIDE DEF l
    <2>3. Len(q(i)) \in Nat /\ Len(q(l)) \in Nat /\ Len(q(l + 1)) \in Nat
      BY <1>1, <1>2, <2>1 DEF m
    <2>4. \A k \in 1 .. Len(q(i)) : k \in 1 .. Len(q(l))
      BY <2>1, <2>2, <2>3
    <2>5. \A k \in 1 .. Len(q(i)) : q(l + 1)[k] = q(i)[k]
      BY <1>3, <2>1, <2>2, <2>4
    <2>6. Len(q(l + 1)) >= Len(q(l)) + 1
      BY <1>3, <2>1
    <2>7. Len(q(l + 1)) >= Len(q(i)) + ((l + 1) - i)
      BY <1>1, <2>1, <2>2, <2>3, <2>6
    <2>8. QED
      BY <2>1, <2>5, <2>7
  <1>6. G = Nat
    <2> HIDE DEF Holds
    <2>1. G \in SUBSET Nat
      OBVIOUS
    <2> HIDE DEF G
    <2>2. QED
      BY <1>4, <1>5, <2>1, NatSetInduction
  <1>7. Holds(j)
    <2> HIDE DEF Holds
    <2>1. j - i \in Nat /\ i + (j - i) = j /\ j <= m
      BY <1>1 DEF m
    <2>2. QED
      BY <1>6, <2>1
  <1>8. QED
    BY <1>7 DEF q

\* What min_tx_frame() makes of a frame.
LEMMA TxFrameBytes ==
  ASSUME NEW f \in Frame
  PROVE  LET t == TxFrame(f)
             b == QueueOf(f)[Bytes(f)].bytes
         IN /\ t \in Seq(Byte) /\ b \in Seq(Byte)
            /\ Len(t) = Len(b) + 4
            /\ t[1] = HEADER_BYTE /\ t[2] = HEADER_BYTE /\ t[3] = HEADER_BYTE
            /\ \A k \in 1 .. Len(b) : t[k + 3] = b[k]
            /\ t[Len(b) + 4] = EOF_BYTE
  <1> DEFINE t == TxFrame(f)
             b == QueueOf(f)[Bytes(f)].bytes
  <1>1. FoldLeft(StuffedTxByte, Unsent, Checked(f)) = QueueOf(f)[Bytes(f)]
    BY QueueOfFrame, CheckedType DEF IsQueue
  <1>2. t = <<HEADER_BYTE, HEADER_BYTE, HEADER_BYTE>> \o b \o <<EOF_BYTE>>
    BY <1>1 DEF TxFrame, Checked, Checksum, Content, Unsent
  <1>3. b \in Seq(Byte)
    <2>1. Bytes(f) \in 0 .. Bytes(f)
      BY CheckedType
    <2>2. QED
      BY <2>1, QueueType
  <1>4. HEADER_BYTE \in Byte /\ EOF_BYTE \in Byte
    BY DEF HEADER_BYTE, EOF_BYTE, Byte
  <1> HIDE DEF t, b
  <1>5. <<HEADER_BYTE, HEADER_BYTE, HEADER_BYTE>> \in Seq(Byte) /\ <<EOF_BYTE>> \in Seq(Byte)
    BY <1>4
  <1>6. /\ t \in Seq(Byte) /\ Len(t) = Len(b) + 4
        /\ t[1] = HEADER_BYTE /\ t[2] = HEADER_BYTE /\ t[3] = HEADER_BYTE
        /\ \A k \in 1 .. Len(b) : t[k + 3] = b[k]
        /\ t[Len(b) + 4] = EOF_BYTE
    BY <1>2, <1>3, <1>5
  <1>7. QED
    BY <1>3, <1>6 DEF t, b

-----------------------------------------------------------------------------
(* The receiver. *)

States == {"SEARCHING_FOR_SOF", "RECEIVING_ID", "RECEIVING_CONTROL", "RECEIVING_PAYLOAD",
           "RECEIVING_CHECKSUM_HIGH", "RECEIVING_CHECKSUM_LOW", "RECEIVING_EOF"}
WideSums == (0 .. 511) \X (0 .. 511)

LEMMA ReceiverFields ==
  Receiver = [seen : 0 .. 2, state : States, id : Byte, control : Byte, length : 0 .. 15,
              buf : Seq(Byte), sums : WideSums, checksum : Word]
  BY DEF Receiver, States, WideSums, Word, WordTop, MAX_FRAME_PAYLOAD_SIZE

\* What has come of a payload and what is to come fit the buffer.
Fits(r) ==
  /\ r.sums \in Sums
  /\ Len(r.buf) <= 15
  /\ r.state = "RECEIVING_CONTROL" => r.buf = << >>
  /\ r.state = "RECEIVING_PAYLOAD" => r.length > 0 /\ Len(r.buf) + r.length <= 15
  /\ r.state = "RECEIVING_CHECKSUM_LOW" => \E b \in Byte : r.checksum = 256 * b

Machine == {r \in Receiver : Fits(r)}

LEMMA MachineFields ==
  ASSUME NEW r \in Machine
  PROVE  /\ r \in Receiver /\ r.sums \in Sums /\ r.buf \in Seq(Byte) /\ Len(r.buf) \in Nat
         /\ r.seen \in 0 .. 2 /\ r.id \in Byte /\ r.control \in Byte /\ r.state \in States
         /\ r.length \in 0 .. 15 /\ Len(r.buf) <= 15
         /\ r.state = "RECEIVING_CONTROL" => r.buf = << >>
         /\ r.state = "RECEIVING_PAYLOAD" => r.length > 0 /\ Len(r.buf) + r.length <= 15
         /\ r.state = "RECEIVING_CHECKSUM_LOW" => \E b \in Byte : r.checksum = 256 * b
  BY ReceiverFields DEF Machine, Fits

LEMMA SumsAreSmall == Sums \subseteq WideSums
  BY DEF Sums, WideSums

LEMMA ReceiveType ==
  ASSUME NEW r \in Machine, NEW byte \in Byte
  PROVE  Receive(r, byte) \in Machine /\ Receive(r, byte).seen = r.seen
  <1> DEFINE next == Receive(r, byte)
  <1>1. r \in Receiver
    BY DEF Machine
  <1>2. SumsStep(SumsInit, byte) \in Sums /\ SumsStep(r.sums, byte) \in Sums
    <2>1. SumsInit \in Sums /\ r.sums \in Sums
      BY MachineFields DEF SumsInit, Sums
    <2>2. QED
      BY <2>1, SumsStepType
  <1>3. CASE r.state = "SEARCHING_FOR_SOF"
    BY <1>3 DEF Receive
  <1>4. CASE r.state = "RECEIVING_ID"
    <2>1. next = [r EXCEPT !.id = byte, !.buf = << >>, !.sums = SumsStep(SumsInit, byte),
                           !.state = "RECEIVING_CONTROL"]
      BY <1>4 DEF Receive
    <2>2. << >> \in Seq(Byte) /\ Len(<< >>) = 0
      OBVIOUS
    <2>3. SumsStep(SumsInit, byte) \in WideSums /\ "RECEIVING_CONTROL" \in States
      BY <1>2, SumsAreSmall DEF States
    <2>4. next \in Receiver
      BY <1>1, <2>1, <2>2, <2>3, ReceiverFields
    <2>5. /\ next.seen = r.seen /\ next.buf = << >> /\ next.sums \in Sums
          /\ next.state = "RECEIVING_CONTROL"
      BY <1>2, <2>1, MachineFields, ReceiverFields
    <2>6. QED
      BY <2>2, <2>4, <2>5 DEF Machine, Fits
  <1>5. CASE r.state = "RECEIVING_CONTROL"
    <2>1. next = [r EXCEPT !.control = byte, !.length = byte % 16, !.sums = SumsStep(@, byte),
                           !.state = IF byte % 16 > 0 THEN "RECEIVING_PAYLOAD"
                                     ELSE "RECEIVING_CHECKSUM_HIGH"]
      BY <1>5 DEF Receive
    <2> DEFINE length == byte % 16
               state == IF length > 0 THEN "RECEIVING_PAYLOAD" ELSE "RECEIVING_CHECKSUM_HIGH"
    <2>2. length \in 0 .. 15 /\ state \in States
      BY DEF Byte, States
    <2>3. next = [r EXCEPT !.control = byte, !.length = length, !.sums = SumsStep(@, byte),
                           !.state = state]
      BY <2>1
    <2>4. state = "RECEIVING_PAYLOAD" => length > 0
      OBVIOUS
    <2>5. state # "RECEIVING_CONTROL" /\ state # "RECEIVING_CHECKSUM_LOW"
      OBVIOUS
    <2> HIDE DEF length, state
    <2>6. next \in Receiver
      <3>1. SumsStep(r.sums, byte) \in WideSums
        BY <1>2, SumsAreSmall
      <3>2. QED
        BY <1>1, <2>2, <2>3, <3>1, ReceiverFields
    <2>7. /\ next.seen = r.seen /\ next.buf = << >> /\ next.sums \in Sums
          /\ next.state = state /\ next.length = length
      BY <1>2, <1>5, <2>3, MachineFields, ReceiverFields
    <2>8. Len(<< >>) = 0
      OBVIOUS
    <2>9. QED
      BY <2>2, <2>4, <2>5, <2>6, <2>7, <2>8 DEF Machine, Fits
  <1>6. CASE r.state = "RECEIVING_PAYLOAD"
    <2> DEFINE state == IF r.length = 1 THEN "RECEIVING_CHECKSUM_HIGH" ELSE r.state
    <2>1. next = [r EXCEPT !.buf = Append(@, byte), !.length = @ - 1,
                           !.sums = SumsStep(@, byte), !.state = state]
      BY <1>6, MachineFields, ReceiverFields DEF Receive, PayloadByte
    <2>2. /\ state = "RECEIVING_PAYLOAD" => r.length # 1
          /\ state # "RECEIVING_CONTROL" /\ state # "RECEIVING_CHECKSUM_LOW"
          /\ state \in States
      BY <1>6 DEF States
    <2>3. /\ Append(r.buf, byte) \in Seq(Byte) /\ Len(Append(r.buf, byte)) = Len(r.buf) + 1
          /\ r.length - 1 \in 0 .. 15
      BY <1>6, MachineFields
    <2> HIDE DEF state
    <2>4. SumsStep(r.sums, byte) \in WideSums
      BY <1>2, SumsAreSmall
    <2>5. next \in Receiver
      BY <1>1, <2>1, <2>2, <2>3, <2>4, ReceiverFields
    <2>6. /\ next.seen = r.seen /\ next.buf = Append(r.buf, byte) /\ next.sums \in Sums
          /\ next.state = state /\ next.length = r.length - 1
      BY <1>2, <2>1, MachineFields, ReceiverFields
    <2>7. Len(next.buf) <= 15
      BY <1>6, <2>3, <2>6, MachineFields
    <2>8. /\ Len(r.buf) \in Nat /\ r.length \in 0 .. 15 /\ r.length > 0
           /\ Len(r.buf) + r.length <= 15
      BY <1>6, MachineFields
    <2>9. Len(next.buf) + next.length <= 15
      <3> DEFINE m == Len(r.buf)
                 n == r.length
      <3>1. Len(next.buf) = m + 1 /\ next.length = n - 1
        BY <2>3, <2>6
      <3>2. m \in Nat /\ n \in 0 .. 15 /\ m + n <= 15
        BY <2>8
      <3> HIDE DEF m, n, next
      <3>3. QED
        BY <3>1, <3>2
    <2>10. next.state = "RECEIVING_PAYLOAD" => next.length > 0 /\ Len(next.buf) + next.length <= 15
      BY <2>2, <2>6, <2>8, <2>9
    <2>11. QED
      BY <2>2, <2>5, <2>6, <2>7, <2>10 DEF Machine, Fits
  <1>7. CASE r.state = "RECEIVING_CHECKSUM_HIGH"
    <2> DEFINE checksum == 256 * byte
    <2>1. next = [r EXCEPT !.checksum = checksum, !.state = "RECEIVING_CHECKSUM_LOW"]
      BY <1>7 DEF Receive
    <2>2. checksum \in Word
      BY WordOf
    <2>3. "RECEIVING_CHECKSUM_LOW" \in States
      BY DEF States
    <2>4. \E b \in Byte : checksum = 256 * b
      OBVIOUS
    <2> HIDE DEF checksum, next
    <2>5. next \in Receiver
      BY <1>1, <2>1, <2>2, <2>3, ReceiverFields
    <2>6. /\ next.seen = r.seen /\ next.buf = r.buf /\ next.sums = r.sums
          /\ next.state = "RECEIVING_CHECKSUM_LOW" /\ next.checksum = checksum
      BY <1>1, <2>1, ReceiverFields
    <2>7. next.seen = r.seen /\ next \in Machine
      BY <2>4, <2>5, <2>6, MachineFields DEF Machine, Fits
    <2>8. QED
      BY <2>7 DEF next
  <1>8. CASE r.state = "RECEIVING_CHECKSUM_LOW"
    <2> DEFINE state == IF r.checksum + byte = Finalize(r.sums) THEN "RECEIVING_EOF"
                        ELSE "SEARCHING_FOR_SOF"
               checksum == r.checksum + byte
    <2>1. next = [r EXCEPT !.checksum = checksum, !.state = state]
      BY <1>8, MachineFields, ReceiverFields DEF Receive, ChecksumLow
    <2>2. \A b \in Byte : 256 * b + byte \in Word
      BY WordOf
    <2>3. checksum \in Word
      BY <1>8, <2>2, MachineFields
    <2>4. state \in {"RECEIVING_EOF", "SEARCHING_FOR_SOF"}
      OBVIOUS
    <2> HIDE DEF state, checksum
    <2>5. state \in States
      BY <2>4 DEF States
    <2>6. next \in Receiver
      BY <1>1, <2>1, <2>3, <2>5, ReceiverFields
    <2>7. /\ next.seen = r.seen /\ next.buf = r.buf /\ next.sums = r.sums
          /\ next.state = state
      BY <2>1, MachineFields, ReceiverFields
    <2>8. QED
      BY <2>4, <2>6, <2>7, MachineFields DEF Machine, Fits
  <1>9. CASE r.state = "RECEIVING_EOF"
    <2>1. next = [r EXCEPT !.state = "SEARCHING_FOR_SOF"]
      BY <1>9 DEF Receive
    <2>2. "SEARCHING_FOR_SOF" \in States
      BY DEF States
    <2> HIDE DEF next
    <2>3. /\ next \in Receiver /\ next.seen = r.seen /\ next.buf = r.buf
          /\ next.sums = r.sums /\ next.state = "SEARCHING_FOR_SOF"
      BY <1>1, <2>1, <2>2, ReceiverFields
    <2>4. next \in Machine
      BY <2>3, MachineFields DEF Machine, Fits
    <2>5. QED
      BY <2>3, <2>4 DEF next
  <1>10. QED
    BY <1>3, <1>4, <1>5, <1>6, <1>7, <1>8, <1>9, MachineFields DEF States

\* The machine may be sent anywhere but to a place that tells of what has come.
LEMMA SeenType ==
  ASSUME NEW r \in Machine, NEW n \in 0 .. 2
  PROVE  [r EXCEPT !.seen = n] \in Machine
  BY ReceiverFields DEF Machine, Fits

LEMMA StateType ==
  ASSUME NEW r \in Machine, NEW n \in 0 .. 2,
         NEW state \in {r.state, "SEARCHING_FOR_SOF", "RECEIVING_ID"}
  PROVE  [r EXCEPT !.seen = n, !.state = state] \in Machine
  <1> DEFINE next == [r EXCEPT !.seen = n, !.state = state]
  <1>1. r \in Receiver /\ state \in States
    BY MachineFields DEF States
  <1>2. next \in Receiver
    BY <1>1, ReceiverFields
  <1>3. /\ next.state = state /\ next.buf = r.buf /\ next.sums = r.sums
        /\ next.length = r.length /\ next.checksum = r.checksum
    BY <1>1, ReceiverFields
  <1> HIDE DEF next
  <1>4. next \in Machine
    BY <1>2, <1>3, MachineFields DEF Machine, Fits
  <1>5. QED
    BY <1>4 DEF next

LEMMA InitType ==
  ASSUME NEW r \in Machine
  PROVE  InitLayer1(r) \in Machine
  <1>1. \A n \in 0 .. 2 : \A state \in {r.state, "SEARCHING_FOR_SOF", "RECEIVING_ID"} :
          [r EXCEPT !.seen = n, !.state = state] \in Machine
    BY StateType
  <1>2. QED
    BY <1>1 DEF InitLayer1

LEMMA RxByteType ==
  ASSUME NEW r \in Machine, NEW byte \in Byte
  PROVE  RxByte(r, byte) \in Machine
  <1>1. CASE r.seen = 2
    <2> DEFINE state == CASE byte = HEADER_BYTE -> "RECEIVING_ID"
                          [] byte = STUFF_BYTE -> r.state
                          [] OTHER -> "SEARCHING_FOR_SOF"
    <2>1. RxByte(r, byte) = [r EXCEPT !.seen = 0, !.state = state]
      BY <1>1, MachineFields, ReceiverFields DEF RxByte, AfterHeaders
    <2>2. state \in {r.state, "SEARCHING_FOR_SOF", "RECEIVING_ID"}
      OBVIOUS
    <2> HIDE DEF state
    <2>3. \A n \in 0 .. 2 : \A st \in {r.state, "SEARCHING_FOR_SOF", "RECEIVING_ID"} :
            [r EXCEPT !.seen = n, !.state = st] \in Machine
      BY StateType
    <2>4. 0 \in 0 .. 2
      OBVIOUS
    <2>5. QED
      BY <2>1, <2>2, <2>3, <2>4, Zenon
  <1>2. CASE r.seen # 2
    <2>1. RxByte(r, byte) = [Receive(r, byte) EXCEPT !.seen = CountHeaders(r, byte)]
      BY <1>2 DEF RxByte
    <2>2. CountHeaders(r, byte) \in 0 .. 2
      BY <1>2, MachineFields DEF CountHeaders
    <2>3. Receive(r, byte) \in Machine
      BY ReceiveType
    <2>4. \A s \in Machine : \A n \in 0 .. 2 : [s EXCEPT !.seen = n] \in Machine
      BY SeenType
    <2>5. QED
      BY <2>1, <2>2, <2>3, <2>4
  <1>3. QED
    BY <1>1, <1>2

-----------------------------------------------------------------------------
(* The receiver takes a frame apart: where it is when the first bytes of one have come, *)
(* not counting stuff bytes.                                                            *)

AtControl(r, f) ==
  /\ r.state = "RECEIVING_CONTROL"
  /\ r.id = f.id /\ r.buf = << >> /\ r.sums = SumsOf(f)[1]

AtPayload(r, f, k) ==
  /\ r.state = "RECEIVING_PAYLOAD"
  /\ r.id = f.id /\ r.control = f.control
  /\ r.length = Len(f.payload) - k
  /\ r.buf = SubSeq(f.payload, 1, k)
  /\ r.sums = SumsOf(f)[k + 2]

AllThere(r, f) == r.id = f.id /\ r.control = f.control /\ r.buf = f.payload

AtChecksum(r, f) == AllThere(r, f) /\ r.sums = SumsOf(f)[Len(f.payload) + 2]

Decoded(r, f, i) ==
  \/ i = 0 /\ r.state = "RECEIVING_ID"
  \/ i = 1 /\ AtControl(r, f)
  \/ \E k \in 0 .. Len(f.payload) - 1 : i = k + 2 /\ AtPayload(r, f, k)
  \/ i = Len(f.payload) + 2 /\ AtChecksum(r, f) /\ r.state = "RECEIVING_CHECKSUM_HIGH"
  \/ /\ i = Len(f.payload) + 3 /\ AtChecksum(r, f) /\ r.state = "RECEIVING_CHECKSUM_LOW"
     /\ r.checksum = 256 * (Checksum(f) \div 256)
  \/ i = Len(f.payload) + 4 /\ AllThere(r, f) /\ r.state = "RECEIVING_EOF"

LEMMA FrameFields ==
  ASSUME NEW f \in Frames
  PROVE  /\ f \in Frame /\ f.id \in Byte /\ f.control \in Byte /\ f.payload \in Seq(Byte)
         /\ Len(f.payload) = f.control % 16 /\ Len(f.payload) \in 0 .. 15
  <1>1. f \in Frame /\ Len(f.payload) = f.control % 16
    BY LinkAssumption
  <1>2. f.id \in Byte /\ f.control \in Byte /\ f.payload \in Seq(Byte)
    BY <1>1 DEF Frame
  <1>3. \A b \in Byte : b % 16 \in 0 .. 15
    BY DEF Byte
  <1>4. f.control % 16 \in 0 .. 15
    BY <1>2, <1>3
  <1>5. QED
    BY <1>1, <1>2, <1>4

LEMMA SumsOfContent ==
  ASSUME NEW f \in Frame
  PROVE  /\ SumsOf(f)[0] = SumsInit
         /\ SumsOf(f)[1] = SumsStep(SumsOf(f)[0], f.id)
         /\ SumsOf(f)[2] = SumsStep(SumsOf(f)[1], f.control)
         /\ \A k \in 0 .. Len(f.payload) - 1 :
              SumsOf(f)[k + 3] = SumsStep(SumsOf(f)[k + 2], f.payload[k + 1])
  <1> DEFINE c == Content(f)
             n == Len(f.payload)
             w == SumsOf(f)
  <1>1. /\ n \in Nat /\ Len(c) = n + 2 /\ c[1] = f.id /\ c[2] = f.control
        /\ \A k \in 1 .. n : c[k + 2] = f.payload[k]
    BY ContentType DEF Frame
  <1>2. w[0] = SumsInit /\ \A i \in 0 .. Len(c) - 1 : w[i + 1] = SumsStep(w[i], c[i + 1])
    BY SumsOfFrame DEF IsSums
  <1> HIDE DEF c, n, w
  <1>3. \A i \in 0 .. n + 1 : w[i + 1] = SumsStep(w[i], c[i + 1])
    BY <1>1, <1>2
  <1>4. w[1] = SumsStep(w[0], c[1]) /\ w[2] = SumsStep(w[1], c[2])
    <2>1. 0 \in 0 .. n + 1 /\ 0 + 1 = 1 /\ 1 \in 0 .. n + 1 /\ 1 + 1 = 2
      BY <1>1
    <2>2. QED
      BY <1>3, <2>1
  <1>5. ASSUME NEW k \in 0 .. n - 1
        PROVE  w[k + 3] = SumsStep(w[k + 2], f.payload[k + 1])
    <2>1. k + 2 \in 0 .. n + 1 /\ (k + 2) + 1 = k + 3 /\ k + 1 \in 1 .. n /\ (k + 1) + 2 = k + 3
      BY <1>1
    <2>2. w[k + 3] = SumsStep(w[k + 2], c[k + 3]) /\ c[k + 3] = f.payload[k + 1]
      BY <1>1, <1>3, <2>1
    <2>3. QED
      BY <2>2
  <1>6. QED
    BY <1>1, <1>2, <1>4, <1>5 DEF n, w

LEMMA DecodeId ==
  ASSUME NEW f \in Frames, NEW r \in Machine, r.state = "RECEIVING_ID"
  PROVE  AtControl(Receive(r, f.id), f)
  <1>1. Receive(r, f.id) = [r EXCEPT !.id = f.id, !.buf = << >>,
                                     !.sums = SumsStep(SumsInit, f.id),
                                     !.state = "RECEIVING_CONTROL"]
    BY DEF Receive
  <1>2. r \in Receiver
    BY DEF Machine
  <1>3. SumsOf(f)[1] = SumsStep(SumsInit, f.id)
    BY FrameFields, SumsOfContent
  <1>4. QED
    BY <1>1, <1>2, <1>3, ReceiverFields DEF AtControl

LEMMA DecodeControl ==
  ASSUME NEW f \in Frames, NEW r \in Machine, AtControl(r, f)
  PROVE  Decoded(Receive(r, f.control), f, 2)
  <1> DEFINE next == Receive(r, f.control)
             n == Len(f.payload)
  <1>1. next = [r EXCEPT !.control = f.control, !.length = f.control % 16,
                         !.sums = SumsStep(@, f.control),
                         !.state = IF f.control % 16 > 0 THEN "RECEIVING_PAYLOAD"
                                   ELSE "RECEIVING_CHECKSUM_HIGH"]
    BY DEF Receive, AtControl
  <1>2. r \in Receiver
    BY DEF Machine
  <1>3. n = f.control % 16 /\ n \in 0 .. 15
    BY FrameFields
  <1>4. SumsOf(f)[2] = SumsStep(SumsOf(f)[1], f.control)
    BY FrameFields, SumsOfContent
  <1>5. next = [r EXCEPT !.control = f.control, !.length = n, !.sums = SumsStep(@, f.control),
                         !.state = IF n > 0 THEN "RECEIVING_PAYLOAD"
                                   ELSE "RECEIVING_CHECKSUM_HIGH"]
    BY <1>1, <1>3
  <1>6. /\ next.id = f.id /\ next.control = f.control /\ next.length = n /\ next.buf = << >>
        /\ next.sums = SumsOf(f)[2]
        /\ next.state = IF n > 0 THEN "RECEIVING_PAYLOAD" ELSE "RECEIVING_CHECKSUM_HIGH"
    BY <1>2, <1>4, <1>5, ReceiverFields DEF AtControl
  <1>7. SubSeq(f.payload, 1, 0) = << >> /\ (n = 0 => f.payload = << >>)
    BY FrameFields
  <1> HIDE DEF next
  <1>8. CASE n > 0
    <2>1. AtPayload(next, f, 0)
      BY <1>3, <1>6, <1>7, <1>8 DEF AtPayload
    <2>2. 0 \in 0 .. n - 1 /\ 2 = 0 + 2
      BY <1>3, <1>8
    <2>3. \E k \in 0 .. n - 1 : 2 = k + 2 /\ AtPayload(next, f, k)
      BY <2>1, <2>2
    <2>4. QED
      BY <2>3, Zenon DEF Decoded, next
  <1>9. CASE n = 0
    <2>1. AtChecksum(next, f) /\ next.state = "RECEIVING_CHECKSUM_HIGH" /\ 2 = n + 2
      BY <1>6, <1>7, <1>9 DEF AtChecksum, AllThere
    <2>2. QED
      BY <2>1, Zenon DEF Decoded, next
  <1>10. QED
    BY <1>3, <1>8, <1>9

LEMMA DecodePayload ==
  ASSUME NEW f \in Frames, NEW r \in Machine, NEW k \in 0 .. Len(f.payload) - 1,
         AtPayload(r, f, k)
  PROVE  Decoded(Receive(r, f.payload[k + 1]), f, k + 3)
  <1> DEFINE byte == f.payload[k + 1]
             next == Receive(r, byte)
             n == Len(f.payload)
  <1>1. next = [r EXCEPT !.buf = Append(@, byte), !.length = @ - 1, !.sums = SumsStep(@, byte),
                         !.state = IF r.length = 1 THEN "RECEIVING_CHECKSUM_HIGH" ELSE @]
    BY DEF Receive, AtPayload, PayloadByte
  <1>2. r \in Receiver
    BY DEF Machine
  <1>3. n \in 0 .. 15 /\ f.payload \in Seq(Byte) /\ k \in Nat
    BY FrameFields
  <1>4. SumsOf(f)[k + 3] = SumsStep(SumsOf(f)[k + 2], byte)
    BY FrameFields, SumsOfContent
  <1>5. Append(SubSeq(f.payload, 1, k), byte) = SubSeq(f.payload, 1, k + 1)
    BY <1>3
  <1>6. /\ next.id = f.id /\ next.control = f.control /\ next.length = r.length - 1
        /\ next.buf = SubSeq(f.payload, 1, k + 1) /\ next.sums = SumsOf(f)[k + 3]
        /\ next.state = IF r.length = 1 THEN "RECEIVING_CHECKSUM_HIGH" ELSE "RECEIVING_PAYLOAD"
    BY <1>1, <1>2, <1>4, <1>5, ReceiverFields DEF AtPayload
  <1>7. r.length = n - k
    BY DEF AtPayload
  <1>8. SubSeq(f.payload, 1, n) = f.payload
    BY <1>3
  <1> HIDE DEF next, byte
  <1>9. CASE k + 1 = n
    <2>1. r.length = 1 /\ k + 3 = n + 2
      BY <1>3, <1>7, <1>9
    <2>2. /\ next.buf = f.payload /\ next.state = "RECEIVING_CHECKSUM_HIGH"
          /\ next.sums = SumsOf(f)[n + 2]
      BY <1>6, <1>8, <1>9, <2>1
    <2>3. AtChecksum(next, f)
      BY <1>6, <2>2 DEF AtChecksum, AllThere
    <2>4. QED
      BY <2>1, <2>2, <2>3, Zenon DEF Decoded, byte, next
  <1>10. CASE k + 1 # n
    <2>1. r.length # 1 /\ k + 1 \in 0 .. n - 1 /\ r.length - 1 = n - (k + 1) /\ k + 3 = (k + 1) + 2
      BY <1>3, <1>7, <1>10
    <2>2. AtPayload(next, f, k + 1)
      BY <1>6, <2>1 DEF AtPayload
    <2>3. \E l \in 0 .. n - 1 : k + 3 = l + 2 /\ AtPayload(next, f, l)
      BY <2>1, <2>2
    <2>4. QED
      BY <2>3, Zenon DEF Decoded, byte, next
  <1>11. QED
    BY <1>9, <1>10

LEMMA DecodeHigh ==
  ASSUME NEW f \in Frames, NEW r \in Machine, AtChecksum(r, f),
         r.state = "RECEIVING_CHECKSUM_HIGH"
  PROVE  Decoded(Receive(r, Checksum(f) \div 256), f, Len(f.payload) + 3)
  <1> DEFINE hi == Checksum(f) \div 256
             next == Receive(r, hi)
  <1>1. next = [r EXCEPT !.checksum = 256 * hi, !.state = "RECEIVING_CHECKSUM_LOW"]
    BY DEF Receive
  <1>2. r \in Receiver
    BY DEF Machine
  <1> DEFINE sum == 256 * hi
  <1>3. next = [r EXCEPT !.checksum = sum, !.state = "RECEIVING_CHECKSUM_LOW"]
    BY <1>1
  <1> HIDE DEF sum, next
  <1>4. /\ next.id = r.id /\ next.control = r.control /\ next.buf = r.buf /\ next.sums = r.sums
        /\ next.state = "RECEIVING_CHECKSUM_LOW" /\ next.checksum = sum
    BY <1>2, <1>3, ReceiverFields
  <1>5. AtChecksum(next, f)
    BY <1>4 DEF AtChecksum, AllThere
  <1>6. QED
    BY <1>4, <1>5 DEF Decoded, sum, next

LEMMA DecodeLow ==
  ASSUME NEW f \in Frames, NEW r \in Machine, AtChecksum(r, f),
         r.state = "RECEIVING_CHECKSUM_LOW", r.checksum = 256 * (Checksum(f) \div 256)
  PROVE  Decoded(Receive(r, Checksum(f) % 256), f, Len(f.payload) + 4)
  <1> DEFINE lo == Checksum(f) % 256
             next == Receive(r, lo)
  <1>1. r.checksum + lo = Checksum(f)
    <2>1. Checksum(f) \in Word
      BY FrameFields, ChecksumType
    <2>2. 256 * (Checksum(f) \div 256) + lo = Checksum(f)
      BY <2>1, ChecksumBytes
    <2>3. QED
      BY <2>2
  <1>2. Checksum(f) = Finalize(r.sums)
    BY FrameFields, SumsOfFrame DEF AtChecksum
  <1> HIDE DEF lo
  <1>3. next = [r EXCEPT !.checksum = Checksum(f), !.state = "RECEIVING_EOF"]
    BY <1>1, <1>2 DEF Receive, ChecksumLow
  <1>4. r \in Receiver
    BY DEF Machine
  <1>5. /\ next.id = r.id /\ next.control = r.control /\ next.buf = r.buf
        /\ next.state = "RECEIVING_EOF"
    BY <1>3, <1>4, ReceiverFields
  <1> HIDE DEF next
  <1>6. AllThere(next, f)
    BY <1>5 DEF AtChecksum, AllThere
  <1>7. QED
    BY <1>5, <1>6 DEF Decoded, next, lo

LEMMA DecodeByte ==
  ASSUME NEW f \in Frames, NEW r \in Machine, NEW i \in 0 .. Bytes(f) - 1, Decoded(r, f, i)
  PROVE  /\ Decoded(Receive(r, Checked(f)[i + 1]), f, i + 1)
         /\ r.state # "RECEIVING_EOF"
  <1> DEFINE n == Len(f.payload)
  <1>1. n \in Nat /\ Bytes(f) = n + 4
    BY FrameFields DEF Bytes
  <1>2. /\ Checked(f)[1] = f.id /\ Checked(f)[2] = f.control
        /\ \A k \in 1 .. n : Checked(f)[k + 2] = f.payload[k]
        /\ Checked(f)[n + 3] = Checksum(f) \div 256
        /\ Checked(f)[n + 4] = Checksum(f) % 256
    <2>1. f \in Frame
      BY FrameFields
    <2>2. QED
      BY <2>1, CheckedType
  <1>3. CASE i = 0 /\ r.state = "RECEIVING_ID"
    <2>1. i + 1 = 1
      BY <1>3
    <2>2. AtControl(Receive(r, f.id), f)
      BY <1>3, DecodeId
    <2>3. QED
      BY <1>2, <1>3, <2>1, <2>2 DEF Decoded
  <1>4. CASE i = 1 /\ AtControl(r, f)
    <2>1. i + 1 = 2 /\ r.state = "RECEIVING_CONTROL"
      BY <1>4 DEF AtControl
    <2>2. Decoded(Receive(r, f.control), f, 2)
      BY <1>4, DecodeControl
    <2>3. QED
      BY <1>2, <2>1, <2>2
  <1>5. CASE \E k \in 0 .. n - 1 : i = k + 2 /\ AtPayload(r, f, k)
    <2>1. PICK k \in 0 .. n - 1 : i = k + 2 /\ AtPayload(r, f, k)
      BY <1>5
    <2>2. k + 1 \in 1 .. n /\ i + 1 = k + 3 /\ (k + 1) + 2 = k + 3
      BY <1>1, <2>1
    <2>3. Checked(f)[i + 1] = f.payload[k + 1]
      BY <1>2, <2>2
    <2>4. Decoded(Receive(r, f.payload[k + 1]), f, k + 3) /\ r.state = "RECEIVING_PAYLOAD"
      BY <2>1, DecodePayload DEF AtPayload
    <2>5. QED
      BY <2>2, <2>3, <2>4
  <1>6. CASE i = n + 2 /\ AtChecksum(r, f) /\ r.state = "RECEIVING_CHECKSUM_HIGH"
    <2>1. i + 1 = n + 3
      BY <1>1, <1>6
    <2>2. Decoded(Receive(r, Checksum(f) \div 256), f, n + 3)
      BY <1>6, DecodeHigh
    <2>3. QED
      BY <1>2, <1>6, <2>1, <2>2
  <1>7. CASE /\ i = n + 3 /\ AtChecksum(r, f) /\ r.state = "RECEIVING_CHECKSUM_LOW"
             /\ r.checksum = 256 * (Checksum(f) \div 256)
    <2>1. i + 1 = n + 4
      BY <1>1, <1>7
    <2>2. Decoded(Receive(r, Checksum(f) % 256), f, n + 4)
      BY <1>7, DecodeLow
    <2>3. QED
      BY <1>2, <1>7, <2>1, <2>2
  <1>8. i # n + 4
    BY <1>1
  <1>9. QED
    BY <1>3, <1>4, <1>5, <1>6, <1>7, <1>8, Zenon DEF Decoded

LEMMA DecodedAll ==
  ASSUME NEW f \in Frames, NEW r \in Machine, Decoded(r, f, Bytes(f))
  PROVE  AllThere(r, f) /\ r.state = "RECEIVING_EOF"
  <1> DEFINE n == Len(f.payload)
  <1>1. n \in Nat /\ Bytes(f) = n + 4
    BY FrameFields DEF Bytes
  <1>2. /\ n + 4 # 0 /\ n + 4 # 1 /\ n + 4 # n + 2 /\ n + 4 # n + 3
        /\ \A k \in 0 .. n - 1 : n + 4 # k + 2
    BY <1>1
  <1>3. QED
    BY <1>1, <1>2, Zenon DEF Decoded

\* The count of header bytes is no part of it.
LEMMA SeenAside ==
  ASSUME NEW f \in Frames, NEW r \in Machine, NEW m \in 0 .. 2, NEW i, Decoded(r, f, i)
  PROVE  Decoded([r EXCEPT !.seen = m], f, i)
  <1> DEFINE s == [r EXCEPT !.seen = m]
  <1>1. r \in Receiver
    BY DEF Machine
  <1>2. /\ s.state = r.state /\ s.id = r.id /\ s.control = r.control /\ s.length = r.length
        /\ s.buf = r.buf /\ s.sums = r.sums /\ s.checksum = r.checksum
    BY <1>1, ReceiverFields
  <1> HIDE DEF s
  <1>3. QED
    <2>1. AtControl(r, f) => AtControl(s, f)
      BY <1>2 DEF AtControl
    <2>2. \A k : AtPayload(r, f, k) => AtPayload(s, f, k)
      BY <1>2 DEF AtPayload
    <2>3. (AllThere(r, f) => AllThere(s, f)) /\ (AtChecksum(r, f) => AtChecksum(s, f))
      BY <1>2 DEF AllThere, AtChecksum
    <2>4. Decoded(s, f, i)
      BY <1>2, <2>1, <2>2, <2>3, SMTT(20) DEF Decoded
    <2>5. QED
      BY <2>4 DEF s

\* Where the receiver is when the first p bytes of a frame have come: amid the three header
\* bytes, after some byte of the content, or before the stuff byte that follows one.
At(r, f, p) ==
  \/ p \in 0 .. 2 /\ r.seen = p
  \/ \E i \in 0 .. Bytes(f) :
       /\ p = Len(QueueOf(f)[i].bytes) + 3
       /\ r.seen = 2 - QueueOf(f)[i].left
       /\ Decoded(r, f, i)
  \/ \E i \in 1 .. Bytes(f) :
       /\ p = Len(QueueOf(f)[i].bytes) + 2
       /\ Len(QueueOf(f)[i].bytes) = Len(QueueOf(f)[i - 1].bytes) + 2
       /\ r.seen = 2
       /\ Decoded(r, f, i)

LEMMA HeaderByte ==
  ASSUME NEW f \in Frames, NEW r \in Machine, NEW p \in 0 .. 2, r.seen = p
  PROVE  At(RxByte(r, HEADER_BYTE), f, p + 1) /\ ~Completes(r, HEADER_BYTE)
  <1>1. HEADER_BYTE \in Byte /\ HEADER_BYTE # EOF_BYTE
    BY DEF HEADER_BYTE, EOF_BYTE, Byte
  <1>2. ~Completes(r, HEADER_BYTE)
    BY <1>1 DEF Completes
  <1>3. CASE p # 2
    <2>1. RxByte(r, HEADER_BYTE) = [Receive(r, HEADER_BYTE) EXCEPT !.seen = p + 1]
      BY <1>3 DEF RxByte, CountHeaders
    <2>2. Receive(r, HEADER_BYTE) \in Receiver
      BY <1>1, ReceiveType DEF Machine
    <2>3. RxByte(r, HEADER_BYTE).seen = p + 1 /\ p + 1 \in 0 .. 2
      BY <1>3, <2>1, <2>2, ReceiverFields
    <2>4. QED
      BY <1>2, <2>3 DEF At
  <1>4. CASE p = 2
    <2> DEFINE s == RxByte(r, HEADER_BYTE)
    <2>1. r \in Receiver
      BY DEF Machine
    <2>2. s = AfterHeaders(r, HEADER_BYTE)
      <3>1. r.seen = 2
        BY <1>4
      <3>2. QED
        BY <3>1, Zenon DEF RxByte
    <2>3. s.seen = 0 /\ s.state = "RECEIVING_ID"
      <3> DEFINE state == CASE HEADER_BYTE = HEADER_BYTE -> "RECEIVING_ID"
                            [] HEADER_BYTE = STUFF_BYTE -> r.state
                            [] OTHER -> "SEARCHING_FOR_SOF"
      <3>1. s = [r EXCEPT !.seen = 0, !.state = state]
        BY <2>1, <2>2, ReceiverFields DEF AfterHeaders
      <3>2. state = "RECEIVING_ID"
        BY DEF HEADER_BYTE, STUFF_BYTE
      <3> HIDE DEF state, s
      <3>3. s = [r EXCEPT !.seen = 0, !.state = "RECEIVING_ID"]
        BY <3>1, <3>2
      <3>4. QED
        BY <2>1, <3>3, ReceiverFields
    <2>4. QueueOf(f)[0] = Unsent /\ 0 \in 0 .. Bytes(f)
      <3>1. f \in Frame
        BY FrameFields
      <3>2. IsQueue(QueueOf(f), Checked(f)) /\ Bytes(f) \in Nat
        BY <3>1, QueueOfFrame, CheckedType
      <3>3. QED
        BY <3>2 DEF IsQueue
    <2>5. Len(QueueOf(f)[0].bytes) = 0 /\ QueueOf(f)[0].left = 2
      BY <2>4 DEF Unsent
    <2> HIDE DEF s
    <2>6. Decoded(s, f, 0)
      BY <2>3 DEF Decoded
    <2>7. p + 1 = Len(QueueOf(f)[0].bytes) + 3 /\ s.seen = 2 - QueueOf(f)[0].left
      BY <1>4, <2>3, <2>5
    <2>8. At(s, f, p + 1)
      BY <2>4, <2>6, <2>7, Zenon DEF At
    <2>9. QED
      BY <1>2, <2>8 DEF s
  <1>5. QED
    BY <1>3, <1>4

\* A byte of the content, which comes after what was queued before it.
LEMMA ContentByte ==
  ASSUME NEW f \in Frames, NEW r \in Machine, NEW i \in 0 .. Bytes(f) - 1,
         r.seen = 2 - QueueOf(f)[i].left, Decoded(r, f, i)
  PROVE  LET p == Len(QueueOf(f)[i].bytes) + 3
             byte == TxFrame(f)[p + 1]
         IN At(RxByte(r, byte), f, p + 1) /\ ~Completes(r, byte)
  <1> DEFINE m == Bytes(f)
             j == i + 1
             q == QueueOf(f)
             l == Len(q[i].bytes)
             p == l + 3
             byte == TxFrame(f)[p + 1]
             c == Checked(f)[j]
  <1>1. m \in Nat /\ j \in 1 .. m /\ j \in 0 .. m /\ i \in 0 .. m /\ j - 1 = i /\ m \in j .. m
    BY FrameFields, CheckedType
  <1>2. c \in Byte /\ Queued(q[i], c, q[j])
    BY FrameFields, QueueStep
  <1>3. l \in Nat /\ Len(q[j].bytes) \in Nat /\ q[i].left \in {1, 2}
    BY <1>1, FrameFields, QueueType
  <1>4. Len(q[j].bytes) >= l + 1
    BY <1>2, <1>3 DEF Queued, Plain, Stuffing
  <1>5. byte = c
    <2>1. q[j].bytes[l + 1] = c
      BY <1>2 DEF Queued
    <2>2. /\ \A k \in 1 .. Len(q[j].bytes) : q[m].bytes[k] = q[j].bytes[k]
          /\ Len(q[m].bytes) >= Len(q[j].bytes) + (m - j)
      BY <1>1, FrameFields, QueueGrows
    <2>3. Len(q[m].bytes) \in Nat
      BY <1>1, FrameFields, QueueType
    <2> DEFINE b == q[m].bytes
    <2>4. \A k \in 1 .. Len(b) : TxFrame(f)[k + 3] = b[k]
      BY FrameFields, TxFrameBytes
    <2>5. \A k \in 1 .. Len(q[j].bytes) : b[k] = q[j].bytes[k]
      BY <2>2
    <2>6. Len(b) \in Nat /\ Len(b) >= Len(q[j].bytes) + (m - j)
      BY <2>2, <2>3
    <2> HIDE DEF b, l, q, j, m
    <2>7. l + 1 \in 1 .. Len(q[j].bytes) /\ l + 1 \in 1 .. Len(b) /\ (l + 1) + 3 = p + 1
      BY <1>1, <1>3, <1>4, <2>6
    <2>8. TxFrame(f)[p + 1] = q[j].bytes[l + 1]
      BY <2>4, <2>5, <2>7
    <2>9. QED
      BY <2>1, <2>8
  <1> DEFINE s == RxByte(r, c)
             next == Receive(r, c)
             seen == IF c = HEADER_BYTE THEN r.seen + 1 ELSE 0
  <1>6. r.seen \in {0, 1} /\ r.seen = 2 - q[i].left
    BY <1>3
  <1>7. s = [next EXCEPT !.seen = seen] /\ seen \in 0 .. 2
    BY <1>6 DEF RxByte, CountHeaders
  <1>8. next \in Machine /\ Decoded(next, f, j) /\ r.state # "RECEIVING_EOF"
    BY <1>2, ReceiveType, DecodeByte
  <1>9. next \in Receiver
    BY <1>8 DEF Machine
  <1> HIDE DEF next
  <1>10. s.seen = seen
    BY <1>7, <1>9, ReceiverFields
  <1>11. Decoded(s, f, j)
    <2>1. \A n \in 0 .. 2 : Decoded([next EXCEPT !.seen = n], f, j)
      BY <1>8, SeenAside
    <2>2. QED
      BY <1>7, <2>1
  <1> HIDE DEF s
  <1>12. At(s, f, p + 1)
    <2>1. CASE Plain(q[i], c, q[j])
      <3>1. Len(q[j].bytes) = l + 1 /\ q[j].left = (IF c = HEADER_BYTE THEN 1 ELSE 2)
            /\ (c = HEADER_BYTE => q[i].left = 2)
        BY <2>1 DEF Plain
      <3>2. p + 1 = Len(q[j].bytes) + 3 /\ s.seen = 2 - q[j].left
        BY <1>3, <1>6, <1>10, <3>1
      <3>3. QED
        BY <1>1, <1>11, <3>2, Zenon DEF At
    <2>2. CASE Stuffing(q[i], c, q[j])
      <3>1. Len(q[j].bytes) = l + 2 /\ c = HEADER_BYTE /\ q[i].left = 1
        BY <2>2 DEF Stuffing
      <3>2. p + 1 = Len(q[j].bytes) + 2 /\ s.seen = 2
        BY <1>3, <1>6, <1>10, <3>1
      <3>3. Len(q[j].bytes) = Len(q[j - 1].bytes) + 2
        BY <1>1, <3>1
      <3>4. QED
        BY <1>1, <1>11, <3>2, <3>3, Zenon DEF At
    <2>3. QED
      BY <1>2, <2>1, <2>2 DEF Queued
  <1>13. ~Completes(r, c)
    BY <1>8 DEF Completes
  <1>14. QED
    BY <1>5, <1>12, <1>13 DEF s

\* A stuff byte, which is skipped.
LEMMA StuffByte ==
  ASSUME NEW f \in Frames, NEW r \in Machine, NEW i \in 1 .. Bytes(f),
         Len(QueueOf(f)[i].bytes) = Len(QueueOf(f)[i - 1].bytes) + 2,
         r.seen = 2, Decoded(r, f, i)
  PROVE  LET p == Len(QueueOf(f)[i].bytes) + 2
             byte == TxFrame(f)[p + 1]
         IN At(RxByte(r, byte), f, p + 1) /\ ~Completes(r, byte)
  <1> DEFINE m == Bytes(f)
             h == i - 1
             q == QueueOf(f)
             l == Len(q[i].bytes)
             p == l + 2
             byte == TxFrame(f)[p + 1]
  <1>1. /\ m \in Nat /\ h \in 0 .. m - 1 /\ h \in 0 .. m /\ i \in 0 .. m /\ h + 1 = i
        /\ m \in i .. m
    BY FrameFields, CheckedType
  <1>2. Queued(q[h], Checked(f)[h + 1], q[h + 1])
    BY <1>1, FrameFields, QueueStep
  <1>3. l \in Nat /\ Len(q[h].bytes) \in Nat /\ l = Len(q[h].bytes) + 2
    BY <1>1, FrameFields, QueueType
  <1>4. q[i].bytes[l] = STUFF_BYTE /\ q[i].left = 2
    <2>1. Queued(q[h], Checked(f)[i], q[i])
      BY <1>1, <1>2
    <2>2. ~Plain(q[h], Checked(f)[i], q[i])
      BY <1>3 DEF Plain
    <2>3. Stuffing(q[h], Checked(f)[i], q[i])
      BY <2>1, <2>2 DEF Queued
    <2>4. QED
      BY <1>3, <2>3 DEF Stuffing
  <1>5. byte = STUFF_BYTE
    <2>1. /\ \A k \in 1 .. l : q[m].bytes[k] = q[i].bytes[k]
          /\ Len(q[m].bytes) >= l + (m - i)
      BY <1>1, FrameFields, QueueGrows
    <2>2. Len(q[m].bytes) \in Nat
      BY <1>1, FrameFields, QueueType
    <2> DEFINE b == q[m].bytes
    <2>3. \A k \in 1 .. Len(b) : TxFrame(f)[k + 3] = b[k]
      BY FrameFields, TxFrameBytes
    <2>4. \A k \in 1 .. l : b[k] = q[i].bytes[k]
      BY <2>1
    <2>5. Len(b) \in Nat /\ Len(b) >= l + (m - i)
      BY <2>1, <2>2
    <2> HIDE DEF b, l, m
    <2>6. l \in 1 .. l /\ l \in 1 .. Len(b) /\ l + 3 = p + 1
      BY <1>1, <1>3, <2>5
    <2>7. TxFrame(f)[p + 1] = q[i].bytes[l]
      BY <2>3, <2>4, <2>6
    <2>8. QED
      BY <1>4, <2>7
  <1>6. r \in Receiver
    BY DEF Machine
  <1>7. RxByte(r, STUFF_BYTE) = [r EXCEPT !.seen = 0]
    <2>1. STUFF_BYTE # HEADER_BYTE
      BY DEF STUFF_BYTE, HEADER_BYTE
    <2>2. RxByte(r, STUFF_BYTE) = [r EXCEPT !.seen = 0, !.state = r.state]
      BY <1>6, <2>1, ReceiverFields DEF RxByte, AfterHeaders
    <2>3. QED
      BY <1>6, <2>2, ReceiverFields
  <1> DEFINE s == RxByte(r, STUFF_BYTE)
  <1>8. s.seen = 0
    BY <1>6, <1>7, ReceiverFields
  <1>9. Decoded(s, f, i)
    <2>1. \A n \in 0 .. 2 : Decoded([r EXCEPT !.seen = n], f, i)
      BY SeenAside
    <2>2. Decoded([r EXCEPT !.seen = 0], f, i)
      BY <2>1
    <2>3. QED
      BY <1>7, <2>2
  <1> HIDE DEF s
  <1>10. p + 1 = l + 3 /\ s.seen = 2 - q[i].left
    BY <1>3, <1>4, <1>8
  <1>11. At(s, f, p + 1)
    BY <1>1, <1>9, <1>10, Zenon DEF At
  <1>12. ~Completes(r, byte)
    BY DEF Completes
  <1>13. QED
    BY <1>5, <1>11, <1>12 DEF s

\* Of two places in the queue the later has more before it.
LEMMA QueueEnd ==
  ASSUME NEW f \in Frames
  PROVE  LET T == TxFrame(f)
             l(i) == Len(QueueOf(f)[i].bytes)
         IN /\ T \in Seq(Byte) /\ Len(T) \in Nat /\ Bytes(f) \in Nat
            /\ Len(T) = l(Bytes(f)) + 4
            /\ T[1] = HEADER_BYTE /\ T[2] = HEADER_BYTE /\ T[3] = HEADER_BYTE
            /\ T[Len(T)] = EOF_BYTE
            /\ \A i \in 0 .. Bytes(f) : l(i) \in Nat /\ l(Bytes(f)) >= l(i) + (Bytes(f) - i)
  <1> DEFINE T == TxFrame(f)
             l(i) == Len(QueueOf(f)[i].bytes)
             m == Bytes(f)
  <1>1. f \in Frame
    BY FrameFields
  <1>2. /\ T \in Seq(Byte) /\ Len(T) = l(m) + 4
        /\ T[1] = HEADER_BYTE /\ T[2] = HEADER_BYTE /\ T[3] = HEADER_BYTE
        /\ T[l(m) + 4] = EOF_BYTE
    BY <1>1, TxFrameBytes
  <1>3. m \in Nat
    BY <1>1, CheckedType
  <1>4. \A i \in 0 .. m : l(i) \in Nat
    BY <1>1, QueueType
  <1>5. \A i \in 0 .. m : l(m) >= l(i) + (m - i)
    <2> TAKE i \in 0 .. m
    <2>1. m \in i .. m
      BY <1>3
    <2>2. QED
      BY <1>1, <2>1, QueueGrows
  <1>6. QED
    BY <1>2, <1>3, <1>4, <1>5

LEMMA FrameByte ==
  ASSUME NEW f \in Frames, NEW r \in Machine, NEW p \in 0 .. Len(TxFrame(f)) - 2, At(r, f, p)
  PROVE  /\ At(RxByte(r, TxFrame(f)[p + 1]), f, p + 1)
         /\ ~Completes(r, TxFrame(f)[p + 1])
  <1> DEFINE T == TxFrame(f)
             l(i) == Len(QueueOf(f)[i].bytes)
             m == Bytes(f)
  <1>1. /\ Len(T) \in Nat /\ m \in Nat /\ Len(T) = l(m) + 4
        /\ T[1] = HEADER_BYTE /\ T[2] = HEADER_BYTE /\ T[3] = HEADER_BYTE
        /\ \A i \in 0 .. m : l(i) \in Nat
    BY QueueEnd
  <1>2. CASE p \in 0 .. 2 /\ r.seen = p
    <2>1. T[p + 1] = HEADER_BYTE
      BY <1>1, <1>2
    <2>2. QED
      BY <1>2, <2>1, HeaderByte
  <1>3. CASE \E i \in 0 .. m : /\ p = l(i) + 3
                               /\ r.seen = 2 - QueueOf(f)[i].left
                               /\ Decoded(r, f, i)
    <2>1. PICK i \in 0 .. m : p = l(i) + 3 /\ r.seen = 2 - QueueOf(f)[i].left /\ Decoded(r, f, i)
      BY <1>3
    <2>2. i \in 0 .. m - 1
      <3> HIDE DEF l, m, T
      <3>1. l(i) + 3 <= (l(m) + 4) - 2 /\ l(i) \in Nat /\ l(m) \in Nat
        BY <1>1, <2>1 DEF T
      <3>2. i # m
        BY <3>1
      <3>3. QED
        BY <1>1, <3>2
    <2>3. QED
      BY <2>1, <2>2, ContentByte
  <1>4. CASE \E i \in 1 .. m : p = l(i) + 2 /\ l(i) = l(i - 1) + 2 /\ r.seen = 2 /\ Decoded(r, f, i)
    <2>1. PICK i \in 1 .. m : p = l(i) + 2 /\ l(i) = l(i - 1) + 2 /\ r.seen = 2 /\ Decoded(r, f, i)
      BY <1>4
    <2>2. QED
      BY <2>1, StuffByte
  <1>5. QED
    BY <1>2, <1>3, <1>4 DEF At

\* The last byte: the frame is complete, and it is the one that was sent.
LEMMA LastByte ==
  ASSUME NEW f \in Frames, NEW r \in Machine, At(r, f, Len(TxFrame(f)) - 1)
  PROVE  /\ Completes(r, EOF_BYTE)
         /\ [id |-> r.id, control |-> r.control, payload |-> r.buf] = f
  <1> DEFINE T == TxFrame(f)
             l(i) == Len(QueueOf(f)[i].bytes)
             m == Bytes(f)
             p == Len(T) - 1
  <1>1. /\ m \in Nat /\ l(m) \in Nat /\ p = l(m) + 3
        /\ \A i \in 0 .. m : l(i) \in Nat /\ l(m) >= l(i) + (m - i)
    <2>1. /\ m \in Nat /\ Len(T) \in Nat /\ Len(T) = l(m) + 4
          /\ \A i \in 0 .. m : l(i) \in Nat /\ l(m) >= l(i) + (m - i)
      BY QueueEnd
    <2>2. m \in 0 .. m
      BY <2>1
    <2> HIDE DEF l, m, T
    <2>3. QED
      BY <2>1, <2>2
  <1> HIDE DEF l, m, p
  <1>2. p \notin 0 .. 2
    BY <1>1
  <1>3. ~\E i \in 1 .. m : p = l(i) + 2
    BY <1>1
  <1>4. PICK i \in 0 .. m : /\ p = l(i) + 3
                            /\ r.seen = 2 - QueueOf(f)[i].left
                            /\ Decoded(r, f, i)
    BY <1>2, <1>3 DEF At, p, l, m
  <1>5. i = m
    BY <1>1, <1>4
  <1>6. AllThere(r, f) /\ r.state = "RECEIVING_EOF"
    BY <1>4, <1>5, DecodedAll DEF m
  <1>7. r.seen < 2
    <2>1. QueueOf(f)[i].left \in {1, 2}
      BY <1>4, FrameFields, QueueType DEF m
    <2>2. QED
      BY <1>4, <2>1
  <1>8. f = [id |-> f.id, control |-> f.control, payload |-> f.payload]
    BY FrameFields DEF Frame
  <1>9. QED
    BY <1>6, <1>7, <1>8 DEF Completes, AllThere

LEMMA EofSeen ==
  ASSUME NEW r \in Machine
  PROVE  RxByte(r, EOF_BYTE).seen = 0
  <1>1. r \in Receiver /\ EOF_BYTE \in Byte /\ EOF_BYTE # HEADER_BYTE
    BY DEF Machine, EOF_BYTE, HEADER_BYTE, Byte
  <1>2. CASE r.seen = 2
    BY <1>1, <1>2, ReceiverFields DEF RxByte, AfterHeaders
  <1>3. CASE r.seen # 2
    <2>1. RxByte(r, EOF_BYTE) = [Receive(r, EOF_BYTE) EXCEPT !.seen = 0]
      BY <1>1, <1>3 DEF RxByte, CountHeaders
    <2>2. Receive(r, EOF_BYTE) \in Receiver
      BY <1>1, ReceiveType DEF Machine
    <2>3. QED
      BY <2>1, <2>2, ReceiverFields
  <1>4. QED
    BY <1>2, <1>3

-----------------------------------------------------------------------------
(* What the receiver makes of the bytes the FIFO holds. *)

Places == Machine \X Seq(Frame)

\* The receiver and the frames passed up, after a byte.
Taken(s, byte) ==
  <<RxByte(s[1], byte),
    IF Completes(s[1], byte)
    THEN Append(s[2], [id |-> s[1].id, control |-> s[1].control, payload |-> s[1].buf])
    ELSE s[2]>>

IsRun(w, q) ==
  /\ w \in [0 .. Len(q) -> Places]
  /\ \A i \in 0 .. Len(q) - 1 : w[i + 1] = Taken(w[i], q[i + 1])

Leads(q, s, t) == \E w : IsRun(w, q) /\ w[0] = s /\ w[Len(q)] = t

LEMMA TakenType ==
  ASSUME NEW s \in Places, NEW byte \in Byte
  PROVE  Taken(s, byte) \in Places
  <1>1. s[1] \in Machine /\ s[2] \in Seq(Frame)
    BY DEF Places
  <1>2. RxByte(s[1], byte) \in Machine
    BY <1>1, RxByteType
  <1>3. [id |-> s[1].id, control |-> s[1].control, payload |-> s[1].buf] \in Frame
    BY <1>1, MachineFields DEF Frame
  <1>4. Taken(s, byte)[1] \in Machine
    BY <1>2 DEF Taken
  <1>5. Taken(s, byte)[2] \in Seq(Frame)
    BY <1>1, <1>3, AppendProperties DEF Taken
  <1>6. QED
    BY <1>4, <1>5 DEF Taken, Places

LEMMA LeadsEmpty ==
  ASSUME NEW s \in Places
  PROVE  Leads(<< >>, s, s)
  <1> DEFINE w == [i \in 0 .. 0 |-> s]
  <1>1. w \in [0 .. 0 -> Places] /\ w[0] = s
    OBVIOUS
  <1>2. Len(<< >>) = 0 /\ 0 .. 0 - 1 = {}
    OBVIOUS
  <1> HIDE DEF w
  <1>3. IsRun(w, << >>)
    BY <1>1, <1>2 DEF IsRun
  <1>4. QED
    BY <1>1, <1>2, <1>3 DEF Leads

LEMMA LeadsNowhere ==
  ASSUME NEW s, NEW t, Leads(<< >>, s, t)
  PROVE  s = t
  BY DEF Leads

LEMMA LeadsOn ==
  ASSUME NEW q \in Seq(Byte), NEW s, NEW t \in Places, NEW byte \in Byte, Leads(q, s, t)
  PROVE  Leads(Append(q, byte), s, Taken(t, byte))
  <1> DEFINE n == Len(q)
             p == Append(q, byte)
  <1>1. PICK w : IsRun(w, q) /\ w[0] = s /\ w[n] = t
    BY DEF Leads
  <1>2. /\ n \in Nat /\ Len(p) = n + 1 /\ p[n + 1] = byte
        /\ \A i \in 0 .. n - 1 : p[i + 1] = q[i + 1]
    OBVIOUS
  <1>3. Taken(t, byte) \in Places
    BY TakenType
  <1> DEFINE v == [i \in 0 .. n + 1 |-> IF i = n + 1 THEN Taken(t, byte) ELSE w[i]]
  <1> HIDE DEF n, p
  <1>4. w \in [0 .. n -> Places] /\ \A i \in 0 .. n - 1 : w[i + 1] = Taken(w[i], q[i + 1])
    BY <1>1 DEF IsRun, n
  <1>5. v \in [0 .. n + 1 -> Places]
    BY <1>2, <1>3, <1>4
  <1>6. \A i \in 0 .. n : v[i] = w[i]
    BY <1>2
  <1>7. v[n + 1] = Taken(t, byte)
    BY <1>2
  <1> HIDE DEF v
  <1>8. \A i \in 0 .. n : v[i + 1] = Taken(v[i], p[i + 1])
    <2> TAKE i \in 0 .. n
    <2>1. CASE i = n
      <3>1. v[i] = t /\ p[i + 1] = byte /\ v[i + 1] = Taken(t, byte)
        BY <1>1, <1>2, <1>6, <1>7, <2>1
      <3>2. QED
        BY <3>1
    <2>2. CASE i # n
      <3>1. i \in 0 .. n - 1 /\ i + 1 \in 0 .. n
        BY <1>2, <2>2
      <3>2. v[i] = w[i] /\ v[i + 1] = w[i + 1] /\ p[i + 1] = q[i + 1]
        BY <1>2, <1>6, <3>1
      <3>3. w[i + 1] = Taken(w[i], q[i + 1])
        BY <1>4, <3>1
      <3>4. QED
        BY <3>2, <3>3
    <2>3. QED
      BY <2>1, <2>2
  <1>9. (n + 1) - 1 = n /\ 0 \in 0 .. n
    BY <1>2
  <1>10. IsRun(v, p)
    BY <1>2, <1>5, <1>8, <1>9 DEF IsRun
  <1>11. v[0] = s /\ v[Len(p)] = Taken(t, byte)
    BY <1>1, <1>2, <1>6, <1>7, <1>9
  <1>12. QED
    BY <1>10, <1>11 DEF Leads, p

LEMMA LeadsFrom ==
  ASSUME NEW q \in Seq(Byte), q # << >>, NEW s, NEW t, Leads(q, s, t)
  PROVE  Leads(Tail(q), Taken(s, Head(q)), t)
  <1> DEFINE n == Len(q) - 1
             p == Tail(q)
  <1>1. PICK w : IsRun(w, q) /\ w[0] = s /\ w[Len(q)] = t
    BY DEF Leads
  <1>2. /\ n \in Nat /\ Len(q) = n + 1 /\ Len(p) = n /\ q[1] = Head(q)
        /\ \A i \in 1 .. n : p[i] = q[i + 1]
    OBVIOUS
  <1> DEFINE v == [i \in 0 .. n |-> w[i + 1]]
  <1> HIDE DEF n, p
  <1>3. w \in [0 .. n + 1 -> Places] /\ \A i \in 0 .. n : w[i + 1] = Taken(w[i], q[i + 1])
    <2>1. 0 .. Len(q) - 1 = 0 .. n
      BY <1>2
    <2>2. QED
      BY <1>1, <1>2, <2>1 DEF IsRun
  <1>4. v \in [0 .. n -> Places]
    BY <1>2, <1>3
  <1>5. \A i \in 0 .. n : v[i] = w[i + 1]
    OBVIOUS
  <1> HIDE DEF v
  <1>6. \A i \in 0 .. n - 1 : v[i + 1] = Taken(v[i], p[i + 1])
    <2> TAKE i \in 0 .. n - 1
    <2>1. i \in 0 .. n /\ i + 1 \in 0 .. n /\ i + 1 \in 1 .. n
      BY <1>2
    <2>2. v[i] = w[i + 1] /\ v[i + 1] = w[(i + 1) + 1] /\ p[i + 1] = q[(i + 1) + 1]
      BY <1>2, <1>5, <2>1
    <2>3. w[(i + 1) + 1] = Taken(w[i + 1], q[(i + 1) + 1])
      BY <1>3, <2>1
    <2>4. QED
      BY <2>2, <2>3
  <1>7. IsRun(v, p)
    BY <1>2, <1>4, <1>6 DEF IsRun
  <1>8. v[0] = Taken(s, Head(q)) /\ v[Len(p)] = t
    <2>1. 0 \in 0 .. n /\ n \in 0 .. n /\ 0 + 1 = 1
      BY <1>2
    <2>2. v[0] = w[1] /\ v[n] = w[n + 1]
      BY <1>5, <2>1
    <2>3. w[1] = Taken(w[0], q[1])
      BY <1>3, <2>1
    <2>4. QED
      BY <1>1, <1>2, <2>2, <2>3
  <1>9. QED
    BY <1>7, <1>8 DEF Leads, p

-----------------------------------------------------------------------------
(* The invariant. *)

\* The last n frames of g are the last n of the first k the host has sent.
EndsWith(g, n, k) ==
  /\ n <= k /\ n <= Len(g)
  /\ \A j \in 0 .. n - 1 : g[Len(g) - j] = sent[k - j]

LastSent == sent[Len(sent)]

TypeInv ==
  /\ sent \in Seq(Frames) /\ Len(sent) <= MaxFrames
  /\ wire \in Seq(Byte)
  /\ rxFifo \in Seq(Byte) /\ Len(rxFifo) <= RxSize
  /\ receiver \in Machine
  /\ received \in Seq(Frame)
  /\ plugs \in 0 .. MaxPlugs
  /\ whole \in Nat
  /\ cut \in BOOLEAN /\ gaps \in 0 .. MaxGaps /\ open \in BOOLEAN

\* The endpoint holds the end of the frame sent last.
WireInv ==
  /\ wire # << >> =>
       /\ sent # << >>
       /\ Len(wire) <= Len(TxFrame(LastSent))
       /\ \A k \in 1 .. Len(wire) :
            wire[k] = TxFrame(LastSent)[Len(TxFrame(LastSent)) - Len(wire) + k]
  /\ cut => whole = 0

\* Where the receiver will be when it has taken the bytes the FIFO holds.
Ahead(t) ==
  whole # 0 =>
    IF wire = << >>
    THEN t[1].seen = 0 /\ EndsWith(t[2], whole - 1, Len(sent))
    ELSE /\ At(t[1], LastSent, Len(TxFrame(LastSent)) - Len(wire))
         /\ EndsWith(t[2], whole - 1, Len(sent) - 1)

SyncInv ==
  \E t \in Places : Leads(rxFifo, <<receiver, received>>, t) /\ Ahead(t)

LinkInv == TypeInv /\ WireInv /\ SyncInv

LEMMA ClearedType == Cleared \in Machine /\ Cleared.seen = 0
  <1> DEFINE r == Cleared
  <1>1. /\ r.seen = 0 /\ r.state = "SEARCHING_FOR_SOF" /\ r.buf = << >> /\ r.sums = <<0, 0>>
        /\ r.id = 0 /\ r.control = 0 /\ r.length = 0 /\ r.checksum = 0
        /\ r = [seen |-> r.seen, state |-> r.state, id |-> r.id, control |-> r.control,
                length |-> r.length, buf |-> r.buf, sums |-> r.sums, checksum |-> r.checksum]
    BY DEF Cleared
  <1>2. /\ "SEARCHING_FOR_SOF" \in States /\ << >> \in Seq(Byte) /\ Len(<< >>) = 0
        /\ <<0, 0>> \in Sums /\ 0 \in Byte /\ 0 \in Word /\ 0 \in 0 .. 15 /\ 0 \in 0 .. 2
    BY DEF States, Sums, Byte, Word, WordTop
  <1>3. <<0, 0>> \in WideSums
    BY <1>2, SumsAreSmall
  <1> HIDE DEF r
  <1>4. r \in Receiver
    BY <1>1, <1>2, <1>3, ReceiverFields
  <1>5. r \in Machine
    BY <1>1, <1>2, <1>4 DEF Machine, Fits
  <1>6. QED
    BY <1>1, <1>5 DEF r

LEMMA InitLink == Init => LinkInv
  <1> SUFFICES ASSUME Init PROVE LinkInv
    OBVIOUS
  <1>1. TypeInv
    <2>1. /\ << >> \in Seq(Frames) /\ << >> \in Seq(Byte) /\ << >> \in Seq(Frame)
          /\ Len(<< >>) = 0
      OBVIOUS
    <2>2. MaxFrames \in Nat /\ RxSize \in Nat \ {0} /\ MaxPlugs \in Nat /\ MaxGaps \in Nat
      BY LinkAssumption
    <2>3. 0 <= MaxFrames /\ 0 <= RxSize /\ 0 \in 0 .. MaxPlugs /\ 0 \in 0 .. MaxGaps
      BY <2>2
    <2>4. QED
      BY <2>1, <2>3, ClearedType DEF Init, TypeInv
  <1>2. WireInv
    BY DEF Init, WireInv
  <1>3. SyncInv
    <2>1. <<receiver, received>> \in Places
      BY <1>1 DEF TypeInv, Places
    <2>2. Leads(rxFifo, <<receiver, received>>, <<receiver, received>>)
      BY <2>1, LeadsEmpty DEF Init
    <2>3. EndsWith(received, 0, 0)
      BY DEF Init, EndsWith
    <2>4. Ahead(<<receiver, received>>)
      BY <2>3, ClearedType DEF Init, Ahead
    <2>5. QED
      BY <2>1, <2>2, <2>4 DEF SyncInv
  <1>4. QED
    BY <1>1, <1>2, <1>3 DEF LinkInv

\* Taking the head of the FIFO.
LEMMA PassUpTaken ==
  ASSUME NEW byte, PassUp(byte), receiver' = RxByte(receiver, byte)
  PROVE  <<receiver', received'>> = Taken(<<receiver, received>>, byte)
  BY DEF PassUp, Taken

LEMMA PassUpType ==
  ASSUME TypeInv, NEW byte \in Byte, PassUp(byte)
  PROVE  received' \in Seq(Frame)
  <1>1. <<receiver, received>> \in Places
    BY DEF TypeInv, Places
  <1>2. Taken(<<receiver, received>>, byte) \in Places
    BY <1>1, TakenType
  <1>3. received' = Taken(<<receiver, received>>, byte)[2]
    BY DEF PassUp, Taken
  <1>4. QED
    BY <1>2, <1>3 DEF Places


LEMMA NextType ==
  ASSUME LinkInv, [Next]_vars
  PROVE  TypeInv'
  <1> USE DEF loss
  <1>1. TypeInv
    BY DEF LinkInv
  <1>2. MaxFrames \in Nat /\ RxSize \in Nat /\ MaxPlugs \in Nat /\ MaxGaps \in Nat
    BY LinkAssumption
  <1>3. /\ wire \in Seq(Byte) /\ rxFifo \in Seq(Byte)
        /\ wire # << >> => Head(wire) \in Byte /\ Tail(wire) \in Seq(Byte)
        /\ rxFifo # << >> => /\ Head(rxFifo) \in Byte /\ Tail(rxFifo) \in Seq(Byte)
                             /\ Len(Tail(rxFifo)) <= RxSize
    BY <1>1, <1>2 DEF TypeInv
  <1>4. ASSUME NEW f \in Frames, HostSend(f) PROVE TypeInv'
    <2>1. TxFrame(f) \in Seq(Byte)
      BY QueueEnd
    <2>2. Append(sent, f) \in Seq(Frames) /\ Len(Append(sent, f)) <= MaxFrames
      BY <1>1, <1>2, <1>4 DEF TypeInv, HostSend
    <2>3. QED
      BY <1>1, <1>4, <2>1, <2>2 DEF TypeInv, HostSend
  <1>5. CASE Ireceive
    <2>1. Append(rxFifo, Head(wire)) \in Seq(Byte) /\ Len(Append(rxFifo, Head(wire))) <= RxSize
      BY <1>1, <1>2, <1>3, <1>5 DEF TypeInv, Ireceive
    <2>2. whole' \in Nat
      BY <1>1, <1>5 DEF TypeInv, Ireceive
    <2>3. QED
      BY <1>1, <1>3, <1>5, <2>1, <2>2 DEF TypeInv, Ireceive
  <1>6. CASE Discard
    <2>1. gaps' \in 0 .. MaxGaps
      BY <1>1, <1>2, <1>6 DEF TypeInv, Discard
    <2>2. QED
      BY <1>1, <1>3, <1>6, <2>1 DEF TypeInv, Discard
  <1>7. CASE PollByte
    <2>1. receiver' \in Machine
      BY <1>1, <1>3, <1>7, RxByteType DEF TypeInv, PollByte
    <2>2. received' \in Seq(Frame)
      BY <1>1, <1>3, <1>7, PassUpType DEF PollByte
    <2>3. QED
      BY <1>1, <1>3, <1>7, <2>1, <2>2 DEF TypeInv, PollByte
  <1>8. ASSUME ResetFifos, receiver' \in Machine, received' \in Seq(Frame)
        PROVE  TypeInv'
    <2>1. plugs' \in 0 .. MaxPlugs
      BY <1>1, <1>2, <1>8 DEF TypeInv, ResetFifos
    <2>2. << >> \in Seq(Byte) /\ Len(<< >>) <= RxSize
      BY <1>2
    <2>3. QED
      BY <1>1, <1>8, <2>1, <2>2 DEF TypeInv, ResetFifos
  <1>9. receiver \in Machine /\ InitLayer1(receiver) \in Machine /\ received \in Seq(Frame)
    BY <1>1, InitType DEF TypeInv
  <1>10. CASE Plug
    BY <1>8, <1>9, <1>10 DEF Plug
  <1>11. CASE PlugBeforeByte
    <2>1. receiver' \in Machine
      BY <1>3, <1>9, <1>11, RxByteType DEF PlugBeforeByte
    <2>2. QED
      BY <1>8, <1>9, <1>11, <2>1 DEF PlugBeforeByte
  <1>12. CASE PlugInsideByte
    <2> DEFINE after == RxByte(receiver, Head(rxFifo))
    <2>1. after \in Machine
      BY <1>3, <1>9, <1>12, RxByteType DEF PlugInsideByte
    <2>2. 0 \in 0 .. 2 /\ after.seen \in 0 .. 2
      BY <2>1, MachineFields
    <2>3. /\ [after EXCEPT !.seen = 0] \in Machine
          /\ [InitLayer1(receiver) EXCEPT !.seen = after.seen] \in Machine
      <3>1. \A r \in Machine : \A n \in 0 .. 2 : [r EXCEPT !.seen = n] \in Machine
        BY SeenType
      <3> HIDE DEF after
      <3>2. QED
        BY <1>9, <2>1, <2>2, <3>1
    <2>4. /\ ResetFifos
          /\ \/ receiver' = [after EXCEPT !.seen = 0] /\ PassUp(Head(rxFifo))
             \/ /\ receiver' = [InitLayer1(receiver) EXCEPT !.seen = after.seen]
                /\ received' = received
      BY <1>12 DEF PlugInsideByte
    <2>5. PassUp(Head(rxFifo)) => received' \in Seq(Frame)
      BY <1>1, <1>3, <1>12, PassUpType DEF PlugInsideByte
    <2>6. receiver' \in Machine /\ received' \in Seq(Frame)
      BY <1>9, <2>3, <2>4, <2>5
    <2>7. QED
      BY <1>8, <2>4, <2>6
  <1>13. CASE UNCHANGED vars
    BY <1>1, <1>13 DEF TypeInv, vars
  <1>14. QED
    BY <1>4, <1>5, <1>6, <1>7, <1>10, <1>11, <1>12, <1>13 DEF Next

\* The endpoint after its first byte has left.
LEMMA WireTail ==
  ASSUME LinkInv, wire # << >>
  PROVE  LET T == TxFrame(LastSent)
             p == Len(T) - Len(wire)
         IN /\ LastSent \in Frames /\ p \in 0 .. Len(T) - 1 /\ Head(wire) = T[p + 1]
            /\ Len(Tail(wire)) = Len(wire) - 1
            /\ Tail(wire) = << >> <=> p = Len(T) - 1
            /\ \A k \in 1 .. Len(Tail(wire)) :
                 Tail(wire)[k] = T[Len(T) - Len(Tail(wire)) + k]
  <1> DEFINE T == TxFrame(LastSent)
             p == Len(T) - Len(wire)
  <1>1. /\ sent # << >> /\ Len(wire) <= Len(T)
        /\ \A k \in 1 .. Len(wire) : wire[k] = T[Len(T) - Len(wire) + k]
    BY DEF LinkInv, WireInv
  <1>2. sent \in Seq(Frames) /\ wire \in Seq(Byte)
    BY DEF LinkInv, TypeInv
  <1>3. LastSent \in Frames
    BY <1>1, <1>2 DEF LastSent
  <1>4. Len(T) \in Nat
    BY <1>3, QueueEnd
  <1>5. /\ Len(wire) \in Nat \ {0} /\ Head(wire) = wire[1] /\ Len(Tail(wire)) = Len(wire) - 1
        /\ Tail(wire) = << >> <=> Len(wire) = 1
        /\ \A k \in 1 .. Len(wire) - 1 : Tail(wire)[k] = wire[k + 1]
    <2>1. /\ Len(wire) \in Nat \ {0} /\ Head(wire) = wire[1] /\ Tail(wire) \in Seq(Byte)
          /\ Len(Tail(wire)) = Len(wire) - 1
          /\ \A k \in 1 .. Len(wire) - 1 : Tail(wire)[k] = wire[k + 1]
      BY <1>2
    <2>2. Tail(wire) = << >> <=> Len(Tail(wire)) = 0
      BY <2>1, EmptySeq
    <2>3. QED
      BY <2>1, <2>2
  <1> HIDE DEF T
  <1>6. p \in 0 .. Len(T) - 1 /\ (Tail(wire) = << >> <=> p = Len(T) - 1)
    BY <1>1, <1>4, <1>5
  <1>7. Head(wire) = T[p + 1]
    BY <1>1, <1>4, <1>5
  <1>8. ASSUME NEW k \in 1 .. Len(Tail(wire))
        PROVE  Tail(wire)[k] = T[Len(T) - Len(Tail(wire)) + k]
    <2>1. k \in 1 .. Len(wire) - 1 /\ k + 1 \in 1 .. Len(wire)
      BY <1>5
    <2>2. Len(T) - Len(wire) + (k + 1) = Len(T) - Len(Tail(wire)) + k
      BY <1>4, <1>5, <2>1
    <2>3. QED
      BY <1>1, <1>5, <2>1, <2>2
  <1>9. QED
    BY <1>3, <1>5, <1>6, <1>7, <1>8 DEF T

LEMMA NextWire ==
  ASSUME LinkInv, [Next]_vars
  PROVE  WireInv'
  <1> USE DEF loss
  <1>1. WireInv /\ TypeInv
    BY DEF LinkInv
  <1>2. ASSUME NEW f \in Frames, HostSend(f) PROVE WireInv'
    <2>1. sent' = Append(sent, f) /\ wire' = TxFrame(f) /\ ~cut'
      BY <1>2 DEF HostSend
    <2>2. sent' # << >> /\ LastSent' = f
      <3>1. /\ Len(Append(sent, f)) = Len(sent) + 1 /\ Append(sent, f)[Len(sent) + 1] = f
            /\ Append(sent, f) # << >>
        <4>1. sent \in Seq(Frames)
          BY <1>1 DEF TypeInv
        <4>2. QED
          BY <4>1, AppendProperties
      <3>2. QED
        BY <2>1, <3>1 DEF LastSent
    <2>3. TxFrame(f) \in Seq(Byte)
      BY QueueEnd
    <2>4. QED
      BY <2>1, <2>2, <2>3 DEF WireInv
  <1>3. ASSUME wire # << >>, wire' = Tail(wire), sent' = sent, cut' => whole' = 0 PROVE WireInv'
    <2>1. LastSent' = LastSent /\ sent' # << >>
      BY <1>1, <1>3 DEF LastSent, WireInv
    <2>2. /\ Len(Tail(wire)) <= Len(TxFrame(LastSent))
          /\ \A k \in 1 .. Len(Tail(wire)) :
               Tail(wire)[k] = TxFrame(LastSent)[Len(TxFrame(LastSent)) - Len(Tail(wire)) + k]
      <3> DEFINE n == Len(TxFrame(LastSent))
      <3>1. n \in Nat
        BY <1>3, WireTail, QueueEnd
      <3>2. Len(wire) \in Nat /\ Len(wire) <= n /\ Len(Tail(wire)) = Len(wire) - 1
        BY <1>1, <1>3, WireTail DEF WireInv, TypeInv
      <3> HIDE DEF n
      <3>3. Len(Tail(wire)) <= n
        BY <3>1, <3>2
      <3>4. QED
        BY <1>3, <3>3, WireTail DEF n
    <2>3. QED
      BY <1>3, <2>1, <2>2 DEF WireInv
  <1>4. CASE Ireceive
    <2>1. cut' => whole' = 0
      BY <1>1, <1>4 DEF WireInv, Ireceive
    <2>2. QED
      BY <1>3, <1>4, <2>1 DEF Ireceive
  <1>5. CASE Discard
    BY <1>3, <1>5 DEF Discard
  <1>6. CASE PollByte
    BY <1>1, <1>6 DEF WireInv, LastSent, PollByte
  <1>7. CASE Plug \/ PlugBeforeByte \/ PlugInsideByte
    BY <1>7 DEF WireInv, Plug, PlugBeforeByte, PlugInsideByte, ResetFifos
  <1>8. CASE UNCHANGED vars
    BY <1>1, <1>8 DEF WireInv, LastSent, vars
  <1>9. QED
    BY <1>2, <1>4, <1>5, <1>6, <1>7, <1>8 DEF Next


\* A byte comes into the FIFO.
LEMMA SyncReceive ==
  ASSUME LinkInv, Ireceive, NEW t \in Places, Ahead(t), NEW u, u = Taken(t, Head(wire))
  PROVE  Ahead(u)'
  <1> DEFINE T == TxFrame(LastSent)
             p == Len(T) - Len(wire)
             byte == Head(wire)
             k == Len(sent)
  <1>1. TypeInv /\ WireInv /\ wire # << >>
    BY DEF LinkInv, Ireceive
  <1>2. /\ LastSent \in Frames /\ p \in 0 .. Len(T) - 1 /\ byte = T[p + 1]
        /\ Len(Tail(wire)) = Len(wire) - 1
        /\ Tail(wire) = << >> <=> p = Len(T) - 1
    BY <1>1, WireTail
  <1>3. /\ wire' = Tail(wire) /\ sent' = sent
        /\ whole' = IF wire' = << >> /\ ~cut THEN whole + 1 ELSE whole
    BY DEF Ireceive
  <1>4. LastSent' = LastSent /\ k \in Nat /\ whole \in Nat /\ Len(wire) \in Nat
    BY <1>1, <1>3 DEF LastSent, TypeInv
  <1>5. t[1] \in Machine /\ t[2] \in Seq(Frame)
    BY DEF Places
  <1>6. Len(T) \in Nat /\ T[Len(T)] = EOF_BYTE
    BY <1>2, QueueEnd
  <1>7. whole # 0 => At(t[1], LastSent, p) /\ EndsWith(t[2], whole - 1, k - 1)
    BY <1>1 DEF Ahead
  <1>8. CASE p # Len(T) - 1
    <2>1. p \in 0 .. Len(T) - 2 /\ wire' # << >> /\ whole' = whole
      BY <1>2, <1>3, <1>6, <1>8
    <2>2. SUFFICES ASSUME whole # 0
                   PROVE  /\ At(u[1], LastSent, Len(T) - Len(wire'))
                          /\ EndsWith(u[2], whole - 1, k - 1)
      BY <1>3, <1>4, <2>1 DEF Ahead, EndsWith
    <2>3. At(t[1], LastSent, p) /\ EndsWith(t[2], whole - 1, k - 1)
      BY <1>7, <2>2
    <2>4. At(RxByte(t[1], byte), LastSent, p + 1) /\ ~Completes(t[1], byte)
      BY <1>2, <1>5, <2>1, <2>3, FrameByte
    <2>5. u[1] = RxByte(t[1], byte) /\ u[2] = t[2]
      BY <2>4 DEF Taken
    <2>6. Len(T) - Len(wire') = p + 1
      <3> HIDE DEF T
      <3>1. Len(wire') = Len(wire) - 1
        BY <1>2, <1>3
      <3>2. QED
        BY <1>4, <1>6, <3>1
    <2>7. QED
      BY <2>3, <2>4, <2>5, <2>6
  <1>9. CASE p = Len(T) - 1
    <2>1. byte = EOF_BYTE /\ wire' = << >>
      BY <1>2, <1>3, <1>6, <1>9
    <2>2. u[1].seen = 0
      BY <1>5, <2>1, EofSeen DEF Taken
    <2>3. SUFFICES ASSUME whole' # 0
                   PROVE  EndsWith(u[2], whole' - 1, k)
      BY <1>3, <2>1, <2>2 DEF Ahead, EndsWith
    <2>4. whole' = whole + 1 /\ whole' - 1 = whole
      BY <1>1, <1>3, <1>4, <2>1, <2>3 DEF WireInv
    <2>5. CASE whole = 0
      <3>1. u \in Places
        <4>1. byte \in Byte
          BY <2>1 DEF EOF_BYTE, Byte
        <4>2. QED
          BY <4>1, TakenType
      <3>2. Len(u[2]) \in Nat
        BY <3>1 DEF Places
      <3>3. QED
        BY <1>4, <2>4, <2>5, <3>2 DEF EndsWith
    <2>6. CASE whole # 0
      <3>1. At(t[1], LastSent, p) /\ EndsWith(t[2], whole - 1, k - 1)
        BY <1>7, <2>6
      <3>2. /\ Completes(t[1], EOF_BYTE)
            /\ [id |-> t[1].id, control |-> t[1].control, payload |-> t[1].buf] = LastSent
        BY <1>2, <1>5, <1>9, <3>1, LastByte
      <3>3. u[2] = Append(t[2], LastSent)
        BY <2>1, <3>2 DEF Taken
      <3> DEFINE g == t[2]
                 h == Append(g, LastSent)
      <3>4. Len(h) = Len(g) + 1 /\ h[Len(g) + 1] = LastSent /\ \A i \in 1 .. Len(g) : h[i] = g[i]
        BY <1>5
      <3>5. /\ whole - 1 <= k - 1 /\ whole - 1 <= Len(g)
            /\ \A j \in 0 .. (whole - 1) - 1 : g[Len(g) - j] = sent[(k - 1) - j]
        BY <3>1 DEF EndsWith
      <3>6. Len(g) \in Nat
        BY <1>5
      <3>7. sent[k] = LastSent
        BY DEF LastSent
      <3> HIDE DEF g, h, k
      <3>8. ASSUME NEW j \in 0 .. whole - 1
            PROVE  h[Len(h) - j] = sent[k - j]
        <4>1. CASE j = 0
          <5>1. Len(h) - j = Len(g) + 1 /\ k - j = k
            BY <1>4, <3>4, <3>6, <4>1
          <5>2. QED
            BY <3>4, <3>7, <5>1
        <4>2. CASE j # 0
          <5>1. /\ j - 1 \in 0 .. (whole - 1) - 1
                /\ Len(h) - j = Len(g) - (j - 1) /\ Len(g) - (j - 1) \in 1 .. Len(g)
                /\ k - j = (k - 1) - (j - 1)
            BY <1>4, <3>4, <3>5, <3>6, <4>2
          <5>2. h[Len(g) - (j - 1)] = g[Len(g) - (j - 1)]
            BY <3>4, <5>1
          <5>3. QED
            BY <3>5, <5>1, <5>2
        <4>3. QED
          BY <4>1, <4>2
      <3>9. whole <= k /\ whole <= Len(h)
        BY <1>4, <3>4, <3>5, <3>6
      <3>10. EndsWith(h, whole, k)
        BY <3>8, <3>9 DEF EndsWith
      <3>11. QED
        BY <2>4, <3>3, <3>10 DEF h, g
    <2>7. QED
      BY <2>5, <2>6
  <1>10. QED
    BY <1>8, <1>9


LEMMA NextSync ==
  ASSUME LinkInv, [Next]_vars
  PROVE  SyncInv'
  <1> USE DEF loss
  <1>1. TypeInv /\ WireInv /\ TypeInv'
    BY NextType DEF LinkInv
  <1>2. PICK t \in Places : Leads(rxFifo, <<receiver, received>>, t) /\ Ahead(t)
    BY DEF LinkInv, SyncInv
  <1>3. rxFifo \in Seq(Byte) /\ receiver' \in Machine /\ received' \in Seq(Frame)
    BY <1>1 DEF TypeInv
  <1>4. ASSUME NEW f \in Frames, HostSend(f) PROVE SyncInv'
    <2> DEFINE k == Len(sent)
    <2>1. /\ wire = << >> /\ sent' = Append(sent, f) /\ wire' = TxFrame(f) /\ whole' = whole
          /\ rxFifo' = rxFifo /\ receiver' = receiver /\ received' = received
      BY <1>4 DEF HostSend
    <2>2. /\ k \in Nat /\ Len(sent') = k + 1 /\ sent'[k + 1] = f
          /\ \A i \in 1 .. k : sent'[i] = sent[i]
      BY <1>1, <2>1 DEF TypeInv
    <2>3. LastSent' = f
      BY <2>2 DEF LastSent
    <2>4. wire' # << >> /\ Len(TxFrame(f)) - Len(wire') = 0
      BY <2>1, QueueEnd
    <2>5. ASSUME whole # 0
          PROVE  At(t[1], f, 0) /\ EndsWith(t[2], whole - 1, Len(sent) - 1)'
      <3>1. t[1].seen = 0 /\ EndsWith(t[2], whole - 1, k)
        BY <1>2, <2>1, <2>5 DEF Ahead
      <3>2. At(t[1], f, 0)
        BY <3>1 DEF At
      <3> DEFINE n == whole - 1
      <3>3. /\ n \in Nat /\ n <= k /\ n <= Len(t[2]) /\ whole' - 1 = n
            /\ \A j \in 0 .. n - 1 : t[2][Len(t[2]) - j] = sent[k - j]
        BY <1>1, <2>1, <2>5, <3>1 DEF TypeInv, EndsWith
      <3>4. Len(sent') - 1 = k
        BY <2>2
      <3> HIDE DEF n, k
      <3>5. \A j \in 0 .. n - 1 : k - j \in 1 .. k
        BY <2>2, <3>3
      <3>6. \A j \in 0 .. n - 1 : t[2][Len(t[2]) - j] = sent'[k - j]
        BY <2>2, <3>3, <3>5
      <3>7. QED
        BY <3>2, <3>3, <3>4, <3>6 DEF EndsWith
    <2>6. Ahead(t)'
      BY <2>1, <2>2, <2>3, <2>4, <2>5 DEF Ahead
    <2>7. QED
      BY <1>2, <2>1, <2>6 DEF SyncInv
  <1>5. CASE Ireceive
    <2> DEFINE byte == Head(wire)
               u == Taken(t, byte)
    <2>1. /\ wire # << >> /\ rxFifo' = Append(rxFifo, byte)
          /\ receiver' = receiver /\ received' = received
      BY <1>5 DEF Ireceive
    <2>2. byte \in Byte
      BY <1>1, <2>1 DEF TypeInv
    <2>3. PICK v \in Places : v = u
      BY <2>2, TakenType
    <2>4. Leads(rxFifo', <<receiver', received'>>, v)
      BY <1>2, <1>3, <2>1, <2>2, <2>3, LeadsOn
    <2>5. Ahead(v)'
      BY <1>2, <1>5, <2>3, SyncReceive
    <2>6. QED
      BY <2>3, <2>4, <2>5 DEF SyncInv
  <1>6. ASSUME rxFifo' = rxFifo, receiver' = receiver, received' = received, whole' = 0
        PROVE  SyncInv'
    BY <1>2, <1>6 DEF SyncInv, Ahead
  <1>7. CASE Discard
    BY <1>6, <1>7 DEF Discard
  <1>8. CASE PollByte
    <2> DEFINE byte == Head(rxFifo)
    <2>1. /\ rxFifo # << >> /\ rxFifo' = Tail(rxFifo)
          /\ PassUp(byte) /\ receiver' = RxByte(receiver, byte)
          /\ sent' = sent /\ wire' = wire /\ whole' = whole
      BY <1>8 DEF PollByte
    <2>2. <<receiver', received'>> = Taken(<<receiver, received>>, byte)
      BY <2>1, PassUpTaken
    <2>3. Leads(rxFifo', <<receiver', received'>>, t)
      BY <1>2, <1>3, <2>1, <2>2, LeadsFrom
    <2>4. Ahead(t)'
      BY <1>2, <2>1 DEF Ahead, EndsWith, LastSent
    <2>5. QED
      BY <2>3, <2>4 DEF SyncInv
  <1>9. CASE Plug \/ PlugBeforeByte \/ PlugInsideByte
    <2>1. rxFifo' = << >> /\ whole' = 0
      BY <1>9 DEF Plug, PlugBeforeByte, PlugInsideByte, ResetFifos
    <2>2. PICK v \in Places : v = <<receiver', received'>>
      BY <1>3 DEF Places
    <2>3. Leads(rxFifo', <<receiver', received'>>, v)
      BY <2>1, <2>2, LeadsEmpty
    <2>4. Ahead(v)'
      BY <2>1 DEF Ahead
    <2>5. QED
      BY <2>2, <2>3, <2>4 DEF SyncInv
  <1>10. CASE UNCHANGED vars
    <2>1. Ahead(t)'
      BY <1>2, <1>10 DEF Ahead, EndsWith, LastSent, vars
    <2>2. QED
      BY <1>2, <1>10, <2>1 DEF SyncInv, vars
  <1>11. QED
    BY <1>4, <1>5, <1>7, <1>8, <1>9, <1>10 DEF Next

LEMMA LinkInductive == LinkInv /\ [Next]_vars => LinkInv'
  BY NextType, NextWire, NextSync DEF LinkInv

LEMMA LinkAlways == Spec => []LinkInv
  <1>1. QED
    BY InitLink, LinkInductive, PTL DEF Spec

LEMMA TypeOfLink == LinkInv => TypeOK
  <1> SUFFICES ASSUME LinkInv PROVE TypeOK
    OBVIOUS
  <1>1. TypeInv
    BY DEF LinkInv
  <1>2. sent \in Seq(Frame)
    <2>1. Frames \subseteq Frame
      BY LinkAssumption
    <2>2. QED
      BY <1>1, <2>1 DEF TypeInv
  <1>3. receiver \in Receiver /\ Len(receiver.buf) <= MAX_FRAME_PAYLOAD_SIZE
    BY <1>1, MachineFields DEF TypeInv, MAX_FRAME_PAYLOAD_SIZE
  <1>4. whole \in 0 .. MaxFrames + 1
    <2>1. whole \in Nat /\ Len(sent) \in Nat /\ Len(sent) <= MaxFrames /\ MaxFrames \in Nat
      BY <1>1, LinkAssumption DEF TypeInv
    <2>2. whole # 0 => whole - 1 <= Len(sent)
      <3>1. PICK t : Ahead(t)
        BY DEF LinkInv, SyncInv
      <3>2. whole # 0 => whole - 1 <= Len(sent) \/ whole - 1 <= Len(sent) - 1
        BY <3>1 DEF Ahead, EndsWith
      <3>3. QED
        BY <2>1, <3>2
    <2>3. QED
      BY <2>1, <2>2
  <1>5. QED
    BY <1>1, <1>2, <1>3, <1>4 DEF TypeInv, TypeOK

\* Every variable keeps its type: the FIFO its size, and the receiver's buffer has room for
\* every payload, whatever the bytes that reach it.
THEOREM TypeCorrect == Spec => []TypeOK
  BY LinkAlways, TypeOfLink, PTL

LEMMA EndIsSuffix ==
  ASSUME NEW g \in Seq(Frame), NEW n \in Nat, sent \in Seq(Frames),
         EndsWith(g, n, Len(sent))
  PROVE  IsSuffix(SubSeq(sent, Len(sent) - n + 1, Len(sent)), g)
  <1> DEFINE k == Len(sent)
             a == k - n + 1
             x == SubSeq(sent, a, k)
             l == Len(g)
  <1>1. k \in Nat /\ l \in Nat /\ n <= k /\ n <= l /\ \A j \in 0 .. n - 1 : g[l - j] = sent[k - j]
    BY DEF EndsWith
  <1>2. a \in 1 .. k + 1
    BY <1>1
  <1>3. Len(x) = n /\ \A i \in 1 .. n : x[i] = sent[a + i - 1]
    BY <1>1, <1>2
  <1>4. /\ Reverse(x) \in Seq(Frames) /\ Len(Reverse(x)) = n
        /\ \A i \in 1 .. n : Reverse(x)[i] = sent[k - i + 1]
    <2>1. x \in Seq(Frames) /\ \A i \in 1 .. n : n - i + 1 \in 1 .. n
      BY <1>1, <1>2
    <2>2. Reverse(x) = [i \in 1 .. n |-> x[(n - i) + 1]]
      BY <1>3 DEF Reverse
    <2>3. Reverse(x) \in [1 .. n -> Frames]
      <3> DEFINE y == x
      <3>1. \A i \in 1 .. n : y[(n - i) + 1] \in Frames
        <4>1. y \in Seq(Frames) /\ Len(y) = n
          BY <1>3, <2>1
        <4> HIDE DEF y
        <4>2. QED
          BY <2>1, <4>1
      <3> HIDE DEF x, y
      <3>2. QED
        BY <2>2, <3>1 DEF y
    <2>4. \A i \in 1 .. n : Reverse(x)[i] = sent[a + (n - i + 1) - 1]
      BY <1>3, <2>1, <2>2
    <2>5. \A i \in 1 .. n : a + (n - i + 1) - 1 = k - i + 1
      BY <1>1
    <2> HIDE DEF x, a, k
    <2>6. QED
      BY <2>3, <2>4, <2>5
  <1>5. /\ Reverse(g) \in Seq(Frame) /\ Len(Reverse(g)) = l
        /\ \A i \in 1 .. l : Reverse(g)[i] = g[l - i + 1]
    BY DEF Reverse
  <1>6. \A i \in 1 .. n : Reverse(x)[i] = Reverse(g)[i]
    <2> HIDE DEF k, l, x
    <2> TAKE i \in 1 .. n
    <2>1. /\ i - 1 \in 0 .. n - 1 /\ i \in 1 .. l
          /\ l - (i - 1) = l - i + 1 /\ k - (i - 1) = k - i + 1
      BY <1>1
    <2>2. g[l - (i - 1)] = sent[k - (i - 1)]
      BY <1>1, <2>1
    <2>3. QED
      BY <1>4, <1>5, <2>1, <2>2
  <1> DEFINE rx == Reverse(x)
             rg == Reverse(g)
  <1>7. SubSeq(rx, 1, n) = SubSeq(rg, 1, n)
    <2> HIDE DEF x, a, k, l, rx, rg
    <2>1. Len(rx) = n /\ Len(rg) = l /\ rx \in Seq(Frames) /\ rg \in Seq(Frame)
      BY <1>4, <1>5 DEF rx, rg, l
    <2>2. \A i \in 1 .. n : rx[i] = rg[i]
      BY <1>6 DEF rx, rg
    <2>3. QED
      BY <1>1, <2>1, <2>2
  <1>8. QED
    BY <1>1, <1>4, <1>5, <1>7 DEF IsSuffix, IsPrefix

LEMMA ResynchronisesLink == LinkInv => Resynchronises
  <1> SUFFICES ASSUME LinkInv, Drained PROVE Resynchronises
    BY DEF Resynchronises
  <1> DEFINE n == IF whole = 0 THEN 0 ELSE whole - 1
  <1>1. TypeInv /\ wire = << >> /\ rxFifo = << >>
    BY DEF LinkInv, Drained
  <1>2. sent \in Seq(Frames) /\ received \in Seq(Frame) /\ n \in Nat
    BY <1>1 DEF TypeInv
  <1>3. EndsWith(received, n, Len(sent))
    <2>1. PICK t \in Places : Leads(rxFifo, <<receiver, received>>, t) /\ Ahead(t)
      BY DEF LinkInv, SyncInv
    <2>2. t = <<receiver, received>>
      BY <1>1, <2>1, LeadsNowhere
    <2>3. CASE whole = 0
      BY <1>2, <2>3 DEF EndsWith
    <2>4. CASE whole # 0
      BY <1>1, <2>1, <2>2, <2>4 DEF Ahead
    <2>5. QED
      BY <2>3, <2>4
  <1>4. QED
    BY <1>2, <1>3, EndIsSuffix DEF Resynchronises

\* Whatever was lost and wherever a plug came between: of the frames that come into the FIFO
\* whole one after another the receiver passes up all but the first, byte for byte as the
\* host sent them, for every frame min_tx_frame() can send.
THEOREM AlwaysResynchronises == Spec => []Resynchronises
  BY LinkAlways, ResynchronisesLink, PTL
=============================================================================
