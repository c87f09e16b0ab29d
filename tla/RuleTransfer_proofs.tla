------------------------- MODULE RuleTransfer_proofs -------------------------
(***************************************************************************)
(* An ACK for everything means that everything was done, no rule is put    *)
(* together from two and the buffer holds within the losses these allow,   *)
(* and the rules that run are stored ones: whatever rules the host uploads,*)
(* in whatever order, and however many frames, answers, sessions and       *)
(* restarts there are.                                                     *)
(***************************************************************************)
EXTENDS RuleTransfer, SequenceTheorems, SetInduction, TLAPS

Frame ==
  [type : {"start"}, size : {Size(r) : r \in Rules}]
    \cup [type : {"data"}, chunk : Chunk]
    \cup [type : {"end", "save", "erase", "time"}]

RuleLists == Seq(Seq(Chunk))
Stored == [rules |-> rules, saved |-> saved]

-----------------------------------------------------------------------------
(* The inductive invariant. *)

Kinds ==
  /\ asked \in Nat /\ acks \in Nat /\ lost \in Nat /\ replugs \in Nat
  /\ wire \in Seq(Frame)
  /\ receiving \in BOOLEAN /\ amid \in BOOLEAN
  /\ buffer \in Seq(Chunk) /\ ruleSize \in Nat
  /\ rules \in RuleLists /\ saved \in RuleLists
  /\ loaded \in RuleLists \cup {Garbled}

\* All frames of the request have gone but the first k.
Left(request, k) ==
  /\ Len(wire) = Len(Frames(request)) - k
  /\ \A i \in 1 .. Len(wire) : wire[i] = Frames(request)[k + i]

Owed(request) == IF request.op = "time" THEN 0 ELSE 1

\* So far every answer that came back, or still may, is an ACK.
AllAcked(owed) == acks + owed = asked /\ (amid => lost = 0)

\* The bytes of the first k chunks of a rule.
Amount(r, k) == Size(SubSeq(r, 1, k))

\* What came of them: all, or fewer bytes.
Came(b, r, k) == Size(b) <= Amount(r, k) /\ (Size(b) = Amount(r, k) => b = SubSeq(r, 1, k))

Faults == lost + replugs

\* The device is receiving although no rule is underway: the END of one was lost, or
\* the cable pulled, and one rule is in the buffer unless there were more faults.
Between ==
  receiving => /\ Faults >= 1
               /\ Faults <= 2 => 2 * Size(buffer) <= BufferSize
               /\ (lost = 1 /\ replugs = 0) => Size(buffer) = ruleSize

\* The device has the START of the rule that is underway, of which k chunks are gone ...
Begun(r, k) ==
  /\ ruleSize = Size(r)
  /\ Came(buffer, r, k)
  /\ lost = 0 => Size(buffer) = Amount(r, k)

\* ... or its START was lost, and its chunks are added to what was there.
RanOn(r, k) ==
  /\ lost >= 1 /\ Faults >= 2
  /\ Faults <= 3 => 2 * Size(buffer) <= BufferSize + 2 * Amount(r, k)
  /\ (lost = 2 /\ replugs = 0) => Size(buffer) = ruleSize + Amount(r, k)

Within(r, k) == receiving => Begun(r, k) \/ RanOn(r, k)

\* What is in the buffer when k frames of a request are gone.
Held(request, k) == IF k = 0 THEN Between ELSE Within(request.rule, k - 1)

\* Nothing is on its way, and what the host wants is stored.
Settled ==
  /\ wire = << >>
  /\ acks <= asked
  /\ AllAcked(0) => wanted = Stored /\ (receiving => amid)

\* What the host wants is stored but for one request, of which k frames are gone:
\* if the device is receiving, it has some of the chunks among them.
Underway(request, k) ==
  /\ Left(request, k)
  /\ acks + Owed(request) <= asked
  /\ AllAcked(Owed(request)) =>
       /\ wanted = CarryOut(Stored, request)
       /\ (k = 0 /\ receiving) => amid
       /\ (k > 0 /\ receiving) => /\ ruleSize = Size(request.rule)
                                  /\ Came(buffer, request.rule, k - 1)

LinkInv ==
  \/ Settled /\ Between
  \/ \E request \in Requests : \E k \in 0 .. Len(Frames(request)) - 1 :
       Underway(request, k) /\ Held(request, k)

SavedIsPrefix == IsPrefix(saved, rules)

TransferInv ==
  Kinds /\ LinkInv /\ BufferHolds /\ StoredWasSent /\ SavedIsPrefix /\ RunsStoredRules

-----------------------------------------------------------------------------
(* The sizes of rules and of lists of them. *)

Lengths(s) == [i \in 1 .. Len(s) |-> s[i].len]

LEMMA LengthsArePositive ==
  ASSUME NEW s \in Seq(Chunk)
  PROVE  Lengths(s) \in [1 .. Len(s) -> Nat \ {0}] /\ Lengths(s) \in [1 .. Len(s) -> Nat]
  <1>1. \A i \in 1 .. Len(s) : s[i] \in Chunk
    OBVIOUS
  <1>2. \A i \in 1 .. Len(s) : s[i].len \in Nat \ {0}
    BY <1>1, UploadAssumption
  <1>3. Lengths(s) \in [1 .. Len(s) -> Nat \ {0}]
    BY <1>2 DEF Lengths
  <1>4. QED
    BY <1>3

LEMMA SizeIsSum ==
  ASSUME NEW s \in Seq(Chunk)
  PROVE  \E f : IsSum(f, 0, Lengths(s), Len(s)) /\ Size(s) = f[1 .. Len(s)]
  <1> DEFINE w == Lengths(s)
             n == Len(s)
             Raw(f) == f = [S \in SUBSET (DOMAIN s) |->
                              IF S = {} THEN 0 ELSE f[S \ {Max(S)}] + s[Max(S)].len]
  <1>1. n \in Nat /\ DOMAIN s = 1 .. n
    OBVIOUS
  <1>2. Size(s) = (CHOOSE f : Raw(f))[DOMAIN s]
    BY Zenon DEF Size, FoldLeft, MapThenFoldSet
  <1>3. \A f : Raw(f) <=> IsSum(f, 0, w, n)
    <2>1. \A S \in SUBSET (1 .. n) : S # {} => Max(S) \in 1 .. n
      <3>1. \A S \in SUBSET (1 .. n) : S # {} => Max(S) \in S
        BY <1>1, GreatestPlace
      <3>2. QED
        BY <3>1
    <2>2. \A i \in 1 .. n : w[i] = s[i].len
      BY DEF Lengths
    <2>3. ASSUME NEW f
          PROVE  [S \in SUBSET (1 .. n) |-> IF S = {} THEN 0 ELSE f[S \ {Max(S)}] + s[Max(S)].len]
                 = [S \in SUBSET (1 .. n) |-> IF S = {} THEN 0 ELSE f[S \ {Max(S)}] + w[Max(S)]]
      <3> HIDE DEF w, n
      <3>1. \A S \in SUBSET (1 .. n) : S # {} => s[Max(S)].len = w[Max(S)]
        BY <2>1, <2>2
      <3>2. QED
        BY <3>1
    <2> HIDE DEF w, n
    <2>4. QED
      BY <1>1, <2>3, Zenon DEF IsSum
  <1>4. \E f : IsSum(f, 0, w, n)
    <2>1. w \in [1 .. n -> Nat]
      BY LengthsArePositive
    <2> HIDE DEF w, n
    <2>2. QED
      BY <1>1, <2>1, SumExists
  <1> HIDE DEF Raw, w, n
  <1>5. Raw(CHOOSE f : Raw(f))
    BY <1>3, <1>4, Zenon
  <1>6. QED
    BY <1>1, <1>2, <1>3, <1>5, Zenon DEF w, n

LEMMA SizeOfNothing == Size(<< >>) = 0
  <1> DEFINE s == << >>
  <1>1. s \in Seq(Chunk) /\ Len(s) = 0 /\ Len(s) \in Nat
    OBVIOUS
  <1> HIDE DEF s
  <1>2. PICK f : IsSum(f, 0, Lengths(s), Len(s)) /\ Size(s) = f[1 .. Len(s)]
    BY <1>1, SizeIsSum
  <1>3. f[1 .. 0] = 0
    BY <1>1, <1>2, SumOfNone
  <1>4. Size(s) = 0
    BY <1>1, <1>2, <1>3
  <1>5. QED
    BY <1>4 DEF s

LEMMA SizeIsNat ==
  ASSUME NEW s \in Seq(Chunk)
  PROVE  Size(s) \in Nat /\ Size(s) >= Len(s)
  <1>1. Len(s) \in Nat
    OBVIOUS
  <1>2. PICK f : IsSum(f, 0, Lengths(s), Len(s)) /\ Size(s) = f[1 .. Len(s)]
    BY SizeIsSum
  <1>3. Lengths(s) \in [1 .. Len(s) -> Nat \ {0}]
    BY LengthsArePositive
  <1>4. Len(s) \in 0 .. Len(s)
    BY <1>1
  <1>5. f[1 .. Len(s)] \in Nat /\ f[1 .. Len(s)] >= 0 + Len(s)
    BY <1>1, <1>2, <1>3, <1>4, SumGrows
  <1>6. QED
    BY <1>1, <1>2, <1>5

LEMMA SizeOfMore ==
  ASSUME NEW s \in Seq(Chunk), NEW c \in Chunk
  PROVE  Size(Append(s, c)) = Size(s) + c.len
  <1> DEFINE t == Append(s, c)
             n == Len(s)
  <1>1. t \in Seq(Chunk) /\ n \in Nat /\ Len(t) = n + 1 /\ t[n + 1] = c
        /\ \A i \in 1 .. n : t[i] = s[i]
    BY AppendProperties
  <1> HIDE DEF t
  <1>2. PICK f : IsSum(f, 0, Lengths(s), Len(s)) /\ Size(s) = f[1 .. Len(s)]
    BY SizeIsSum
  <1>3. PICK g : IsSum(g, 0, Lengths(t), Len(t)) /\ Size(t) = g[1 .. Len(t)]
    BY <1>1, SizeIsSum
  <1>4. /\ \A i \in 1 .. n : Lengths(s)[i] = Lengths(t)[i]
        /\ Lengths(t)[n + 1] = c.len
    BY <1>1 DEF Lengths
  <1> HIDE DEF n
  <1>5. IsSum(f, 0, Lengths(s), n) /\ IsSum(g, 0, Lengths(t), Len(t))
    BY <1>1, <1>2, <1>3 DEF n
  <1>6. g[1 .. Len(t)] = f[1 .. n] + Lengths(t)[Len(t)]
    <2>1. Len(t) \in Nat /\ n \in Nat
      BY <1>1
    <2>2. \A i \in 1 .. n : Lengths(s)[i] = Lengths(t)[i]
      BY <1>4
    <2>3. Len(t) = n + 1 => g[1 .. Len(t)] = f[1 .. n] + Lengths(t)[Len(t)]
      BY <1>5, <2>1, <2>2, SumOfLonger
    <2>4. QED
      BY <1>1, <2>3
  <1>7. Size(t) = Size(s) + c.len
    BY <1>1, <1>2, <1>3, <1>4, <1>6 DEF n
  <1>8. QED
    BY <1>7 DEF t
Places(s) == [i \in 1 .. Len(s) |-> 1 + Size(s[i])]

LEMMA PlacesArePositive ==
  ASSUME NEW s \in Seq(Seq(Chunk))
  PROVE  Places(s) \in [1 .. Len(s) -> Nat \ {0}] /\ Places(s) \in [1 .. Len(s) -> Nat]
  <1>1. \A i \in 1 .. Len(s) : s[i] \in Seq(Chunk)
    OBVIOUS
  <1>2. \A i \in 1 .. Len(s) : 1 + Size(s[i]) \in Nat \ {0}
    BY <1>1, SizeIsNat
  <1>3. Places(s) \in [1 .. Len(s) -> Nat \ {0}]
    BY <1>2 DEF Places
  <1>4. QED
    BY <1>3

LEMMA UsedIsSum ==
  ASSUME NEW s \in Seq(Seq(Chunk))
  PROVE  \E f : IsSum(f, 1, Places(s), Len(s)) /\ Used(s) = f[1 .. Len(s)]
  <1> DEFINE w == Places(s)
             n == Len(s)
             Raw(f) == f = [S \in SUBSET (DOMAIN s) |->
                              IF S = {} THEN 1 ELSE f[S \ {Max(S)}] + (1 + Size(s[Max(S)]))]
  <1>1. n \in Nat /\ DOMAIN s = 1 .. n
    OBVIOUS
  <1>2. Used(s) = (CHOOSE f : Raw(f))[DOMAIN s]
    BY Zenon DEF Used, FoldLeft, MapThenFoldSet
  <1>3. \A f : Raw(f) <=> IsSum(f, 1, w, n)
    <2>1. \A S \in SUBSET (1 .. n) : S # {} => Max(S) \in 1 .. n
      <3>1. \A S \in SUBSET (1 .. n) : S # {} => Max(S) \in S
        BY <1>1, GreatestPlace
      <3>2. QED
        BY <3>1
    <2>2. \A i \in 1 .. n : w[i] = 1 + Size(s[i])
      BY DEF Places
    <2>3. ASSUME NEW f
          PROVE  [S \in SUBSET (1 .. n) |-> IF S = {} THEN 1 ELSE f[S \ {Max(S)}] + (1 + Size(s[Max(S)]))]
                 = [S \in SUBSET (1 .. n) |-> IF S = {} THEN 1 ELSE f[S \ {Max(S)}] + w[Max(S)]]
      <3> HIDE DEF w, n
      <3>1. \A S \in SUBSET (1 .. n) : S # {} => (1 + Size(s[Max(S)])) = w[Max(S)]
        BY <2>1, <2>2
      <3>2. QED
        BY <3>1
    <2> HIDE DEF w, n
    <2>4. QED
      BY <1>1, <2>3, Zenon DEF IsSum
  <1>4. \E f : IsSum(f, 1, w, n)
    <2>1. w \in [1 .. n -> Nat]
      BY PlacesArePositive
    <2> HIDE DEF w, n
    <2>2. QED
      BY <1>1, <2>1, SumExists
  <1> HIDE DEF Raw, w, n
  <1>5. Raw(CHOOSE f : Raw(f))
    BY <1>3, <1>4, Zenon
  <1>6. QED
    BY <1>1, <1>2, <1>3, <1>5, Zenon DEF w, n

LEMMA UsedOfNothing == Used(<< >>) = 1
  <1> DEFINE s == << >>
  <1>1. s \in Seq(Seq(Chunk)) /\ Len(s) = 0 /\ Len(s) \in Nat
    OBVIOUS
  <1> HIDE DEF s
  <1>2. PICK f : IsSum(f, 1, Places(s), Len(s)) /\ Used(s) = f[1 .. Len(s)]
    BY <1>1, UsedIsSum
  <1>3. f[1 .. 0] = 1
    BY <1>1, <1>2, SumOfNone
  <1>4. Used(s) = 1
    BY <1>1, <1>2, <1>3
  <1>5. QED
    BY <1>4 DEF s

LEMMA UsedIsNat ==
  ASSUME NEW s \in Seq(Seq(Chunk))
  PROVE  Used(s) \in Nat /\ Used(s) >= 1 + Len(s)
  <1>1. Len(s) \in Nat
    OBVIOUS
  <1>2. PICK f : IsSum(f, 1, Places(s), Len(s)) /\ Used(s) = f[1 .. Len(s)]
    BY UsedIsSum
  <1>3. Places(s) \in [1 .. Len(s) -> Nat \ {0}]
    BY PlacesArePositive
  <1>4. Len(s) \in 0 .. Len(s)
    BY <1>1
  <1>5. f[1 .. Len(s)] \in Nat /\ f[1 .. Len(s)] >= 1 + Len(s)
    BY <1>1, <1>2, <1>3, <1>4, SumGrows
  <1>6. QED
    BY <1>1, <1>2, <1>5

LEMMA UsedOfMore ==
  ASSUME NEW s \in Seq(Seq(Chunk)), NEW c \in Seq(Chunk)
  PROVE  Used(Append(s, c)) = Used(s) + (1 + Size(c))
  <1> DEFINE t == Append(s, c)
             n == Len(s)
  <1>1. t \in Seq(Seq(Chunk)) /\ n \in Nat /\ Len(t) = n + 1 /\ t[n + 1] = c
        /\ \A i \in 1 .. n : t[i] = s[i]
    BY AppendProperties
  <1> HIDE DEF t
  <1>2. PICK f : IsSum(f, 1, Places(s), Len(s)) /\ Used(s) = f[1 .. Len(s)]
    BY UsedIsSum
  <1>3. PICK g : IsSum(g, 1, Places(t), Len(t)) /\ Used(t) = g[1 .. Len(t)]
    BY <1>1, UsedIsSum
  <1>4. /\ \A i \in 1 .. n : Places(s)[i] = Places(t)[i]
        /\ Places(t)[n + 1] = (1 + Size(c))
    BY <1>1 DEF Places
  <1> HIDE DEF n
  <1>5. IsSum(f, 1, Places(s), n) /\ IsSum(g, 1, Places(t), Len(t))
    BY <1>1, <1>2, <1>3 DEF n
  <1>6. g[1 .. Len(t)] = f[1 .. n] + Places(t)[Len(t)]
    <2>1. Len(t) \in Nat /\ n \in Nat
      BY <1>1
    <2>2. \A i \in 1 .. n : Places(s)[i] = Places(t)[i]
      BY <1>4
    <2>3. Len(t) = n + 1 => g[1 .. Len(t)] = f[1 .. n] + Places(t)[Len(t)]
      BY <1>5, <2>1, <2>2, SumOfLonger
    <2>4. QED
      BY <1>1, <2>3
  <1>7. Used(t) = Used(s) + (1 + Size(c))
    BY <1>1, <1>2, <1>3, <1>4, <1>6 DEF n
  <1>8. QED
    BY <1>7 DEF t

-----------------------------------------------------------------------------
(* The frames of a request. *)

LEMMA RulesAreSequences ==
  ASSUME NEW r \in Rules
  PROVE  r \in Seq(Chunk) /\ Len(r) \in Nat \ {0} /\ \A i \in 1 .. Len(r) : r[i] \in Chunk
  <1>1. r \in Seq(Chunk) /\ r # << >>
    BY UploadAssumption
  <1>2. QED
    BY <1>1

LEMMA RequestKinds ==
  ASSUME NEW request \in Requests
  PROVE  \/ request.op = "rule" /\ request.rule \in Rules
         \/ request.op \in {"save", "erase", "time"}
  BY DEF Requests

LEMMA FramesOfRule ==
  ASSUME NEW request \in Requests, request.op = "rule"
  PROVE  /\ Frames(request) \in Seq(Frame)
         /\ Len(Frames(request)) = Len(request.rule) + 2
         /\ Frames(request)[1] = [type |-> "start", size |-> Size(request.rule)]
         /\ \A i \in 1 .. Len(request.rule) :
              Frames(request)[i + 1] = [type |-> "data", chunk |-> request.rule[i]]
         /\ Frames(request)[Len(request.rule) + 2] = [type |-> "end"]
  <1> DEFINE r == request.rule
             first == << [type |-> "start", size |-> Size(r)] >>
             data == [i \in DOMAIN r |-> [type |-> "data", chunk |-> r[i]]]
             last == << [type |-> "end"] >>
  <1>1. r \in Rules
    BY RequestKinds
  <1>2. r \in Seq(Chunk) /\ Len(r) \in Nat /\ DOMAIN r = 1 .. Len(r)
    BY <1>1, RulesAreSequences
  <1>3. first \in Seq(Frame) /\ Len(first) = 1 /\ first[1] = [type |-> "start", size |-> Size(r)]
    <2>1. [type |-> "start", size |-> Size(r)] \in Frame
      BY <1>1 DEF Frame
    <2>2. QED
      BY <2>1
  <1>4. /\ data \in Seq(Frame) /\ Len(data) = Len(r)
        /\ \A i \in 1 .. Len(r) : data[i] = [type |-> "data", chunk |-> r[i]]
    <2>1. \A i \in 1 .. Len(r) : [type |-> "data", chunk |-> r[i]] \in Frame
      BY <1>1, RulesAreSequences DEF Frame
    <2>2. QED
      BY <1>2, <2>1
  <1>5. last \in Seq(Frame) /\ Len(last) = 1 /\ last[1] = [type |-> "end"]
    <2>1. [type |-> "end"] \in Frame
      BY DEF Frame
    <2>2. QED
      BY <2>1
  <1>6. Frames(request) = (first \o data) \o last
    BY DEF Frames
  <1> HIDE DEF first, data, last, r
  <1>7. /\ first \o data \in Seq(Frame) /\ Len(first \o data) = 1 + Len(r)
        /\ \A i \in 1 .. 1 + Len(r) : (first \o data)[i] = IF i <= 1 THEN first[i] ELSE data[i - 1]
    <2>1. first \in Seq(Frame) /\ data \in Seq(Frame)
      BY <1>3, <1>4
    <2>2. /\ first \o data \in Seq(Frame) /\ Len(first \o data) = Len(first) + Len(data)
          /\ \A i \in 1 .. Len(first) + Len(data) : (first \o data)[i] =
               IF i <= Len(first) THEN first[i] ELSE data[i - Len(first)]
      BY <2>1, ConcatProperties, Zenon
    <2>3. QED
      BY <1>3, <1>4, <2>2
  <1> DEFINE begun == first \o data
             whole == begun \o last
  <1> HIDE DEF begun, whole
  <1>8. /\ begun \in Seq(Frame) /\ Len(begun) = 1 + Len(r)
        /\ \A i \in 1 .. 1 + Len(r) : begun[i] = IF i <= 1 THEN first[i] ELSE data[i - 1]
    BY <1>7, Zenon DEF begun
  <1>9. /\ whole \in Seq(Frame) /\ Len(whole) = Len(r) + 2
        /\ \A i \in 1 .. Len(r) + 2 : whole[i] =
             IF i <= 1 + Len(r) THEN begun[i] ELSE last[i - (1 + Len(r))]
    <2>1. /\ whole \in Seq(Frame) /\ Len(whole) = Len(begun) + Len(last)
          /\ \A i \in 1 .. Len(begun) + Len(last) : whole[i] =
               IF i <= Len(begun) THEN begun[i] ELSE last[i - Len(begun)]
      BY <1>5, <1>8, ConcatProperties, Zenon DEF whole
    <2>2. QED
      BY <1>2, <1>5, <1>8, <2>1
  <1>10. Frames(request) = whole
    BY <1>6, Zenon DEF begun, whole
  <1>11. /\ begun[1] = first[1]
         /\ \A i \in 1 .. Len(r) : begun[i + 1] = data[i]
    BY <1>2, <1>8
  <1>12. whole[1] = first[1] /\ whole[Len(r) + 2] = last[1]
    BY <1>2, <1>9, <1>11
  <1>13. \A i \in 1 .. Len(r) : whole[i + 1] = data[i]
    BY <1>2, <1>9, <1>11
  <1>14. QED
    BY <1>3, <1>4, <1>5, <1>9, <1>10, <1>12, <1>13, Zenon DEF r

LEMMA FramesOfOther ==
  ASSUME NEW request \in Requests, request.op # "rule"
  PROVE  /\ Frames(request) \in Seq(Frame)
         /\ Len(Frames(request)) = 1
         /\ Frames(request)[1] = [type |-> request.op]
  <1>1. [type |-> request.op] \in Frame
    BY RequestKinds DEF Frame
  <1>2. Frames(request) = << [type |-> request.op] >>
    BY DEF Frames
  <1>3. QED
    BY <1>1, <1>2

LEMMA FramesAreFrames ==
  ASSUME NEW request \in Requests
  PROVE  Frames(request) \in Seq(Frame) /\ Len(Frames(request)) \in Nat \ {0}
  <1>1. CASE request.op = "rule"
    <2>1. Len(request.rule) \in Nat
      BY <1>1, RequestKinds, RulesAreSequences
    <2>2. Frames(request) \in Seq(Frame) /\ Len(Frames(request)) = Len(request.rule) + 2
      BY <1>1, FramesOfRule, Zenon
    <2>3. QED
      BY <2>1, <2>2
  <1>2. CASE request.op # "rule"
    <2>1. Frames(request) \in Seq(Frame) /\ Len(Frames(request)) = 1
      BY <1>2, FramesOfOther, Zenon
    <2>2. QED
      BY <2>1
  <1>3. QED
    BY <1>1, <1>2

\* What a frame tells of the request it belongs to.
LEMMA FrameTells ==
  ASSUME NEW request \in Requests, NEW k \in 0 .. Len(Frames(request)) - 1,
         NEW frame, frame = Frames(request)[k + 1]
  PROVE  /\ frame.type = "start" =>
              request.op = "rule" /\ k = 0 /\ frame.size = Size(request.rule)
         /\ frame.type = "data" =>
              request.op = "rule" /\ k \in 1 .. Len(request.rule) /\ frame.chunk = request.rule[k]
         /\ frame.type = "end" => request.op = "rule" /\ k = Len(request.rule) + 1
         /\ frame.type \in {"save", "erase", "time"} => request.op = frame.type /\ k = 0
  <1>1. CASE request.op = "rule"
    <2> DEFINE r == request.rule
    <2>1. Len(r) \in Nat
      BY <1>1, RequestKinds, RulesAreSequences
    <2>2. k \in 0 .. Len(r) + 1
      <3>1. Len(Frames(request)) = Len(r) + 2
        BY <1>1, FramesOfRule, Zenon
      <3>2. QED
        BY <2>1, <3>1
    <2>3. CASE k = 0
      <3>1. frame = [type |-> "start", size |-> Size(r)]
        BY <1>1, <2>3, FramesOfRule
      <3>2. QED
        BY <1>1, <2>3, <3>1
    <2>4. CASE k \in 1 .. Len(r)
      <3>1. frame = [type |-> "data", chunk |-> r[k]]
        BY <1>1, <2>4, FramesOfRule
      <3>2. QED
        BY <1>1, <2>4, <3>1
    <2>5. CASE k = Len(request.rule) + 1
      <3>1. Frames(request)[Len(r) + 2] = [type |-> "end"]
        BY <1>1, FramesOfRule, Zenon
      <3>2. frame = [type |-> "end"]
        BY <2>1, <2>5, <3>1
      <3>3. QED
        BY <1>1, <2>5, <3>2
    <2>6. QED
      BY <2>1, <2>2, <2>3, <2>4, <2>5
  <1>2. CASE request.op # "rule"
    <2>1. k = 0 /\ frame = [type |-> request.op]
      BY <1>2, FramesOfOther
    <2>2. QED
      BY <1>2, <2>1, RequestKinds
  <1>3. QED
    BY <1>1, <1>2

-----------------------------------------------------------------------------
(* What comes of a rule. *)

LEMMA SizeOfRule ==
  ASSUME NEW r \in Rules
  PROVE  Size(r) \in Nat \ {0} /\ 2 * Size(r) <= BufferSize /\ BufferSize \in Nat
  <1>1. r \in Seq(Chunk) /\ Len(r) \in Nat \ {0}
    BY RulesAreSequences
  <1>2. Size(r) \in Nat /\ Size(r) >= Len(r)
    BY <1>1, SizeIsNat
  <1>3. QED
    BY <1>1, <1>2, UploadAssumption

LEMMA PartIsSequence ==
  ASSUME NEW r \in Rules, NEW k \in 0 .. Len(r)
  PROVE  /\ SubSeq(r, 1, k) \in Seq(Chunk)
         /\ Amount(r, k) \in Nat
  <1>1. r \in Seq(Chunk) /\ Len(r) \in Nat /\ \A i \in 1 .. Len(r) : r[i] \in Chunk
    BY RulesAreSequences
  <1>2. SubSeq(r, 1, k) \in Seq(Chunk)
    BY <1>1
  <1>3. QED
    BY <1>2, SizeIsNat DEF Amount

LEMMA AmountOfNone ==
  ASSUME NEW r \in Rules
  PROVE  SubSeq(r, 1, 0) = << >> /\ Amount(r, 0) = 0
  <1>1. r \in Seq(Chunk)
    BY RulesAreSequences
  <1>2. SubSeq(r, 1, 0) = << >>
    BY <1>1
  <1>3. QED
    BY <1>2, SizeOfNothing DEF Amount

LEMMA AmountOfAll ==
  ASSUME NEW r \in Rules
  PROVE  SubSeq(r, 1, Len(r)) = r /\ Amount(r, Len(r)) = Size(r)
  <1>1. r \in Seq(Chunk)
    BY RulesAreSequences
  <1>2. SubSeq(r, 1, Len(r)) = r
    BY <1>1
  <1>3. QED
    BY <1>2 DEF Amount

LEMMA AmountOfMore ==
  ASSUME NEW r \in Rules, NEW k \in 1 .. Len(r)
  PROVE  /\ SubSeq(r, 1, k) = Append(SubSeq(r, 1, k - 1), r[k])
         /\ r[k] \in Chunk /\ r[k].len \in Nat \ {0}
         /\ Amount(r, k) = Amount(r, k - 1) + r[k].len
  <1>1. r \in Seq(Chunk) /\ Len(r) \in Nat /\ r[k] \in Chunk
    BY RulesAreSequences
  <1>2. SubSeq(r, 1, k) = Append(SubSeq(r, 1, k - 1), r[k])
    BY <1>1
  <1>3. k - 1 \in 0 .. Len(r)
    BY <1>1
  <1>4. SubSeq(r, 1, k - 1) \in Seq(Chunk)
    BY <1>3, PartIsSequence
  <1>5. Amount(r, k) = Amount(r, k - 1) + r[k].len
    BY <1>1, <1>2, <1>4, SizeOfMore DEF Amount
  <1>6. QED
    BY <1>1, <1>2, <1>5, UploadAssumption

LEMMA AmountBelow ==
  ASSUME NEW r \in Rules, NEW k \in 0 .. Len(r)
  PROVE  Amount(r, k) <= Size(r)
  <1> DEFINE n == Len(r)
             G == {d \in Nat : d <= n => Amount(r, n - d) <= Size(r)}
  <1>1. n \in Nat /\ Size(r) \in Nat
    BY RulesAreSequences, SizeOfRule
  <1>2. 0 \in G
    <2>1. n - 0 = n /\ Amount(r, n) = Size(r)
      BY <1>1, AmountOfAll
    <2>2. QED
      BY <1>1, <2>1
  <1>3. ASSUME NEW d \in G
        PROVE  d + 1 \in G
    <2>1. d \in Nat
      OBVIOUS
    <2>2. ASSUME d + 1 <= n
          PROVE  Amount(r, n - (d + 1)) <= Size(r)
      <3> DEFINE j == n - d
      <3>1. j \in 1 .. n /\ j - 1 = n - (d + 1) /\ j - 1 \in 0 .. n /\ j \in 0 .. n
        BY <1>1, <2>1, <2>2
      <3>2. Amount(r, j) <= Size(r)
        BY <1>1, <2>1, <2>2
      <3> HIDE DEF j
      <3>3. Amount(r, j) = Amount(r, j - 1) + r[j].len /\ r[j].len \in Nat
        BY <3>1, AmountOfMore
      <3>4. Amount(r, j) \in Nat /\ Amount(r, j - 1) \in Nat
        BY <3>1, PartIsSequence
      <3>5. Amount(r, j - 1) <= Size(r)
        BY <1>1, <3>2, <3>3, <3>4
      <3>6. QED
        BY <3>1, <3>5
    <2>3. QED
      BY <2>1, <2>2
  <1>4. G = Nat
    <2>1. G \in SUBSET Nat
      BY DEF G
    <2> HIDE DEF G
    <2>2. QED
      BY <1>2, <1>3, <2>1, NatSetInduction
  <1>5. n - k \in G /\ n - k <= n /\ n - (n - k) = k
    <2> HIDE DEF G
    <2>1. QED
      BY <1>1, <1>4
  <1>6. QED
    BY <1>5

LEMMA CameNothing ==
  ASSUME NEW r \in Rules
  PROVE  Came(<< >>, r, 0) /\ Size(<< >>) = Amount(r, 0)
  BY AmountOfNone, SizeOfNothing DEF Came

LEMMA CameLost ==
  ASSUME NEW b \in Seq(Chunk), NEW r \in Rules, NEW k \in 1 .. Len(r), Came(b, r, k - 1)
  PROVE  Came(b, r, k)
  <1>1. Amount(r, k) = Amount(r, k - 1) + r[k].len /\ r[k].len \in Nat \ {0}
    BY AmountOfMore
  <1>2. k - 1 \in 0 .. Len(r)
    BY RulesAreSequences
  <1>3. Amount(r, k - 1) \in Nat /\ Size(b) \in Nat
    BY <1>2, PartIsSequence, SizeIsNat
  <1>4. Size(b) < Amount(r, k)
    BY <1>1, <1>3 DEF Came
  <1>5. QED
    BY <1>1, <1>3, <1>4 DEF Came

LEMMA CameTakes ==
  ASSUME NEW b \in Seq(Chunk), NEW r \in Rules, NEW k \in 1 .. Len(r), Came(b, r, k - 1)
  PROVE  Came(Append(b, r[k]), r, k)
  <1>1. /\ SubSeq(r, 1, k) = Append(SubSeq(r, 1, k - 1), r[k])
        /\ Amount(r, k) = Amount(r, k - 1) + r[k].len
        /\ r[k] \in Chunk /\ r[k].len \in Nat
    BY AmountOfMore
  <1>2. k - 1 \in 0 .. Len(r)
    BY RulesAreSequences
  <1>3. Amount(r, k - 1) \in Nat /\ Size(b) \in Nat
    BY <1>2, PartIsSequence, SizeIsNat
  <1>4. Size(Append(b, r[k])) = Size(b) + r[k].len
    BY <1>1, SizeOfMore
  <1>5. Size(b) <= Amount(r, k - 1) /\ (Size(b) = Amount(r, k - 1) => b = SubSeq(r, 1, k - 1))
    BY DEF Came
  <1>6. Size(Append(b, r[k])) <= Amount(r, k)
    BY <1>1, <1>3, <1>4, <1>5
  <1>7. Size(Append(b, r[k])) = Amount(r, k) => Size(b) = Amount(r, k - 1)
    BY <1>1, <1>3, <1>4
  <1>8. QED
    BY <1>1, <1>5, <1>6, <1>7 DEF Came

\* What came of a rule and has its size is the rule.
LEMMA CameWhole ==
  ASSUME NEW r \in Rules, NEW b, Came(b, r, Len(r)), Size(b) = Size(r)
  PROVE  b = r
  BY AmountOfAll DEF Came

-----------------------------------------------------------------------------
(* The initial states. *)

LEMMA InitTransferInv == Init => TransferInv
  <1> SUFFICES ASSUME Init
               PROVE  TransferInv
    OBVIOUS
  <1>1. Kinds
    <2>1. << >> \in Seq(Frame) /\ << >> \in Seq(Chunk) /\ << >> \in RuleLists
      BY EmptySeq, Zenon DEF RuleLists
    <2>2. QED
      BY <2>1, Zenon, 0 \in Nat, TRUE \in BOOLEAN, FALSE \in BOOLEAN DEF Init, Kinds
  <1>2. Settled
    BY DEF Init, Settled, AllAcked, Stored
  <1>3. SavedIsPrefix
    BY DEF Init, SavedIsPrefix, IsPrefix
  <1>4. RunsStoredRules
    BY DEF Init, RunsStoredRules, IsPrefix
  <1>5. QED
    <2>1. Between
      BY DEF Init, Between
    <2>2. BufferHolds /\ StoredWasSent
      <3>1. Size(buffer) = 0 /\ BufferSize \in Nat
        BY SizeOfNothing, UploadAssumption DEF Init
      <3>2. ToSet(rules) = {} /\ ToSet(saved) = {}
        BY DEF Init, ToSet
      <3>3. QED
        BY <3>1, <3>2 DEF BufferHolds, StoredWasSent
    <2>3. QED
      BY <1>1, <1>2, <1>3, <1>4, <2>1, <2>2 DEF TransferInv, LinkInv

-----------------------------------------------------------------------------
(* The first of the frames that are left goes, lost or received. *)

Goes(request, k) ==
  IF k + 1 = Len(Frames(request)) THEN wire' = << >> ELSE Left(request, k + 1)'

LEMMA FrameGoes ==
  ASSUME Kinds, LinkInv, wire # << >>, wire' = Tail(wire)
  PROVE  /\ wire' \in Seq(Frame)
         /\ Head(wire) \in Frame
         /\ \E request \in Requests : \E k \in 0 .. Len(Frames(request)) - 1 :
              /\ Underway(request, k) /\ Held(request, k)
              /\ Head(wire) = Frames(request)[k + 1]
              /\ Goes(request, k)
  <1>1. wire \in Seq(Frame) /\ Len(wire) \in Nat \ {0}
    BY DEF Kinds
  <1>2. /\ wire' \in Seq(Frame) /\ Head(wire) \in Frame
        /\ Len(wire') = Len(wire) - 1
        /\ \A i \in 1 .. Len(wire') : wire'[i] = wire[i + 1]
        /\ Head(wire) = wire[1]
    BY <1>1
  <1>3. PICK request \in Requests :
          \E k \in 0 .. Len(Frames(request)) - 1 : Underway(request, k) /\ Held(request, k)
    BY DEF LinkInv, Settled
  <1>4. PICK k \in 0 .. Len(Frames(request)) - 1 : Underway(request, k) /\ Held(request, k)
    BY <1>3
  <1> DEFINE F == Frames(request)
  <1>5. Len(F) \in Nat \ {0}
    BY FramesAreFrames
  <1>6. /\ Len(wire) = Len(F) - k
        /\ \A i \in 1 .. Len(wire) : wire[i] = F[k + i]
    BY <1>4 DEF Underway, Left
  <1> HIDE DEF F
  <1>7. k \in 0 .. Len(F) - 1
    BY DEF F
  <1>8. Head(wire) = F[k + 1]
    BY <1>1, <1>2, <1>6
  <1>9. CASE k + 1 = Len(F)
    <2>1. Len(wire') = Len(F) - (k + 1)
      BY <1>2, <1>5, <1>6, <1>7
    <2>2. Len(F) - (k + 1) = 0
      BY <1>5, <1>7, <1>9
    <2>3. wire' = << >>
      <3>1. wire' # << >> => Len(wire') \in Nat \ {0}
        BY <1>2, EmptySeq, Zenon
      <3>2. QED
        BY <2>1, <2>2, <3>1
    <2>4. QED
      BY <1>2, <1>4, <1>8, <1>9, <2>3 DEF Goes, F
  <1>10. CASE k + 1 # Len(F)
    <2>1. Len(wire') = Len(F) - (k + 1)
      BY <1>2, <1>5, <1>6, <1>7
    <2>2. \A i \in 1 .. Len(wire') : wire'[i] = F[(k + 1) + i]
      <3>1. TAKE i \in 1 .. Len(wire')
      <3>2. wire'[i] = wire[i + 1] /\ i + 1 \in 1 .. Len(wire)
        BY <1>1, <1>2, <3>1
      <3>3. wire[i + 1] = F[k + (i + 1)]
        BY <1>6, <3>2
      <3>4. k + (i + 1) = (k + 1) + i
        BY <1>7, <3>1, <1>2, <1>1
      <3>5. QED
        BY <3>2, <3>3, <3>4
    <2>3. Left(request, k + 1)'
      BY <2>1, <2>2 DEF Left, F
    <2>4. QED
      BY <1>2, <1>4, <1>8, <1>10, <2>3 DEF Goes, F
  <1>11. QED
    BY <1>9, <1>10

-----------------------------------------------------------------------------
(* What is in the buffer when a frame is lost or the cable is pulled. *)

OneFault ==
  \/ lost' = lost + 1 /\ replugs' = replugs
  \/ lost' = lost /\ replugs' = replugs + 1

LEMMA BetweenStays ==
  ASSUME Kinds, Between, UNCHANGED transfer, OneFault \/ UNCHANGED <<lost, replugs>>
  PROVE  Between'
  <1> SUFFICES ASSUME receiving
               PROVE  Between'
    BY DEF Between, transfer
  <1>1. /\ Faults >= 1
        /\ Faults <= 2 => 2 * Size(buffer) <= BufferSize
        /\ (lost = 1 /\ replugs = 0) => Size(buffer) = ruleSize
    BY DEF Between
  <1>2. lost \in Nat /\ replugs \in Nat
    BY DEF Kinds
  <1>3. CASE UNCHANGED <<lost, replugs>>
    BY <1>3 DEF Between, Faults, transfer
  <1>4. CASE OneFault
    <2>1. Faults' >= 2 /\ (Faults' <= 2 => Faults <= 2)
      BY <1>1, <1>2, <1>4 DEF OneFault, Faults
    <2>2. ~(lost' = 1 /\ replugs' = 0)
      BY <1>2, <2>1 DEF Faults
    <2>3. Size(buffer)' = Size(buffer)
      BY DEF transfer
    <2>4. Faults' >= 1
      BY <1>2, <2>1 DEF OneFault, Faults
    <2>5. QED
      BY <1>1, <2>1, <2>2, <2>3, <2>4 DEF Between
  <1>5. QED
    BY <1>3, <1>4

\* The rest of a rule is cut off, or its END is lost.
LEMMA WithinCut ==
  ASSUME Kinds, NEW r \in Rules, NEW k \in 0 .. Len(r), Within(r, k), UNCHANGED transfer,
         OneFault, k = Len(r) \/ replugs' # 0
  PROVE  Between'
  <1> SUFFICES ASSUME receiving
               PROVE  Between'
    BY DEF Between, transfer
  <1>1. lost \in Nat /\ replugs \in Nat /\ Size(buffer) \in Nat
    BY SizeIsNat DEF Kinds
  <1>2. /\ Amount(r, k) \in Nat /\ Amount(r, k) <= Size(r)
        /\ Size(r) \in Nat /\ 2 * Size(r) <= BufferSize /\ BufferSize \in Nat
    BY PartIsSequence, AmountBelow, SizeOfRule
  <1>3. Size(buffer)' = Size(buffer) /\ ruleSize' = ruleSize
    BY DEF transfer
  <1>4. CASE Begun(r, k)
    <2>1. 2 * Size(buffer) <= BufferSize
      BY <1>1, <1>2, <1>4 DEF Begun, Came
    <2>2. Faults' >= 1
      BY <1>1 DEF OneFault, Faults
    <2>3. (lost' = 1 /\ replugs' = 0) => Size(buffer) = ruleSize
      <3>1. SUFFICES ASSUME lost' = 1, replugs' = 0
                     PROVE  Size(buffer) = ruleSize
        OBVIOUS
      <3>2. k = Len(r) /\ lost = 0
        BY <1>1, <3>1 DEF OneFault
      <3>3. QED
        BY <1>4, <3>2, AmountOfAll DEF Begun
    <2>4. QED
      BY <1>3, <2>1, <2>2, <2>3 DEF Between
  <1>5. CASE RanOn(r, k)
    <2>1. Faults' >= 3 /\ ~(lost' = 1 /\ replugs' = 0)
      BY <1>1, <1>5 DEF RanOn, OneFault, Faults
    <2>2. Faults' >= 1 /\ ~(Faults' <= 2)
      BY <1>1, <2>1 DEF OneFault, Faults
    <2>3. QED
      BY <2>1, <2>2 DEF Between
  <1>6. QED
    BY <1>4, <1>5 DEF Within

\* The START of a rule is lost.
LEMMA StartLost ==
  ASSUME Kinds, NEW r \in Rules, Between, UNCHANGED transfer,
         lost' = lost + 1, replugs' = replugs
  PROVE  Within(r, 0)'
  <1> SUFFICES ASSUME receiving
               PROVE  RanOn(r, 0)'
    BY DEF Within, transfer
  <1>1. lost \in Nat /\ replugs \in Nat /\ BufferSize \in Nat /\ Size(buffer) \in Nat
        /\ ruleSize \in Nat
    BY SizeIsNat, UploadAssumption DEF Kinds
  <1>2. /\ Faults >= 1
        /\ Faults <= 2 => 2 * Size(buffer) <= BufferSize
        /\ (lost = 1 /\ replugs = 0) => Size(buffer) = ruleSize
    BY DEF Between
  <1>3. lost' >= 1 /\ Faults' >= 2 /\ (Faults' <= 3 => Faults <= 2)
    BY <1>1, <1>2 DEF Faults
  <1>4. (lost' = 2 /\ replugs' = 0) => (lost = 1 /\ replugs = 0)
    BY <1>1
  <1>5. Size(buffer)' = Size(buffer) /\ ruleSize' = ruleSize
    BY DEF transfer
  <1>6. Amount(r, 0) = 0
    BY AmountOfNone
  <1>7. BufferSize + 2 * Amount(r, 0) = BufferSize /\ ruleSize + Amount(r, 0) = ruleSize
    BY <1>1, <1>6
  <1>8. Faults' <= 3 => 2 * Size(buffer)' <= BufferSize + 2 * Amount(r, 0)
    BY <1>2, <1>3, <1>5, <1>7
  <1>9. (lost' = 2 /\ replugs' = 0) => Size(buffer)' = ruleSize' + Amount(r, 0)
    BY <1>2, <1>4, <1>5, <1>7
  <1>10. QED
    BY <1>3, <1>8, <1>9 DEF RanOn

\* A DATA frame of a rule is lost.
LEMMA DataLost ==
  ASSUME Kinds, NEW r \in Rules, NEW k \in 1 .. Len(r), Within(r, k - 1), UNCHANGED transfer,
         lost' = lost + 1, replugs' = replugs
  PROVE  Within(r, k)'
  <1> SUFFICES ASSUME receiving
               PROVE  Begun(r, k)' \/ RanOn(r, k)'
    BY DEF Within, transfer
  <1>1. /\ lost \in Nat /\ replugs \in Nat /\ BufferSize \in Nat
        /\ buffer \in Seq(Chunk) /\ Size(buffer) \in Nat
    BY SizeIsNat, UploadAssumption DEF Kinds
  <1>2. Amount(r, k) = Amount(r, k - 1) + r[k].len /\ r[k].len \in Nat
    BY AmountOfMore
  <1>3. Amount(r, k - 1) \in Nat
    <2>1. k - 1 \in 0 .. Len(r)
      BY RulesAreSequences
    <2>2. QED
      BY <2>1, PartIsSequence
  <1>4. buffer' = buffer /\ ruleSize' = ruleSize
    BY DEF transfer
  <1>5. CASE Begun(r, k - 1)
    <2>1. Came(buffer, r, k)
      BY <1>1, <1>5, CameLost DEF Begun
    <2>2. lost' # 0 /\ ruleSize = Size(r)
      BY <1>1, <1>5 DEF Begun
    <2>3. QED
      BY <1>4, <2>1, <2>2 DEF Begun
  <1>6. CASE RanOn(r, k - 1)
    <2>1. lost >= 1 /\ Faults >= 2 /\
          (Faults <= 3 => 2 * Size(buffer) <= BufferSize + 2 * Amount(r, k - 1))
      BY <1>6 DEF RanOn
    <2>2. lost' >= 1 /\ Faults' >= 2 /\ (Faults' <= 3 => Faults <= 3)
          /\ ~(lost' = 2 /\ replugs' = 0)
      BY <1>1, <2>1 DEF Faults
    <2>3. \A n, b, i, j \in Nat : n <= b + 2 * i => n <= b + 2 * (i + j)
      OBVIOUS
    <2>4. Faults' <= 3 => 2 * Size(buffer) <= BufferSize + 2 * Amount(r, k)
      <3>1. 2 * Size(buffer) \in Nat /\ BufferSize \in Nat
        BY <1>1
      <3>2. QED
        BY <1>2, <1>3, <2>1, <2>2, <2>3, <3>1
    <2>5. QED
      BY <1>4, <2>2, <2>4 DEF RanOn
  <1>7. QED
    BY <1>5, <1>6 DEF Within

\* A DATA frame of a rule is received.
LEMMA DataTaken ==
  ASSUME Kinds, NEW r \in Rules, NEW k \in 1 .. Len(r), Within(r, k - 1),
         UNCHANGED <<receiving, ruleSize, lost, replugs>>,
         receiving => buffer' = Append(buffer, r[k])
  PROVE  Within(r, k)' /\ (receiving /\ Faults <= 3 => Size(buffer') <= BufferSize)
  <1> SUFFICES ASSUME receiving
               PROVE  /\ Begun(r, k)' \/ RanOn(r, k)'
                      /\ Faults <= 3 => Size(buffer') <= BufferSize
    BY DEF Within
  <1>1. /\ lost \in Nat /\ replugs \in Nat /\ BufferSize \in Nat /\ ruleSize \in Nat
        /\ buffer \in Seq(Chunk) /\ Size(buffer) \in Nat
    BY SizeIsNat, UploadAssumption DEF Kinds
  <1>2. Amount(r, k) = Amount(r, k - 1) + r[k].len /\ r[k].len \in Nat /\ r[k] \in Chunk
    BY AmountOfMore
  <1>3. Amount(r, k - 1) \in Nat
    <2>1. k - 1 \in 0 .. Len(r)
      BY RulesAreSequences
    <2>2. QED
      BY <2>1, PartIsSequence
  <1>4. Amount(r, k) <= Size(r) /\ Size(r) \in Nat /\ 2 * Size(r) <= BufferSize
    <2>1. k \in 0 .. Len(r)
      BY RulesAreSequences
    <2>2. QED
      BY <2>1, AmountBelow, SizeOfRule
  <1>5. buffer' = Append(buffer, r[k]) /\ Size(buffer') = Size(buffer) + r[k].len
    BY <1>1, <1>2, SizeOfMore
  <1>6. CASE Begun(r, k - 1)
    <2>1. Came(buffer', r, k)
      BY <1>1, <1>5, <1>6, CameTakes DEF Begun
    <2>2. ruleSize' = Size(r)
      BY <1>6 DEF Begun
    <2>3. lost' = 0 => Size(buffer') = Amount(r, k)
      BY <1>1, <1>2, <1>3, <1>5, <1>6 DEF Begun
    <2>4. Size(buffer') <= BufferSize
      <3>1. Size(buffer') <= Amount(r, k)
        BY <2>1 DEF Came
      <3>2. Size(buffer') \in Nat /\ Amount(r, k) \in Nat
        BY <1>1, <1>2, <1>3, <1>5
      <3>3. QED
        BY <1>1, <1>4, <3>1, <3>2
    <2>5. Begun(r, k)'
      BY <2>1, <2>2, <2>3 DEF Begun
    <2>6. QED
      BY <2>4, <2>5
  <1>7. CASE RanOn(r, k - 1)
    <2>1. /\ lost >= 1 /\ Faults >= 2
          /\ Faults <= 3 => 2 * Size(buffer) <= BufferSize + 2 * Amount(r, k - 1)
          /\ (lost = 2 /\ replugs = 0) => Size(buffer) = ruleSize + Amount(r, k - 1)
      BY <1>7 DEF RanOn
    <2>2. Faults <= 3 => 2 * Size(buffer') <= BufferSize + 2 * Amount(r, k)
      <3>1. \A n, b, i, j \in Nat : 2 * n <= b + 2 * i => 2 * (n + j) <= b + 2 * (i + j)
        OBVIOUS
      <3>2. Size(buffer) \in Nat /\ BufferSize \in Nat
        BY <1>1
      <3>3. QED
        BY <1>2, <1>3, <1>5, <2>1, <3>1, <3>2
    <2>3. (lost = 2 /\ replugs = 0) => Size(buffer') = ruleSize + Amount(r, k)
      BY <1>1, <1>2, <1>3, <1>5, <2>1
    <2>4. RanOn(r, k)'
      BY <2>1, <2>2, <2>3 DEF RanOn, Faults
    <2>5. Faults <= 3 => Size(buffer') <= BufferSize
      <3>1. Size(buffer') \in Nat /\ Amount(r, k) \in Nat
        BY <1>1, <1>2, <1>3, <1>5
      <3>2. QED
        BY <1>1, <1>4, <2>2, <3>1
    <2>6. QED
      BY <2>4, <2>5
  <1>8. QED
    BY <1>6, <1>7 DEF Within

-----------------------------------------------------------------------------
(* What each action does to the requests and the answers. *)

LEMMA CarriedOut ==
  ASSUME NEW request \in Requests
  PROVE  /\ request.op = "rule" =>
              CarryOut(Stored, request) = [rules |-> Append(rules, request.rule), saved |-> saved]
         /\ request.op = "save" => CarryOut(Stored, request) = [rules |-> rules, saved |-> rules]
         /\ request.op = "erase" => CarryOut(Stored, request) = [rules |-> << >>, saved |-> << >>]
         /\ request.op = "time" => CarryOut(Stored, request) = Stored
  BY RequestKinds DEF CarryOut, Stored

LEMMA NotLast ==
  ASSUME NEW request \in Requests, request.op = "rule", NEW k \in 0 .. Len(request.rule),
         Goes(request, k)
  PROVE  Left(request, k + 1)' /\ k + 1 \in 0 .. Len(Frames(request)) - 1
  <1>1. Len(request.rule) \in Nat
    BY RequestKinds, RulesAreSequences
  <1>2. Len(Frames(request)) = Len(request.rule) + 2
    BY FramesOfRule, Zenon
  <1>3. k + 1 # Len(Frames(request)) /\ k + 1 \in 0 .. Len(Frames(request)) - 1
    BY <1>1, <1>2
  <1>4. QED
    BY <1>3 DEF Goes

LEMMA LastOfRule ==
  ASSUME NEW request \in Requests, request.op = "rule", Goes(request, Len(request.rule) + 1)
  PROVE  wire' = << >>
  <1>1. Len(request.rule) \in Nat
    BY RequestKinds, RulesAreSequences
  <1>2. Len(Frames(request)) = Len(request.rule) + 2
    BY FramesOfRule, Zenon
  <1>3. (Len(request.rule) + 1) + 1 = Len(Frames(request))
    BY <1>1, <1>2
  <1>4. QED
    BY <1>3 DEF Goes

LEMMA LastOfOther ==
  ASSUME NEW request \in Requests, request.op # "rule", Goes(request, 0)
  PROVE  wire' = << >>
  <1>1. Len(Frames(request)) = 1
    BY FramesOfOther, Zenon
  <1>2. QED
    BY <1>1 DEF Goes

LEMMA HostSendLink ==
  ASSUME TransferInv, NEW request \in Requests, HostSend(request)
  PROVE  LinkInv'
  <1>1. wire = << >>
    BY DEF HostSend
  <1>2. Settled /\ Between
    <2>1. ASSUME NEW q \in Requests, NEW k \in 0 .. Len(Frames(q)) - 1, Underway(q, k)
          PROVE  FALSE
      <3>1. Len(Frames(q)) \in Nat
        BY FramesAreFrames
      <3>2. Len(wire) = Len(Frames(q)) - k
        BY <2>1 DEF Underway, Left
      <3>3. Len(wire) = 0
        BY <1>1
      <3>4. QED
        BY <2>1, <3>1, <3>2, <3>3
    <2>2. QED
      BY <2>1 DEF TransferInv, LinkInv
  <1>3. asked \in Nat /\ acks \in Nat
    BY DEF TransferInv, Kinds
  <1>4. asked' = asked + Owed(request) /\ Owed(request) \in Nat
    BY <1>3 DEF HostSend, Owed
  <1>5. /\ wire' = Frames(request) /\ wanted' = CarryOut(wanted, request)
        /\ acks' = acks /\ lost' = lost /\ amid' = amid /\ receiving' = receiving
        /\ rules' = rules /\ saved' = saved
    BY DEF HostSend, transfer, store
  <1>6. Left(request, 0)'
    <2>1. Frames(request) \in Seq(Frame) /\ Len(Frames(request)) \in Nat
      BY FramesAreFrames
    <2>2. QED
      BY <1>5, <2>1 DEF Left
  <1>7. (acks + Owed(request) <= asked)'
    BY <1>2, <1>3, <1>4, <1>5 DEF Settled
  <1>8. ASSUME AllAcked(Owed(request))'
        PROVE  (wanted = CarryOut(Stored, request))' /\ (receiving => amid)'
    <2>1. AllAcked(0)
      BY <1>3, <1>4, <1>5, <1>8 DEF AllAcked
    <2>2. wanted = Stored /\ (receiving => amid)
      BY <1>2, <2>1 DEF Settled
    <2>3. QED
      BY <1>5, <2>2 DEF Stored
  <1>9. Underway(request, 0)'
    BY <1>6, <1>7, <1>8 DEF Underway
  <1>10. 0 \in 0 .. Len(Frames(request)) - 1
    BY FramesAreFrames
  <1>11. Held(request, 0)'
    <2>1. UNCHANGED transfer /\ UNCHANGED <<lost, replugs>>
      BY DEF HostSend, faults
    <2>2. Between'
      BY <1>2, <2>1, BetweenStays DEF TransferInv
    <2>3. QED
      BY <2>2 DEF Held
  <1>12. QED
    BY <1>9, <1>10, <1>11 DEF LinkInv

LEMMA LoseFrameLink ==
  ASSUME TransferInv, LoseFrame
  PROVE  LinkInv'
  <1>1. wire # << >> /\ wire' = Tail(wire) /\ lost' = lost + 1
    BY DEF LoseFrame
  <1>2. /\ asked' = asked /\ acks' = acks /\ amid' = amid /\ wanted' = wanted
        /\ receiving' = receiving /\ buffer' = buffer /\ ruleSize' = ruleSize
        /\ rules' = rules /\ saved' = saved
    BY DEF LoseFrame, transfer, store, session
  <1>3. asked \in Nat /\ acks \in Nat /\ lost \in Nat /\ buffer \in Seq(Chunk)
    BY DEF TransferInv, Kinds
  <1>4. UNCHANGED transfer /\ lost' = lost + 1 /\ replugs' = replugs
    BY DEF LoseFrame, faults
  <1>5. Kinds
    BY DEF TransferInv
  <1>6. PICK request \in Requests : \E k \in 0 .. Len(Frames(request)) - 1 :
               /\ Underway(request, k) /\ Held(request, k)
               /\ Head(wire) = Frames(request)[k + 1] /\ Goes(request, k)
    BY <1>1, FrameGoes, Zenon DEF TransferInv
  <1>7. PICK k \in 0 .. Len(Frames(request)) - 1 :
               /\ Underway(request, k) /\ Held(request, k)
               /\ Head(wire) = Frames(request)[k + 1] /\ Goes(request, k)
    BY <1>6
  <1>8. acks + Owed(request) <= asked
    BY <1>7 DEF Underway
  <1>9. ASSUME AllAcked(Owed(request))'
        PROVE  /\ ~amid /\ wanted = CarryOut(Stored, request)
               /\ k = 0 => ~receiving
               /\ (k > 0 /\ receiving) => /\ ruleSize = Size(request.rule)
                                          /\ Came(buffer, request.rule, k - 1)
    <2>1. ~amid /\ AllAcked(Owed(request))
      BY <1>1, <1>2, <1>3, <1>9 DEF AllAcked, Owed
    <2>2. QED
      BY <1>7, <2>1 DEF Underway
  <1>10. CASE request.op = "rule"
    <2>1. Len(request.rule) \in Nat /\ k \in 0 .. Len(request.rule) + 1
      <3>1. Len(Frames(request)) = Len(request.rule) + 2
        BY <1>10, FramesOfRule, Zenon
      <3>2. QED
        BY <1>10, <3>1, RequestKinds, RulesAreSequences
    <2>2. request.rule \in Rules
      BY <1>10, RequestKinds
    <2>3. CASE k <= Len(request.rule)
      <3>1. Left(request, k + 1)' /\ k + 1 \in 0 .. Len(Frames(request)) - 1
        BY <1>7, <1>10, <2>1, <2>3, NotLast
      <3>2. ASSUME AllAcked(Owed(request))', receiving
            PROVE  ruleSize = Size(request.rule) /\ Came(buffer, request.rule, k)
        <4>1. k > 0 /\ ruleSize = Size(request.rule) /\ Came(buffer, request.rule, k - 1)
          BY <1>9, <2>1, <3>2
        <4>2. k \in 1 .. Len(request.rule)
          BY <2>1, <2>3, <4>1
        <4>3. Came(buffer, request.rule, k)
          BY <1>3, <2>2, <4>1, <4>2, CameLost
        <4>4. QED
          BY <4>1, <4>3
      <3>3. /\ k + 1 > 0 /\ k + 1 # 0 /\ (k + 1) - 1 = k
        BY <2>1
      <3>4. Underway(request, k + 1)'
        BY <1>2, <1>8, <1>9, <3>1, <3>2, <3>3 DEF Underway, Stored
      <3>5. Held(request, k + 1)'
        <4>1. CASE k = 0
          <5>1. Between
            BY <1>7, <4>1 DEF Held
          <5>2. Within(request.rule, 0)'
            BY <1>4, <1>5, <2>2, <5>1, StartLost
          <5>3. QED
            BY <4>1, <5>2 DEF Held
        <4>2. CASE k # 0
          <5>1. k \in 1 .. Len(request.rule) /\ k + 1 # 0 /\ (k + 1) - 1 = k
            BY <2>1, <2>3, <4>2
          <5>2. Within(request.rule, k - 1)
            BY <1>7, <4>2 DEF Held
          <5>3. Within(request.rule, k)'
            BY <1>4, <1>5, <2>2, <5>1, <5>2, DataLost
          <5>4. QED
            BY <5>1, <5>3 DEF Held
        <4>3. QED
          BY <4>1, <4>2
      <3>6. QED
        BY <3>1, <3>4, <3>5 DEF LinkInv
    <2>4. CASE k = Len(request.rule) + 1
      <3>1. wire' = << >>
        BY <1>7, <1>10, <2>4, LastOfRule
      <3>2. ~AllAcked(0)'
        BY <1>2, <1>3, <1>8, <1>10 DEF AllAcked, Owed
      <3>3. acks' <= asked'
        BY <1>2, <1>3, <1>8, <1>10 DEF Owed
      <3>4. Between'
        <4>1. Within(request.rule, Len(request.rule))
          BY <1>7, <2>1, <2>4 DEF Held
        <4>2. Len(request.rule) \in 0 .. Len(request.rule)
          BY <2>1
        <4>3. QED
          BY <1>4, <1>5, <2>2, <4>1, <4>2, WithinCut DEF OneFault
      <3>5. QED
        BY <3>1, <3>2, <3>3, <3>4 DEF LinkInv, Settled
    <2>5. QED
      BY <2>1, <2>3, <2>4
  <1>11. CASE request.op # "rule"
    <2>1. k = 0
      <3>1. Len(Frames(request)) = 1
        BY <1>11, FramesOfOther, Zenon
      <3>2. QED
        BY <3>1
    <2>2. wire' = << >>
      BY <1>7, <1>11, <2>1, LastOfOther
    <2>3. acks' <= asked'
      BY <1>2, <1>3, <1>8 DEF Owed
    <2>4. ASSUME AllAcked(0)'
          PROVE  (wanted = Stored)' /\ (receiving => amid)'
      <3>1. request.op = "time"
        BY <1>2, <1>3, <1>8, <2>4 DEF AllAcked, Owed
      <3>2. AllAcked(Owed(request))'
        BY <2>4, <3>1 DEF Owed
      <3>3. wanted = Stored /\ ~receiving
        BY <1>9, <2>1, <3>1, <3>2, CarriedOut
      <3>4. QED
        BY <1>2, <3>3 DEF Stored
    <2>5. Between'
      <3>1. Between
        BY <1>7, <2>1 DEF Held
      <3>2. QED
        BY <1>4, <1>5, <3>1, BetweenStays DEF OneFault
    <2>6. QED
      BY <2>2, <2>3, <2>4, <2>5 DEF LinkInv, Settled
  <1>12. QED
    BY <1>10, <1>11

\* The frame that is received belongs to a request that is underway.
LEMMA Arrives ==
  ASSUME TransferInv, NEW type, Receive(type)
  PROVE  /\ asked' = asked /\ amid' = amid /\ wanted' = wanted
         /\ Head(wire).type = type
         /\ \E request \in Requests : \E k \in 0 .. Len(Frames(request)) - 1 :
              /\ Underway(request, k) /\ Held(request, k)
               /\ Head(wire) = Frames(request)[k + 1] /\ Goes(request, k)
  <1>1. wire # << >> /\ wire' = Tail(wire)
    BY DEF Receive
  <1>2. QED
    BY <1>1, FrameGoes DEF TransferInv, Receive, session

LEMMA HandleStartLink ==
  ASSUME TransferInv, HandleStart
  PROVE  LinkInv'
  <1>1. /\ Receive("start") /\ ruleSize' = Head(wire).size /\ buffer' = << >>
        /\ acks' = acks /\ lost' = lost /\ rules' = rules /\ saved' = saved
    BY DEF HandleStart, NoReply, store
  <1>2. /\ asked' = asked /\ amid' = amid /\ wanted' = wanted /\ Head(wire).type = "start"
    BY <1>1, Arrives
  <1>3. PICK request \in Requests : \E k \in 0 .. Len(Frames(request)) - 1 :
               /\ Underway(request, k) /\ Held(request, k)
               /\ Head(wire) = Frames(request)[k + 1] /\ Goes(request, k)
    BY <1>1, Arrives
  <1>4. PICK k \in 0 .. Len(Frames(request)) - 1 :
               /\ Underway(request, k) /\ Held(request, k)
               /\ Head(wire) = Frames(request)[k + 1] /\ Goes(request, k)
    BY <1>3
  <1>5. request.op = "rule" /\ k = 0 /\ Head(wire).size = Size(request.rule)
    BY <1>2, <1>4, FrameTells
  <1>6. Left(request, 1)' /\ 1 \in 0 .. Len(Frames(request)) - 1
    <2>1. 0 \in 0 .. Len(request.rule)
      BY <1>5, RequestKinds, RulesAreSequences
    <2>2. Left(request, 0 + 1)' /\ 0 + 1 \in 0 .. Len(Frames(request)) - 1
      BY <1>4, <1>5, <2>1, NotLast
    <2>3. QED
      BY <2>2
  <1>7. Came(buffer', request.rule, 0) /\ Size(buffer') = Amount(request.rule, 0)
    BY <1>1, <1>5, CameNothing, RequestKinds
  <1>8. AllAcked(Owed(request))' => (wanted = CarryOut(Stored, request))'
    BY <1>1, <1>2, <1>4 DEF Underway, AllAcked, Stored
  <1>9. Underway(request, 1)'
    <2>1. 1 - 1 = 0
      OBVIOUS
    <2>2. QED
      BY <1>1, <1>2, <1>4, <1>5, <1>6, <1>7, <1>8, <2>1 DEF Underway
  <1>10. Held(request, 1)'
    <2>1. Begun(request.rule, 0)'
      BY <1>1, <1>5, <1>7 DEF Begun
    <2>2. QED
      BY <2>1 DEF Held, Within
  <1>11. QED
    BY <1>6, <1>9, <1>10 DEF LinkInv

LEMMA HandleDataLink ==
  ASSUME TransferInv, HandleData
  PROVE  LinkInv'
  <1>1. /\ Receive("data") /\ ruleSize' = ruleSize /\ receiving' = receiving
        /\ buffer' = IF receiving THEN Append(buffer, Head(wire).chunk) ELSE buffer
        /\ acks' = acks /\ lost' = lost /\ rules' = rules /\ saved' = saved
    BY DEF HandleData, NoReply, store
  <1>2. /\ asked' = asked /\ amid' = amid /\ wanted' = wanted /\ Head(wire).type = "data"
    BY <1>1, Arrives
  <1>3. PICK request \in Requests : \E k \in 0 .. Len(Frames(request)) - 1 :
               /\ Underway(request, k) /\ Held(request, k)
               /\ Head(wire) = Frames(request)[k + 1] /\ Goes(request, k)
    BY <1>1, Arrives
  <1>4. PICK k \in 0 .. Len(Frames(request)) - 1 :
               /\ Underway(request, k) /\ Held(request, k)
               /\ Head(wire) = Frames(request)[k + 1] /\ Goes(request, k)
    BY <1>3
  <1> DEFINE r == request.rule
  <1>5. request.op = "rule" /\ k \in 1 .. Len(r) /\ Head(wire).chunk = r[k]
    BY <1>2, <1>4, FrameTells
  <1>6. r \in Rules /\ Len(r) \in Nat /\ r[k] \in Chunk
    BY <1>5, RequestKinds, RulesAreSequences
  <1> HIDE DEF r
  <1>7. Left(request, k + 1)' /\ k + 1 \in 0 .. Len(Frames(request)) - 1
    BY <1>4, <1>5, <1>6, NotLast DEF r
  <1>8. ASSUME AllAcked(Owed(request))
        PROVE  /\ wanted = CarryOut(Stored, request)
               /\ receiving => ruleSize = Size(r) /\ Came(buffer, r, k - 1)
    BY <1>4, <1>5, <1>6, <1>8 DEF Underway, r
  <1>9. ASSUME AllAcked(Owed(request)), receiving
        PROVE  Came(buffer', r, k)
    <2>1. buffer \in Seq(Chunk) /\ k \in Nat \ {0}
      BY <1>5, <1>6 DEF TransferInv, Kinds
    <2>2. Came(Append(buffer, r[k]), r, k)
      BY <1>5, <1>6, <1>8, <1>9, <2>1, CameTakes
    <2>3. QED
      BY <1>1, <1>5, <1>9, <2>2
  <1>10. AllAcked(Owed(request))' => AllAcked(Owed(request))
    BY <1>1, <1>2 DEF AllAcked
  <1>11. k + 1 > 0 /\ k + 1 # 0 /\ (k + 1) - 1 = k
    BY <1>5, <1>6
  <1>12. acks' + Owed(request) <= asked'
    BY <1>1, <1>2, <1>4 DEF Underway
  <1>13. Underway(request, k + 1)'
    BY <1>1, <1>2, <1>7, <1>8, <1>9, <1>10, <1>11, <1>12 DEF Underway, Stored, r
  <1>14. Held(request, k + 1)'
    <2>1. Within(r, k - 1)
      BY <1>4, <1>5, <1>6 DEF Held, r
    <2>2. UNCHANGED <<receiving, ruleSize, lost, replugs>> /\ Kinds
      BY <1>1 DEF TransferInv, Receive, faults
    <2>3. receiving => buffer' = Append(buffer, r[k])
      BY <1>1, <1>5
    <2>4. Within(r, k)'
      BY <1>5, <1>6, <2>1, <2>2, <2>3, DataTaken
    <2>5. QED
      BY <1>11, <2>4 DEF Held, r
  <1>15. QED
    BY <1>7, <1>13, <1>14 DEF LinkInv

LEMMA HandleEndLink ==
  ASSUME TransferInv, HandleEnd
  PROVE  LinkInv'
  <1>1. Receive("end") /\ receiving' = FALSE /\ saved' = saved
    BY DEF HandleEnd
  <1>2. /\ asked' = asked /\ amid' = amid /\ wanted' = wanted /\ Head(wire).type = "end"
    BY <1>1, Arrives
  <1>3. PICK request \in Requests : \E k \in 0 .. Len(Frames(request)) - 1 :
               /\ Underway(request, k) /\ Held(request, k)
               /\ Head(wire) = Frames(request)[k + 1] /\ Goes(request, k)
    BY <1>1, Arrives
  <1>4. PICK k \in 0 .. Len(Frames(request)) - 1 :
               /\ Underway(request, k) /\ Held(request, k)
               /\ Head(wire) = Frames(request)[k + 1] /\ Goes(request, k)
    BY <1>3
  <1> DEFINE r == request.rule
  <1>5. request.op = "rule" /\ k = Len(r) + 1 /\ Owed(request) = 1
    BY <1>2, <1>4, FrameTells DEF Owed
  <1>6. r \in Rules /\ Len(r) \in Nat /\ buffer \in Seq(Chunk) /\ asked \in Nat /\ acks \in Nat
    BY <1>5, RequestKinds, RulesAreSequences DEF TransferInv, Kinds
  <1>7. wire' = << >>
    BY <1>4, <1>5, LastOfRule
  <1>8. acks + 1 <= asked
    BY <1>4, <1>5 DEF Underway
  <1>9. Between'
    BY <1>1 DEF Between
  <1>10. CASE acks' = acks
    BY <1>9, <1>2, <1>6, <1>7, <1>8, <1>10 DEF LinkInv, Settled, AllAcked
  <1>11. CASE acks' # acks
    <2>1. /\ Complete /\ rules' = Append(rules, buffer)
          /\ acks' = acks + 1 /\ lost' = lost
      BY <1>11 DEF HandleEnd, Ack, Nak, NoReply
    <2>2. ASSUME AllAcked(0)'
          PROVE  (wanted = Stored)'
      <3>1. AllAcked(Owed(request))
        BY <1>2, <1>5, <1>6, <2>1, <2>2 DEF AllAcked
      <3>2. /\ wanted = CarryOut(Stored, request)
            /\ receiving => ruleSize = Size(r) /\ Came(buffer, r, k - 1)
        BY <1>4, <1>5, <1>6, <3>1 DEF Underway
      <3>3. k - 1 = Len(r)
        BY <1>5, <1>6
      <3>4. Came(buffer, r, Len(r)) /\ Size(buffer) = Size(r)
        BY <2>1, <3>2, <3>3 DEF Complete
      <3>5. buffer = r
        BY <1>6, <3>4, CameWhole
      <3>6. wanted = [rules |-> Append(rules, r), saved |-> saved]
        BY <1>5, <3>2, CarriedOut
      <3>7. QED
        BY <1>1, <1>2, <2>1, <3>5, <3>6 DEF Stored
    <2>3. acks' <= asked'
      BY <1>2, <1>8, <2>1
    <2>4. QED
      BY <1>1, <1>7, <1>9, <2>2, <2>3 DEF LinkInv, Settled
  <1>12. QED
    BY <1>10, <1>11

\* A frame that is a request: nothing is left of it, and if its answer is the ACK
\* still owed, the device was not receiving and the request is carried out.
LEMMA OneFrame ==
  ASSUME TransferInv, NEW op \in {"save", "erase", "time"}, Receive(op)
  PROVE  /\ wire' = << >>
         /\ Between /\ replugs' = replugs
         /\ \E request \in Requests :
              /\ request.op = op
              /\ acks + Owed(request) <= asked
              /\ AllAcked(Owed(request)) =>
                   wanted = CarryOut(Stored, request) /\ (receiving => amid)
  <1>1. Head(wire).type = op
    BY Arrives
  <1>2. PICK request \in Requests : \E k \in 0 .. Len(Frames(request)) - 1 :
               /\ Underway(request, k) /\ Held(request, k)
               /\ Head(wire) = Frames(request)[k + 1] /\ Goes(request, k)
    BY Arrives
  <1>3. PICK k \in 0 .. Len(Frames(request)) - 1 :
               /\ Underway(request, k) /\ Held(request, k)
               /\ Head(wire) = Frames(request)[k + 1] /\ Goes(request, k)
    BY <1>2
  <1>4. request.op = op /\ k = 0
    BY <1>1, <1>3, FrameTells
  <1>5. wire' = << >>
    BY <1>3, <1>4, LastOfOther
  <1>6. /\ acks + Owed(request) <= asked
        /\ AllAcked(Owed(request)) =>
             wanted = CarryOut(Stored, request) /\ (receiving => amid)
    BY <1>3, <1>4 DEF Underway
  <1>7. Between /\ replugs' = replugs
    BY <1>3, <1>4 DEF Held, Receive, faults
  <1>8. QED
    BY <1>4, <1>5, <1>6, <1>7

LEMMA HandleSaveLink ==
  ASSUME TransferInv, HandleSave
  PROVE  LinkInv'
  <1>1. Receive("save") /\ receiving' = receiving /\ rules' = rules
    BY DEF HandleSave, transfer
  <1>2. asked' = asked /\ amid' = amid /\ wanted' = wanted
    BY <1>1, Arrives
  <1>3. asked \in Nat /\ acks \in Nat
    BY DEF TransferInv, Kinds
  <1>4. PICK request \in Requests :
          /\ request.op = "save"
          /\ acks + Owed(request) <= asked
          /\ AllAcked(Owed(request)) => wanted = CarryOut(Stored, request) /\ (receiving => amid)
    BY <1>1, OneFrame
  <1>5. wire' = << >> /\ Owed(request) = 1
    BY <1>1, <1>4, OneFrame DEF Owed
  <1>6. Between'
    <2>1. UNCHANGED transfer /\ replugs' = replugs /\ Between /\ Kinds
      BY <1>1, OneFrame DEF HandleSave, TransferInv
    <2>2. lost' = lost \/ lost' = lost + 1
      BY DEF HandleSave, Ack, Nak, NoReply
    <2>3. QED
      BY <2>1, <2>2, BetweenStays DEF OneFault
  <1>7. CASE acks' = acks
    BY <1>6, <1>2, <1>3, <1>4, <1>5, <1>7 DEF LinkInv, Settled, AllAcked
  <1>8. CASE acks' # acks
    <2>1. ~receiving /\ saved' = rules /\ acks' = acks + 1 /\ lost' = lost
      BY <1>8 DEF HandleSave, Ack, Nak, NoReply
    <2>2. ASSUME AllAcked(0)'
          PROVE  (wanted = Stored)'
      <3>1. AllAcked(Owed(request))
        BY <1>2, <1>3, <1>5, <2>1, <2>2 DEF AllAcked
      <3>2. wanted = [rules |-> rules, saved |-> rules]
        BY <1>4, <3>1, CarriedOut
      <3>3. QED
        BY <1>1, <1>2, <2>1, <3>2 DEF Stored
    <2>3. acks' <= asked'
      BY <1>2, <1>4, <1>5, <2>1
    <2>4. QED
      BY <1>6, <1>1, <1>5, <2>1, <2>2, <2>3 DEF LinkInv, Settled
  <1>9. QED
    BY <1>7, <1>8

LEMMA NothingSavedOfNothing ==
  ASSUME TransferInv, rules = << >>
  PROVE  saved = << >>
  <1>1. saved \in RuleLists /\ Len(saved) <= Len(rules)
    BY DEF TransferInv, Kinds, SavedIsPrefix, IsPrefix
  <1>2. Len(rules) = 0 /\ Len(saved) \in Nat
    BY <1>1 DEF RuleLists
  <1>3. QED
    BY <1>1, <1>2, EmptySeq DEF RuleLists

LEMMA HandleEraseLink ==
  ASSUME TransferInv, HandleErase
  PROVE  LinkInv'
  <1>1. Receive("erase") /\ receiving' = receiving /\ rules' = << >> /\ saved' = << >>
    <2>1. rules = << >> => saved = << >>
      BY NothingSavedOfNothing
    <2>2. QED
      BY <2>1 DEF HandleErase, transfer
  <1>2. asked' = asked /\ amid' = amid /\ wanted' = wanted
    BY <1>1, Arrives
  <1>3. asked \in Nat /\ acks \in Nat
    BY DEF TransferInv, Kinds
  <1>4. PICK request \in Requests :
          /\ request.op = "erase"
          /\ acks + Owed(request) <= asked
          /\ AllAcked(Owed(request)) => wanted = CarryOut(Stored, request) /\ (receiving => amid)
    BY <1>1, OneFrame
  <1>5. wire' = << >> /\ Owed(request) = 1
    BY <1>1, <1>4, OneFrame DEF Owed
  <1>6. Between'
    <2>1. UNCHANGED transfer /\ replugs' = replugs /\ Between /\ Kinds
      BY <1>1, OneFrame DEF HandleErase, TransferInv
    <2>2. lost' = lost \/ lost' = lost + 1
      BY DEF HandleErase, Ack, Nak, NoReply
    <2>3. QED
      BY <2>1, <2>2, BetweenStays DEF OneFault
  <1>7. CASE acks' = acks
    BY <1>6, <1>2, <1>3, <1>4, <1>5, <1>7 DEF LinkInv, Settled, AllAcked
  <1>8. CASE acks' # acks
    <2>1. acks' = acks + 1 /\ lost' = lost
      BY <1>8 DEF HandleErase, Ack
    <2>2. ASSUME AllAcked(0)'
          PROVE  (wanted = Stored)' /\ (receiving => amid)'
      <3>1. AllAcked(Owed(request))
        BY <1>2, <1>3, <1>5, <2>1, <2>2 DEF AllAcked
      <3>2. wanted = [rules |-> << >>, saved |-> << >>] /\ (receiving => amid)
        BY <1>4, <3>1, CarriedOut
      <3>3. QED
        BY <1>1, <1>2, <3>2 DEF Stored
    <2>3. acks' <= asked'
      BY <1>2, <1>4, <1>5, <2>1
    <2>4. QED
      BY <1>6, <1>5, <2>2, <2>3 DEF LinkInv, Settled
  <1>9. QED
    BY <1>7, <1>8

LEMMA HandleTimeLink ==
  ASSUME TransferInv, HandleTime
  PROVE  LinkInv'
  <1>1. /\ Receive("time") /\ receiving' = receiving /\ rules' = rules /\ saved' = saved
        /\ acks' = acks /\ lost' = lost
    BY DEF HandleTime, NoReply, transfer, store
  <1>2. asked' = asked /\ amid' = amid /\ wanted' = wanted
    BY <1>1, Arrives
  <1>3. asked \in Nat /\ acks \in Nat
    BY DEF TransferInv, Kinds
  <1>4. PICK request \in Requests :
          /\ request.op = "time"
          /\ acks + Owed(request) <= asked
          /\ AllAcked(Owed(request)) => wanted = CarryOut(Stored, request) /\ (receiving => amid)
    BY <1>1, OneFrame
  <1>5. wire' = << >> /\ Owed(request) = 0
    BY <1>1, <1>4, OneFrame DEF Owed
  <1>6. AllAcked(0)' => (wanted = Stored)' /\ (receiving => amid)'
    BY <1>1, <1>2, <1>4, <1>5, CarriedOut DEF AllAcked, Stored
  <1>7. acks' <= asked'
    BY <1>1, <1>2, <1>3, <1>4, <1>5
  <1>8. Between'
    <2>1. UNCHANGED transfer /\ UNCHANGED <<lost, replugs>> /\ Between /\ Kinds
      BY <1>1, OneFrame DEF HandleTime, TransferInv
    <2>2. QED
      BY <2>1, BetweenStays
  <1>9. QED
    BY <1>5, <1>6, <1>7, <1>8 DEF LinkInv, Settled

LEMMA NewSessionLink ==
  ASSUME TransferInv, Replug \/ Restart
  PROVE  LinkInv'
  <1>1. wire' = << >> /\ asked' = 0 /\ acks' = 0
    BY DEF Replug, Restart, NewSession
  <1>2. CASE Replug
    <2>1. UNCHANGED transfer /\ lost' = lost /\ replugs' = replugs + 1 /\ replugs' # 0
      BY <1>2 DEF Replug, TransferInv, Kinds
    <2>2. OneFault /\ Kinds
      BY <2>1 DEF OneFault, TransferInv
    <2>3. Between => Between'
      BY <2>1, <2>2, BetweenStays
    <2>4. ASSUME NEW request \in Requests, NEW k \in 0 .. Len(Frames(request)) - 1,
                 Held(request, k), ~Between
          PROVE  Between'
      <3>1. k # 0 /\ Within(request.rule, k - 1)
        BY <2>4 DEF Held
      <3>2. request.op = "rule"
        <4>1. request.op # "rule" => Len(Frames(request)) = 1
          BY FramesOfOther, Zenon
        <4>2. Len(Frames(request)) = 1 => k = 0
          OBVIOUS
        <4>3. QED
          BY <3>1, <4>1, <4>2
      <3>3. request.rule \in Rules /\ Len(request.rule) \in Nat
        BY <3>2, RequestKinds, RulesAreSequences
      <3>4. k - 1 \in 0 .. Len(request.rule)
        <4>1. Len(Frames(request)) = Len(request.rule) + 2
          BY <3>2, FramesOfRule, Zenon
        <4>2. QED
          BY <3>1, <3>3, <4>1
      <3>5. QED
        BY <2>1, <2>2, <3>1, <3>3, <3>4, WithinCut
    <2>5. Between'
      BY <2>3, <2>4 DEF TransferInv, LinkInv
    <2>6. QED
      BY <1>1, <1>2, <2>5 DEF Replug, transfer, store, LinkInv, Settled, Stored
  <1>3. CASE Restart
    BY <1>1, <1>3 DEF Restart, LinkInv, Settled, Stored, Between
  <1>4. QED
    BY <1>2, <1>3

LEMMA LinkStep ==
  ASSUME TransferInv, [Next]_vars
  PROVE  LinkInv'
  <1>1. ASSUME NEW request \in Requests, HostSend(request)
        PROVE  LinkInv'
    BY <1>1, HostSendLink
  <1>2. CASE Handle
    BY <1>2, HandleStartLink, HandleDataLink, HandleEndLink, HandleSaveLink,
       HandleEraseLink, HandleTimeLink DEF Handle
  <1>3. CASE UNCHANGED vars
    BY <1>3 DEF vars, link, transfer, store, session, faults, TransferInv, LinkInv, Settled,
                Underway, Left, AllAcked, Stored, Between, Held, Within, Begun, RanOn, Faults
  <1>4. QED
    BY <1>1, <1>2, <1>3, LoseFrameLink, NewSessionLink DEF Next

-----------------------------------------------------------------------------
(* Kinds. *)

LEMMA ReceivedKinds ==
  ASSUME Kinds, NEW type, Receive(type)
  PROVE  /\ wire' \in Seq(Frame) /\ Head(wire) \in Frame
         /\ asked' = asked /\ amid' = amid /\ replugs' \in Nat
  BY DEF Kinds, Receive, session, faults

LEMMA AnswerKinds ==
  ASSUME Kinds, Ack \/ Nak \/ NoReply
  PROVE  acks' \in Nat /\ lost' \in Nat
  BY DEF Kinds, Ack, Nak, NoReply

LEMMA HostSendKinds ==
  ASSUME Kinds, NEW request \in Requests, HostSend(request)
  PROVE  Kinds'
  <1>1. wire' \in Seq(Frame)
    BY FramesAreFrames DEF HostSend
  <1>2. asked' \in Nat
    BY DEF HostSend, Kinds
  <1>3. QED
    BY <1>1, <1>2 DEF HostSend, Kinds, transfer, store, engine, faults

LEMMA LoadedKinds ==
  ASSUME Kinds, Reload \/ ReloadThrows \/ NoRunner
  PROVE  loaded' \in RuleLists \cup {Garbled}
  BY DEF Kinds, Reload, ReloadThrows, NoRunner

LEMMA HandleKinds ==
  ASSUME Kinds, Handle
  PROVE  Kinds'
  <1>1. CASE HandleStart
    <2>1. Receive("start") /\ NoReply
      BY <1>1 DEF HandleStart
    <2>2. buffer' \in Seq(Chunk)
      BY <1>1, EmptySeq DEF HandleStart
    <2>3. ruleSize' \in Nat
      <3>1. Head(wire) \in Frame /\ Head(wire).type = "start"
        BY <2>1, ReceivedKinds DEF Receive
      <3>2. Head(wire).size \in {Size(r) : r \in Rules}
        BY <3>1 DEF Frame
      <3>3. QED
        BY <1>1, <3>2, SizeOfRule DEF HandleStart
    <2>4. QED
      BY <1>1, <2>1, <2>2, <2>3, ReceivedKinds, AnswerKinds DEF Kinds, HandleStart, store, engine
  <1>2. CASE HandleData
    <2>1. Receive("data") /\ NoReply /\ Head(wire).type = "data"
      BY <1>2 DEF HandleData, Receive
    <2>2. Head(wire).chunk \in Chunk
      BY <2>1, ReceivedKinds DEF Frame
    <2>3. buffer' \in Seq(Chunk)
      BY <1>2, <2>2 DEF HandleData, Kinds
    <2>4. QED
      BY <1>2, <2>1, <2>3, ReceivedKinds, AnswerKinds DEF Kinds, HandleData, store, engine
  <1>3. CASE HandleEnd
    <2>1. Receive("end") /\ (Ack \/ Nak)
      BY <1>3 DEF HandleEnd
    <2>2. rules' \in RuleLists
      <3>1. rules' = rules \/ rules' = Append(rules, buffer)
        BY <1>3 DEF HandleEnd
      <3>2. rules \in Seq(Seq(Chunk)) /\ buffer \in Seq(Chunk)
        BY DEF Kinds, RuleLists
      <3>3. Append(rules, buffer) \in Seq(Seq(Chunk))
        BY <3>2, AppendProperties
      <3>4. QED
        BY <3>1, <3>2, <3>3 DEF RuleLists
    <2>3. QED
      BY <1>3, <2>1, <2>2, ReceivedKinds, AnswerKinds DEF Kinds, HandleEnd, engine
  <1>4. CASE HandleSave
    <2>1. Receive("save") /\ (Ack \/ Nak \/ NoReply)
      BY <1>4 DEF HandleSave
    <2>2. saved' \in RuleLists
      BY <1>4 DEF HandleSave, Kinds
    <2>3. loaded' \in RuleLists \cup {Garbled}
      BY <1>4, LoadedKinds DEF HandleSave, Kinds, engine
    <2>4. QED
      BY <1>4, <2>1, <2>2, <2>3, ReceivedKinds, AnswerKinds DEF Kinds, HandleSave, transfer
  <1>5. CASE HandleErase
    <2>1. Receive("erase") /\ Ack
      BY <1>5 DEF HandleErase
    <2>2. << >> \in RuleLists
      BY EmptySeq DEF RuleLists
    <2>3. rules' \in RuleLists /\ saved' \in RuleLists
      BY <1>5, <2>2 DEF HandleErase, Kinds
    <2>4. QED
      BY <1>5, <2>1, <2>3, ReceivedKinds, AnswerKinds DEF Kinds, HandleErase, transfer
  <1>6. CASE HandleTime
    <2>1. Receive("time") /\ NoReply
      BY <1>6 DEF HandleTime
    <2>2. loaded' \in RuleLists \cup {Garbled}
      BY <1>6, LoadedKinds DEF HandleTime
    <2>3. QED
      BY <1>6, <2>1, <2>2, ReceivedKinds, AnswerKinds DEF Kinds, HandleTime, transfer, store
  <1>7. QED
    BY <1>1, <1>2, <1>3, <1>4, <1>5, <1>6 DEF Handle

LEMMA KindsStep ==
  ASSUME Kinds, [Next]_vars
  PROVE  Kinds'
  <1>1. ASSUME NEW request \in Requests, HostSend(request)
        PROVE  Kinds'
    BY <1>1, HostSendKinds
  <1>2. CASE LoseFrame
    BY <1>2 DEF LoseFrame, Kinds, transfer, store, engine, session, faults
  <1>3. CASE Handle
    BY <1>3, HandleKinds
  <1>4. << >> \in Seq(Frame) /\ << >> \in Seq(Chunk) /\ << >> \in RuleLists
    BY EmptySeq DEF RuleLists
  <1>5. CASE Replug
    BY <1>4, <1>5 DEF Replug, NewSession, Kinds, transfer, store, engine
  <1>6. CASE Restart
    BY <1>4, <1>6 DEF Restart, NewSession, Kinds
  <1>7. CASE UNCHANGED vars
    BY <1>7 DEF vars, link, transfer, store, engine, session, faults, Kinds
  <1>8. QED
    BY <1>1, <1>2, <1>3, <1>5, <1>6, <1>7 DEF Next

-----------------------------------------------------------------------------
(* The buffer holds, and no rule is put together from two. *)

LEMMA FaultsGrow ==
  ASSUME Kinds, [Next]_vars
  PROVE  lost \in Nat /\ replugs \in Nat /\ lost' >= lost /\ replugs' >= replugs
  <1>1. lost \in Nat /\ replugs \in Nat
    BY DEF Kinds
  <1>2. CASE Handle
    <2>1. replugs' = replugs
      BY <1>2 DEF Handle, HandleStart, HandleData, HandleEnd, HandleSave, HandleErase,
                  HandleTime, Receive, faults
    <2>2. lost' = lost \/ lost' = lost + 1
      BY <1>2 DEF Handle, HandleStart, HandleData, HandleEnd, HandleSave, HandleErase,
                  HandleTime, Ack, Nak, NoReply
    <2>3. QED
      BY <1>1, <2>1, <2>2
  <1>3. CASE LoseFrame
    BY <1>1, <1>3 DEF LoseFrame, faults
  <1>4. CASE Replug
    BY <1>1, <1>4 DEF Replug
  <1>5. CASE UNCHANGED <<lost, replugs>>
    BY <1>1, <1>5
  <1>6. QED
    BY <1>2, <1>3, <1>4, <1>5 DEF Next, HostSend, Restart, faults, vars, link

LEMMA BufferStep ==
  ASSUME TransferInv, [Next]_vars
  PROVE  BufferHolds'
  <1>1. /\ lost \in Nat /\ replugs \in Nat /\ lost' >= lost /\ replugs' >= replugs
        /\ lost' \in Nat /\ replugs' \in Nat
    BY FaultsGrow, KindsStep DEF TransferInv, Kinds
  <1>2. lost' + replugs' <= 3 => lost + replugs <= 3
    <2>1. \A m, n, i, j \in Nat : (i >= m /\ j >= n /\ i + j <= 3) => m + n <= 3
      OBVIOUS
    <2>2. QED
      BY <1>1, <2>1
  <1>3. CASE buffer' = buffer
    BY <1>2, <1>3 DEF TransferInv, BufferHolds
  <1>4. CASE buffer' = << >>
    BY <1>4, SizeOfNothing, UploadAssumption DEF BufferHolds
  <1>5. CASE HandleData /\ receiving
    <2>1. /\ Receive("data") /\ UNCHANGED <<receiving, ruleSize, lost, replugs>>
          /\ buffer' = Append(buffer, Head(wire).chunk)
      BY <1>5 DEF HandleData, NoReply, Receive, faults
    <2>2. PICK request \in Requests : \E k \in 0 .. Len(Frames(request)) - 1 :
                 /\ Underway(request, k) /\ Held(request, k)
                 /\ Head(wire) = Frames(request)[k + 1] /\ Goes(request, k)
      BY <2>1, Arrives
    <2>3. PICK k \in 0 .. Len(Frames(request)) - 1 :
                 /\ Underway(request, k) /\ Held(request, k)
                 /\ Head(wire) = Frames(request)[k + 1] /\ Goes(request, k)
      BY <2>2
    <2> DEFINE r == request.rule
    <2>4. request.op = "rule" /\ k \in 1 .. Len(r) /\ Head(wire).chunk = r[k]
      BY <2>1, <2>3, Arrives, FrameTells
    <2>5. r \in Rules /\ Within(r, k - 1)
      BY <2>3, <2>4, RequestKinds DEF Held
    <2> HIDE DEF r
    <2>6. Faults <= 3 => Size(buffer') <= BufferSize
      BY <1>5, <2>1, <2>4, <2>5, DataTaken DEF TransferInv
    <2>7. QED
      BY <1>2, <2>6 DEF BufferHolds, Faults
  <1>6. QED
    BY <1>3, <1>4, <1>5
    DEF Next, Handle, HandleStart, HandleData, HandleEnd, HandleSave, HandleErase, HandleTime,
        HostSend, LoseFrame, Replug, Restart, transfer, vars

\* A rule that is added is a rule that was sent.
LEMMA AddedIsSent ==
  ASSUME TransferInv, HandleEnd, Complete, lost <= 2, replugs > 0 => lost = 0
  PROVE  buffer \in Rules
  <1>1. Receive("end")
    BY DEF HandleEnd
  <1>2. PICK request \in Requests : \E k \in 0 .. Len(Frames(request)) - 1 :
               /\ Underway(request, k) /\ Held(request, k)
               /\ Head(wire) = Frames(request)[k + 1] /\ Goes(request, k)
    BY <1>1, Arrives
  <1>3. PICK k \in 0 .. Len(Frames(request)) - 1 :
               /\ Underway(request, k) /\ Held(request, k)
               /\ Head(wire) = Frames(request)[k + 1] /\ Goes(request, k)
    BY <1>2
  <1> DEFINE r == request.rule
  <1>4. request.op = "rule" /\ k = Len(r) + 1
    <2>1. Head(wire).type = "end"
      BY <1>1 DEF Receive
    <2>2. QED
      BY <1>3, <2>1, FrameTells
  <1>5. r \in Rules /\ Len(r) \in Nat
    BY <1>4, RequestKinds, RulesAreSequences
  <1>6. Within(r, Len(r))
    <2>1. k # 0 /\ k - 1 = Len(r)
      BY <1>4, <1>5
    <2>2. QED
      BY <1>3, <2>1 DEF Held
  <1> HIDE DEF r
  <1>7. receiving /\ Size(buffer) = ruleSize /\ lost \in Nat /\ replugs \in Nat /\ ruleSize \in Nat
    BY DEF Complete, TransferInv, Kinds
  <1>8. CASE Begun(r, Len(r))
    BY <1>5, <1>7, <1>8, CameWhole DEF Begun
  <1>9. CASE RanOn(r, Len(r))
    <2>1. lost = 2 /\ replugs = 0
      BY <1>7, <1>9 DEF RanOn, Faults
    <2>2. Size(buffer) = ruleSize + Size(r)
      BY <1>5, <1>9, <2>1, AmountOfAll DEF RanOn
    <2>3. Size(r) \in Nat \ {0}
      BY <1>5, SizeOfRule
    <2>4. QED
      BY <1>7, <2>2, <2>3
  <1>10. QED
    BY <1>6, <1>7, <1>8, <1>9 DEF Within

LEMMA SentStep ==
  ASSUME TransferInv, [Next]_vars
  PROVE  StoredWasSent'
  <1>1. /\ lost \in Nat /\ replugs \in Nat /\ lost' >= lost /\ replugs' >= replugs
        /\ lost' \in Nat /\ replugs' \in Nat
    BY FaultsGrow, KindsStep DEF TransferInv, Kinds
  <1> SUFFICES ASSUME lost' <= 2, replugs' > 0 => lost' = 0
               PROVE  ToSet(rules') \cup ToSet(saved') \subseteq Rules
    BY DEF StoredWasSent
  <1>2. lost <= 2 /\ (replugs > 0 => lost = 0)
    BY <1>1
  <1>3. ToSet(rules) \subseteq Rules /\ ToSet(saved) \subseteq Rules
    BY <1>2 DEF TransferInv, StoredWasSent
  <1>4. ToSet(<< >>) = {}
    BY DEF ToSet
  <1>5. CASE HandleEnd
    <2>1. saved' = saved
      BY <1>5 DEF HandleEnd
    <2>2. CASE rules' = rules
      BY <1>3, <2>1, <2>2
    <2>3. CASE Complete /\ rules' = Append(rules, buffer)
      <3>1. buffer \in Rules
        BY <1>2, <1>5, <2>3, AddedIsSent
      <3>2. rules \in Seq(Seq(Chunk)) /\ buffer \in Seq(Chunk)
        BY DEF TransferInv, Kinds, RuleLists
      <3>3. /\ Len(rules') = Len(rules) + 1 /\ rules'[Len(rules) + 1] = buffer
            /\ Len(rules) \in Nat /\ \A i \in 1 .. Len(rules) : rules'[i] = rules[i]
            /\ DOMAIN rules = 1 .. Len(rules) /\ DOMAIN rules' = 1 .. Len(rules')
        BY <2>3, <3>2, AppendProperties
      <3>4. ASSUME NEW i \in 1 .. Len(rules')
            PROVE  rules'[i] \in Rules
        <4>1. CASE i = Len(rules) + 1
          BY <3>1, <3>3, <4>1
        <4>2. CASE i # Len(rules) + 1
          <5>1. i \in 1 .. Len(rules)
            BY <3>3, <4>2
          <5>2. rules'[i] = rules[i] /\ rules[i] \in ToSet(rules)
            BY <3>3, <5>1 DEF ToSet
          <5>3. QED
            BY <1>3, <5>2
        <4>3. QED
          BY <4>1, <4>2
      <3>5. ToSet(rules') \subseteq Rules
        BY <3>3, <3>4 DEF ToSet
      <3>6. QED
        BY <1>3, <2>1, <3>5
    <2>4. QED
      BY <1>5, <2>2, <2>3 DEF HandleEnd
  <1>6. CASE UNCHANGED rules /\ saved' \in {rules, saved}
    BY <1>3, <1>6
  <1>7. CASE rules' = << >> /\ saved' \in {saved, << >>}
    BY <1>3, <1>4, <1>7
  <1>8. CASE rules' = saved /\ saved' = saved
    BY <1>3, <1>8
  <1>9. CASE Handle
    BY <1>5, <1>6, <1>7, <1>9
    DEF Handle, HandleStart, HandleData, HandleSave, HandleErase, HandleTime, store
  <1>10. QED
    BY <1>6, <1>8, <1>9 DEF Next, HostSend, LoseFrame, Replug, Restart, store, vars

-----------------------------------------------------------------------------
(* The rules that are saved, loaded and stored. *)

LEMMA PrefixOfItself ==
  ASSUME NEW S, NEW s \in Seq(S)
  PROVE  IsPrefix(s, s)
  BY DEF IsPrefix

LEMMA NothingIsPrefix ==
  ASSUME NEW S, NEW s \in Seq(S)
  PROVE  IsPrefix(<< >>, s)
  BY DEF IsPrefix

LEMMA PrefixOfMore ==
  ASSUME NEW S, NEW s \in Seq(S), NEW t \in Seq(S), NEW e \in S, IsPrefix(s, t)
  PROVE  IsPrefix(s, Append(t, e))
  <1>1. Len(s) <= Len(t) /\ SubSeq(s, 1, Len(s)) = SubSeq(t, 1, Len(s))
    BY DEF IsPrefix
  <1>2. Len(Append(t, e)) = Len(t) + 1 /\ \A i \in 1 .. Len(t) : Append(t, e)[i] = t[i]
    BY AppendProperties
  <1>3. SubSeq(Append(t, e), 1, Len(s)) = SubSeq(t, 1, Len(s))
    BY <1>1, <1>2
  <1>4. QED
    BY <1>1, <1>2, <1>3 DEF IsPrefix

\* loadFromEeprom(): what is loaded is all that is stored, or garbled.
LEMMA ReloadLoads ==
  ASSUME Reload, loaded' # Garbled
  PROVE  loaded' = rules
  BY DEF Reload

LEMMA StoredStep ==
  ASSUME Kinds, SavedIsPrefix, RunsStoredRules, [Next]_vars
  PROVE  SavedIsPrefix' /\ RunsStoredRules'
  <1>1. rules \in Seq(Seq(Chunk)) /\ saved \in Seq(Seq(Chunk)) /\ buffer \in Seq(Chunk)
    BY DEF Kinds, RuleLists
  <1>2. IsPrefix(rules, rules) /\ IsPrefix(saved, saved) /\ IsPrefix(saved, rules)
    BY <1>1, PrefixOfItself DEF SavedIsPrefix
  <1>3. CASE UNCHANGED <<store, loaded, mode, erased>>
    BY <1>3 DEF store, SavedIsPrefix, RunsStoredRules
  <1>4. CASE HandleEnd
    <2>1. saved' = saved /\ loaded' = loaded /\ mode' = mode /\ erased' = erased
      BY <1>4 DEF HandleEnd, engine
    <2>2. CASE rules' = rules
      BY <2>1, <2>2 DEF SavedIsPrefix, RunsStoredRules
    <2>3. CASE rules' = Append(rules, buffer)
      <3>1. SavedIsPrefix'
        BY <1>1, <1>2, <2>1, <2>3, PrefixOfMore DEF SavedIsPrefix
      <3>2. ASSUME mode = "loop", ~erased, loaded # Garbled
            PROVE  IsPrefix(saved, loaded) /\ IsPrefix(loaded, Append(rules, buffer))
        <4>1. loaded \in Seq(Seq(Chunk)) /\ IsPrefix(saved, loaded) /\ IsPrefix(loaded, rules)
          BY <3>2 DEF Kinds, RuleLists, RunsStoredRules
        <4>2. QED
          BY <1>1, <4>1, PrefixOfMore
      <3>3. QED
        BY <2>1, <2>3, <3>1, <3>2 DEF RunsStoredRules
    <2>4. QED
      BY <1>4, <2>2, <2>3 DEF HandleEnd
  <1>5. CASE HandleSave
    <2>1. CASE UNCHANGED <<saved, engine>>
      BY <1>3, <1>5, <2>1 DEF HandleSave, engine, store
    <2>2. CASE saved' = rules /\ Reload
      BY <1>2, <1>5, <2>2, ReloadLoads DEF HandleSave, SavedIsPrefix, RunsStoredRules
    <2>3. CASE saved' = rules /\ mode' = "dead"
      BY <1>2, <1>5, <2>3 DEF HandleSave, SavedIsPrefix, RunsStoredRules
    <2>4. QED
      BY <1>5, <2>1, <2>2, <2>3 DEF HandleSave, ReloadThrows, NoRunner
  <1>6. CASE HandleErase
    <2>1. rules = << >> => saved = << >>
      <3>1. Len(saved) <= Len(rules)
        BY <1>2 DEF IsPrefix
      <3>2. rules = << >> => Len(rules) = 0
        OBVIOUS
      <3>3. saved # << >> => Len(saved) \in Nat \ {0}
        BY <1>1, EmptySeq
      <3>4. QED
        BY <3>1, <3>2, <3>3
    <2>2. rules' = << >> /\ saved' = << >> /\ erased'
      BY <1>6, <2>1 DEF HandleErase
    <2>3. IsPrefix(saved', rules')
      BY <2>2, NothingIsPrefix, EmptySeq
    <2>4. QED
      BY <2>2, <2>3 DEF SavedIsPrefix, RunsStoredRules
  <1>7. CASE HandleTime
    <2>1. CASE Reload
      BY <1>2, <1>7, <2>1, ReloadLoads DEF HandleTime, store, SavedIsPrefix, RunsStoredRules
    <2>2. CASE mode' = "dead"
      BY <1>2, <1>7, <2>2 DEF HandleTime, store, SavedIsPrefix, RunsStoredRules
    <2>3. QED
      BY <1>7, <2>1, <2>2 DEF HandleTime, ReloadThrows, NoRunner
  <1>8. CASE Restart
    BY <1>2, <1>8 DEF Restart, SavedIsPrefix, RunsStoredRules
  <1>9. QED
    BY <1>3, <1>4, <1>5, <1>6, <1>7, <1>8
    DEF Next, Handle, HostSend, LoseFrame, HandleStart, HandleData, Replug, vars, engine, store
-----------------------------------------------------------------------------
(* Types and bounds. *)

TypeInv ==
  /\ TypeOK
  /\ Used(saved) <= Capacity
  /\ loader \in [id : NoRule .. Capacity, stale : BOOLEAN]

LEMMA InitTypeInv == Init => TypeInv
  <1> SUFFICES ASSUME Init
               PROVE  TypeInv
    OBVIOUS
  <1>1. << >> \in Seq(Chunk) /\ << >> \in Seq(Seq(Chunk))
    BY EmptySeq, Zenon
  <1>2. Used(rules) <= Capacity /\ Used(saved) <= Capacity
    BY UsedOfNothing, UploadAssumption DEF Init
  <1>3. loader \in [id : NoRule .. Capacity, stale : BOOLEAN]
    BY UploadAssumption DEF Init, Fresh, NoRule
  <1>4. loader.id \in NoRule .. Capacity /\ loader.stale \in BOOLEAN
    BY <1>3
  <1>5. wanted \in [rules : Seq(Seq(Chunk)), saved : Seq(Seq(Chunk))]
    BY <1>1 DEF Init
  <1>6. sent \in 0 .. MaxRequests /\ asked \in 0 .. sent /\ acks \in 0 .. asked
    BY UploadAssumption DEF Init
  <1>7. ruleSize \in 0 .. BufferSize /\ lost \in 0 .. MaxLost
        /\ restarts \in 0 .. MaxRestarts /\ replugs \in 0 .. MaxReplugs
    BY UploadAssumption DEF Init
  <1>8. TypeOK
    BY <1>1, <1>2, <1>4, <1>5, <1>6, <1>7 DEF Init, TypeOK
  <1>9. QED
    BY <1>2, <1>3, <1>8 DEF TypeInv

LEMMA AnswersBelowAsked ==
  ASSUME Kinds', LinkInv'
  PROVE  acks' \in 0 .. asked'
  <1>1. asked' \in Nat /\ acks' \in Nat
    BY DEF Kinds
  <1>2. \A request \in Requests : Owed(request) \in Nat
    BY DEF Owed
  <1>3. acks' <= asked'
    BY <1>1, <1>2 DEF LinkInv, Settled, Underway
  <1>4. QED
    BY <1>1, <1>3

LEMMA CountersStep ==
  ASSUME TypeOK, [Next]_vars
  PROVE  /\ sent' \in 0 .. MaxRequests /\ asked' \in 0 .. sent'
         /\ lost' \in 0 .. MaxLost /\ restarts' \in 0 .. MaxRestarts
         /\ replugs' \in 0 .. MaxReplugs
  <1>1. /\ MaxRequests \in Nat /\ MaxLost \in Nat /\ MaxRestarts \in Nat /\ MaxReplugs \in Nat
    BY UploadAssumption
  <1>2. /\ sent \in 0 .. MaxRequests /\ asked \in 0 .. sent /\ lost \in 0 .. MaxLost
        /\ restarts \in 0 .. MaxRestarts /\ replugs \in 0 .. MaxReplugs
    BY DEF TypeOK
  <1>3. ASSUME NEW request \in Requests, HostSend(request)
        PROVE  /\ sent' \in 0 .. MaxRequests /\ asked' \in 0 .. sent'
               /\ lost' \in 0 .. MaxLost /\ restarts' \in 0 .. MaxRestarts
               /\ replugs' \in 0 .. MaxReplugs
    BY <1>1, <1>2, <1>3 DEF HostSend, faults
  <1>4. CASE LoseFrame
    BY <1>1, <1>2, <1>4 DEF LoseFrame, faults
  <1>5. CASE Handle
    <2>1. UNCHANGED <<sent, asked, restarts, replugs>>
      BY <1>5 DEF Handle, HandleStart, HandleData, HandleEnd, HandleSave, HandleErase,
                  HandleTime, Receive, faults
    <2>2. lost' = lost \/ (lost < MaxLost /\ lost' = lost + 1)
      BY <1>5 DEF Handle, HandleStart, HandleData, HandleEnd, HandleSave, HandleErase,
                  HandleTime, Ack, Nak, NoReply
    <2>3. QED
      BY <1>1, <1>2, <2>1, <2>2
  <1>6. CASE Replug
    BY <1>1, <1>2, <1>6 DEF Replug, NewSession
  <1>7. CASE Restart
    BY <1>1, <1>2, <1>7 DEF Restart, NewSession
  <1>8. CASE UNCHANGED vars
    BY <1>2, <1>8 DEF vars, link, faults
  <1>9. QED
    BY <1>3, <1>4, <1>5, <1>6, <1>7, <1>8 DEF Next

LEMMA RuleSizeStep ==
  ASSUME Kinds, TypeOK, [Next]_vars
  PROVE  ruleSize' \in 0 .. BufferSize
  <1>1. ruleSize \in 0 .. BufferSize /\ BufferSize \in Nat
    BY UploadAssumption DEF TypeOK
  <1>2. CASE HandleStart
    <2>1. Head(wire) \in Frame /\ Head(wire).type = "start"
      BY <1>2, ReceivedKinds DEF HandleStart, Receive
    <2>2. Head(wire).size \in {Size(r) : r \in Rules}
      BY <2>1 DEF Frame
    <2>3. QED
      BY <1>2, <2>2, SizeOfRule DEF HandleStart
  <1>3. ruleSize' \in {ruleSize, 0} \/ HandleStart
    BY DEF Next, Handle, HandleData, HandleEnd, HandleSave, HandleErase, HandleTime,
           HostSend, LoseFrame, Replug, Restart, transfer, vars
  <1>4. QED
    BY <1>1, <1>2, <1>3

LEMMA WantedStep ==
  ASSUME Kinds, TypeOK, [Next]_vars
  PROVE  wanted' \in [rules : Seq(Seq(Chunk)), saved : Seq(Seq(Chunk))]
  <1>1. /\ wanted \in [rules : Seq(Seq(Chunk)), saved : Seq(Seq(Chunk))]
        /\ rules \in Seq(Seq(Chunk)) /\ saved \in Seq(Seq(Chunk))
    BY DEF TypeOK
  <1>2. ASSUME NEW request \in Requests, HostSend(request)
        PROVE  wanted' \in [rules : Seq(Seq(Chunk)), saved : Seq(Seq(Chunk))]
    <2>1. wanted' = CarryOut(wanted, request)
      BY <1>2 DEF HostSend
    <2>2. CASE request.op = "rule"
      <3>1. request.rule \in Seq(Chunk)
        BY <2>2, RequestKinds, RulesAreSequences
      <3>2. Append(wanted.rules, request.rule) \in Seq(Seq(Chunk))
        BY <1>1, <3>1, AppendProperties
      <3>3. wanted' = [wanted EXCEPT !.rules = Append(wanted.rules, request.rule)]
        BY <2>1, <2>2 DEF CarryOut
      <3>4. QED
        BY <1>1, <3>2, <3>3
    <2>3. CASE request.op = "save"
      BY <1>1, <2>1, <2>3 DEF CarryOut
    <2>4. CASE request.op = "erase"
      <3>1. << >> \in Seq(Seq(Chunk))
        BY EmptySeq, Zenon
      <3>2. wanted' = [rules |-> << >>, saved |-> << >>]
        BY <2>1, <2>4 DEF CarryOut
      <3>3. QED
        BY <3>1, <3>2
    <2>5. CASE request.op = "time"
      BY <1>1, <2>1, <2>5 DEF CarryOut
    <2>6. QED
      BY <2>2, <2>3, <2>4, <2>5, RequestKinds
  <1>3. \/ wanted' = wanted
        \/ wanted' = [rules |-> rules, saved |-> saved]
        \/ wanted' = [rules |-> saved, saved |-> saved]
        \/ \E request \in Requests : HostSend(request)
    BY DEF Next, Handle, HandleStart, HandleData, HandleEnd, HandleSave, HandleErase, HandleTime,
           Receive, LoseFrame, Replug, Restart, session, vars
  <1>4. QED
    BY <1>1, <1>2, <1>3

\* What is added fits, and what is saved was stored.
LEMMA RoomStep ==
  ASSUME Kinds, TypeInv, [Next]_vars
  PROVE  Used(rules') <= Capacity /\ Used(saved') <= Capacity
  <1>1. Used(rules) <= Capacity /\ Used(saved) <= Capacity
    BY DEF TypeInv, TypeOK
  <1>2. Used(<< >>) <= Capacity
    BY UsedOfNothing, UploadAssumption
  <1>3. CASE HandleEnd
    <2>1. CASE Fits(buffer) /\ rules' = Append(rules, buffer)
      <3>1. rules \in Seq(Seq(Chunk)) /\ buffer \in Seq(Chunk)
        BY DEF Kinds, RuleLists
      <3>2. Used(rules) \in Nat /\ Size(buffer) \in Nat
        BY <3>1, UsedIsNat, SizeIsNat
      <3>3. Used(rules') = Used(rules) + (1 + Size(buffer))
        BY <2>1, <3>1, UsedOfMore
      <3>4. Used(rules) + 1 + Size(buffer) <= Capacity
        BY <2>1 DEF Fits
      <3>5. Used(rules') <= Capacity
        BY <3>2, <3>3, <3>4
      <3>6. QED
        BY <1>1, <1>3, <3>5 DEF HandleEnd
    <2>2. QED
      BY <1>1, <1>3, <2>1 DEF HandleEnd
  <1>4. rules' \in {rules, saved, << >>} \/ HandleEnd
    BY DEF Next, Handle, HandleStart, HandleData, HandleSave, HandleErase, HandleTime,
           HostSend, LoseFrame, Replug, Restart, store, vars
  <1>5. saved' \in {rules, saved, << >>}
    BY DEF Next, Handle, HandleStart, HandleData, HandleEnd, HandleSave, HandleErase, HandleTime,
           HostSend, LoseFrame, Replug, Restart, store, vars
  <1>6. QED
    BY <1>1, <1>2, <1>3, <1>4, <1>5

LEMMA FewerThanBytes ==
  ASSUME NEW list \in Seq(Seq(Chunk)), Used(list) <= Capacity
  PROVE  /\ Len(list) - 1 \in NoRule .. Capacity
         /\ \A i \in DOMAIN list : i - 1 \in NoRule .. Capacity
  <1>1. Len(list) \in Nat /\ DOMAIN list = 1 .. Len(list)
    OBVIOUS
  <1>2. Used(list) \in Nat /\ Used(list) >= 1 + Len(list)
    BY UsedIsNat
  <1>3. Capacity \in Nat
    BY UploadAssumption
  <1>4. QED
    BY <1>1, <1>2, <1>3 DEF NoRule

LEMMA LoaderStep ==
  ASSUME Kinds, TypeInv, [Next]_vars
  PROVE  loader' \in [id : NoRule .. Capacity, stale : BOOLEAN]
  <1> DEFINE Loaders == [id : NoRule .. Capacity, stale : BOOLEAN]
  <1>1. loader \in Loaders
    BY DEF TypeInv
  <1>2. /\ Len(rules) - 1 \in NoRule .. Capacity
        /\ Len(saved) - 1 \in NoRule .. Capacity
        /\ \A i \in DOMAIN saved : i - 1 \in NoRule .. Capacity
    BY FewerThanBytes DEF TypeInv, TypeOK
  <1>3. CASE Reload
    <2>1. loader' = loader \/ \E stale \in BOOLEAN : loader' = [id |-> Len(rules) - 1, stale |-> stale]
      BY <1>3 DEF Reload
    <2>2. QED
      BY <1>1, <1>2, <2>1
  <1>4. CASE HandleErase
    <2>1. loader' = [loader EXCEPT !.stale = loader.stale \/ (rules # << >> /\ loader.id # NoRule)]
      BY <1>4 DEF HandleErase
    <2>2. (loader.stale \/ (rules # << >> /\ loader.id # NoRule)) \in BOOLEAN
      OBVIOUS
    <2>3. QED
      BY <1>1, <2>1, <2>2
  <1>5. CASE Restart
    <2>1. \/ loader' = [id |-> Len(saved) - 1, stale |-> FALSE]
          \/ \E i \in DOMAIN saved : loader' = [id |-> i - 1, stale |-> FALSE]
      BY <1>5 DEF Restart
    <2>2. ASSUME NEW i \in DOMAIN saved, loader' = [id |-> i - 1, stale |-> FALSE]
          PROVE  loader' \in Loaders
      <3>1. i - 1 \in NoRule .. Capacity
        BY <1>2
      <3>2. QED
        BY <2>2, <3>1
    <2>3. CASE loader' = [id |-> Len(saved) - 1, stale |-> FALSE]
      BY <1>2, <2>3
    <2>4. QED
      BY <2>1, <2>2, <2>3
  <1>6. loader' = loader \/ Reload \/ HandleErase \/ Restart
    BY DEF Next, Handle, HandleStart, HandleData, HandleEnd, HandleSave, HandleTime,
           ReloadThrows, NoRunner, HostSend, LoseFrame, Replug, engine, vars
  <1>7. QED
    BY <1>1, <1>3, <1>4, <1>5, <1>6

LEMMA ModeStep ==
  ASSUME TypeOK, [Next]_vars
  PROVE  mode' \in {"loop", "setup", "dead"} /\ erased' \in BOOLEAN
  BY DEF TypeOK, Next, Handle, HandleStart, HandleData, HandleEnd, HandleSave, HandleErase,
         HandleTime, Reload, ReloadThrows, NoRunner, HostSend, LoseFrame, Replug, Restart,
         engine, vars

LEMMA TypeStep ==
  ASSUME TransferInv, TransferInv', TypeInv, [Next]_vars
  PROVE  TypeInv'
  <1>1. Kinds /\ TypeOK
    BY DEF TransferInv, TypeInv
  <1>2. acks' \in 0 .. asked'
    BY AnswersBelowAsked DEF TransferInv
  <1>3. /\ sent' \in 0 .. MaxRequests /\ asked' \in 0 .. sent'
        /\ lost' \in 0 .. MaxLost /\ restarts' \in 0 .. MaxRestarts
        /\ replugs' \in 0 .. MaxReplugs
    BY <1>1, CountersStep
  <1>4. ruleSize' \in 0 .. BufferSize
    BY <1>1, RuleSizeStep
  <1>5. wanted' \in [rules : Seq(Seq(Chunk)), saved : Seq(Seq(Chunk))]
    BY <1>1, WantedStep
  <1>6. Used(rules') <= Capacity /\ Used(saved') <= Capacity
    BY <1>1, RoomStep
  <1>7. loader' \in [id : NoRule .. Capacity, stale : BOOLEAN]
    BY <1>1, LoaderStep
  <1>8. loader'.id \in NoRule .. Capacity /\ loader'.stale \in BOOLEAN
    BY <1>7
  <1>9. mode' \in {"loop", "setup", "dead"} /\ erased' \in BOOLEAN
    BY <1>1, ModeStep
  <1>10. /\ receiving' \in BOOLEAN /\ amid' \in BOOLEAN /\ buffer' \in Seq(Chunk)
         /\ rules' \in Seq(Seq(Chunk)) /\ saved' \in Seq(Seq(Chunk))
         /\ loaded' = Garbled \/ loaded' \in Seq(Seq(Chunk))
    BY DEF TransferInv, Kinds, RuleLists
  <1>11. TypeOK'
    BY <1>2, <1>3, <1>4, <1>5, <1>6, <1>8, <1>9, <1>10 DEF TypeOK
  <1>12. QED
    BY <1>6, <1>7, <1>11 DEF TypeInv

-----------------------------------------------------------------------------
LEMMA TransferInvAlways == Spec => []TransferInv
  <1>1. TransferInv /\ [Next]_vars => TransferInv'
    BY LinkStep, KindsStep, BufferStep, SentStep, StoredStep DEF TransferInv
  <1>2. QED
    BY InitTransferInv, <1>1, PTL DEF Spec

\* Every variable has its type, the rules stored fit their region and the loader
\* stands on one of them: whatever is uploaded, erased, lost or restarted.
THEOREM TypeCorrect == Spec => []TypeOK
  <1>1. TransferInv /\ TransferInv' /\ TypeInv /\ [Next]_vars => TypeInv'
    BY TypeStep
  <1>2. TypeInv => TypeOK
    BY DEF TypeInv
  <1>3. QED
    BY InitTypeInv, <1>1, <1>2, TransferInvAlways, PTL DEF Spec

\* No rule is put together from two: what is stored was sent by the host, unless
\* more than two frames are lost, or one and the rest of a rule with the cable.
THEOREM StoredAlwaysSent == Spec => []StoredWasSent
  <1>1. TransferInv => StoredWasSent
    BY DEF TransferInv
  <1>2. QED
    BY <1>1, TransferInvAlways, PTL

\* DATA frames, which are copied without a bound, stay inside rule_buffer while a
\* frame is lost or the cable is pulled no more than three times.
THEOREM BufferAlwaysHolds == Spec => []BufferHolds
  <1>1. TransferInv => BufferHolds
    BY DEF TransferInv
  <1>2. QED
    BY <1>1, TransferInvAlways, PTL

\* A host that has had an ACK for each of its requests knows that all were carried
\* out, in order and with every byte: for all rules, requests, losses and restarts.
THEOREM AckedAlwaysMeansDone == Spec => []AckedMeansDone
  <1>1. TransferInv => AckedMeansDone
    <2> SUFFICES ASSUME TransferInv, acks = asked, amid => lost = 0
                 PROVE  rules = wanted.rules /\ saved = wanted.saved
      BY DEF AckedMeansDone
    <2>1. asked \in Nat /\ acks \in Nat
      BY DEF TransferInv, Kinds
    <2>2. wanted = Stored
      <3>1. CASE Settled
        BY <2>1, <3>1 DEF Settled, AllAcked
      <3>2. ASSUME NEW request \in Requests, NEW k \in 0 .. Len(Frames(request)) - 1,
                   Underway(request, k)
            PROVE  wanted = Stored
        <4>1. request.op = "time"
          BY <2>1, <3>2 DEF Underway, Owed
        <4>2. AllAcked(Owed(request))
          BY <2>1, <4>1 DEF AllAcked, Owed
        <4>3. QED
          BY <3>2, <4>1, <4>2, CarriedOut DEF Underway
      <3>3. QED
        BY <3>1, <3>2 DEF TransferInv, LinkInv
    <2>3. QED
      BY <2>2 DEF Stored
  <1>2. QED
    BY <1>1, TransferInvAlways, PTL

\* The rules that run are stored rules and all that a restart would bring, until
\* they are erased or were read with a stale header.
THEOREM RunningAlwaysStored == Spec => []RunsStoredRules
  <1>1. TransferInv => RunsStoredRules
    BY DEF TransferInv
  <1>2. QED
    BY <1>1, TransferInvAlways, PTL
=============================================================================
