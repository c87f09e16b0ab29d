--------------------------- MODULE RuleStore_proofs ---------------------------
(***************************************************************************)
(* The store is a list of rules for every geometry of the flash, every set *)
(* of rules and every number of failures.                                  *)
(***************************************************************************)
EXTENDS RuleStore, EepromDriver_proofs, SetInduction

-----------------------------------------------------------------------------
(* The walk over the rules: getRule() adds one header to the walk of the rule before. *)

IsWalk(walk, mem, id) ==
  walk = [k \in 0 .. id |->
            IF k = 0 THEN Header(mem, 0, FirstRule)
            ELSE IF walk[k - 1].initialised THEN NextRule(mem, walk[k - 1]) ELSE walk[k - 1]]

LEMMA WalkStep ==
  ASSUME NEW walk, NEW mem, NEW id \in Nat, IsWalk(walk, mem, id),
         NEW k \in 0 .. id
  PROVE  walk[k] = IF k = 0 THEN Header(mem, 0, FirstRule)
                   ELSE IF walk[k - 1].initialised THEN NextRule(mem, walk[k - 1])
                   ELSE walk[k - 1]
  BY DEF IsWalk

LEMMA WalkExists ==
  ASSUME NEW mem, NEW id \in Nat
  PROVE  \E walk : IsWalk(walk, mem, id)
  <1> DEFINE S == {n \in Nat : \E walk : IsWalk(walk, mem, n)}
  <1>1. 0 \in S
    <2>1. IsWalk([k \in 0 .. 0 |-> Header(mem, 0, FirstRule)], mem, 0)
      BY DEF IsWalk
    <2>2. QED
      BY <2>1
  <1>2. ASSUME NEW n \in S PROVE n + 1 \in S
    <2>1. PICK walk : IsWalk(walk, mem, n)
      OBVIOUS
    <2> DEFINE longer ==
          [k \in 0 .. n + 1 |->
             IF k <= n THEN walk[k]
             ELSE IF walk[n].initialised THEN NextRule(mem, walk[n]) ELSE walk[n]]
    <2>2. \A k \in 0 .. n + 1 :
            longer[k] = IF k = 0 THEN Header(mem, 0, FirstRule)
                        ELSE IF longer[k - 1].initialised THEN NextRule(mem, longer[k - 1])
                        ELSE longer[k - 1]
      <3> SUFFICES ASSUME NEW k \in 0 .. n + 1
                   PROVE  longer[k] =
                            IF k = 0 THEN Header(mem, 0, FirstRule)
                            ELSE IF longer[k - 1].initialised
                                 THEN NextRule(mem, longer[k - 1]) ELSE longer[k - 1]
        OBVIOUS
      <3>1. CASE k = n + 1
        BY <3>1
      <3>2. CASE k \in 0 .. n
        <4>1. longer[k] = walk[k] /\ (k # 0 => longer[k - 1] = walk[k - 1])
          BY <3>2
        <4>2. QED
          BY <2>1, <3>2, <4>1, WalkStep
      <3>3. QED
        BY <3>1, <3>2
    <2>3. IsWalk(longer, mem, n + 1)
      BY <2>2 DEF IsWalk
    <2>4. QED
      BY <2>3
  <1> HIDE DEF S
  <1>3. S = Nat
    <2>1. S \in SUBSET Nat
      BY DEF S
    <2>2. QED
      BY <1>1, <1>2, <2>1, NatSetInduction
  <1>4. QED
    BY <1>3 DEF S

\* Two walks agree as far as both go.
LEMMA WalkUnique ==
  ASSUME NEW mem, NEW m \in Nat, NEW n \in Nat, NEW v, NEW w,
         IsWalk(v, mem, m), IsWalk(w, mem, n), NEW i \in Nat, i <= m, i <= n
  PROVE  v[i] = w[i]
  <1> DEFINE S == {k \in Nat : k <= m /\ k <= n => v[k] = w[k]}
  <1>1. 0 \in S
    BY WalkStep
  <1>2. ASSUME NEW k \in S PROVE k + 1 \in S
    <2> SUFFICES ASSUME k + 1 <= m, k + 1 <= n PROVE v[k + 1] = w[k + 1]
      OBVIOUS
    <2>1. /\ k + 1 \in 0 .. m /\ k + 1 \in 0 .. n /\ k + 1 # 0 /\ (k + 1) - 1 = k
          /\ v[k] = w[k]
      OBVIOUS
    <2>2. QED
      BY <2>1, WalkStep
  <1> HIDE DEF S
  <1>3. S = Nat
    <2>1. S \in SUBSET Nat
      BY DEF S
    <2>2. QED
      BY <1>1, <1>2, <2>1, NatSetInduction
  <1>4. QED
    BY <1>3 DEF S

LEMMA GetRuleIsWalk ==
  ASSUME NEW mem, NEW id \in Nat
  PROVE  \E walk : IsWalk(walk, mem, id) /\ GetRule(mem, id) = walk[id]
  <1> DEFINE w == CHOOSE walk : IsWalk(walk, mem, id)
  <1>1. IsWalk(w, mem, id)
    BY WalkExists
  <1>2. GetRule(mem, id) = w[id]
    BY Zenon DEF GetRule, IsWalk
  <1>3. QED
    BY <1>1, <1>2

LEMMA FirstHeader == ASSUME NEW mem PROVE GetRule(mem, 0) = Header(mem, 0, FirstRule)
  BY GetRuleIsWalk, WalkStep

LEMMA NextHeader ==
  ASSUME NEW mem, NEW id \in Nat
  PROVE  GetRule(mem, id + 1) = IF GetRule(mem, id).initialised
                                THEN NextRule(mem, GetRule(mem, id)) ELSE GetRule(mem, id)
  <1>1. PICK v : IsWalk(v, mem, id) /\ GetRule(mem, id) = v[id]
    BY GetRuleIsWalk
  <1>2. PICK w : IsWalk(w, mem, id + 1) /\ GetRule(mem, id + 1) = w[id + 1]
    BY GetRuleIsWalk
  <1>3. v[id] = w[id]
    BY <1>1, <1>2, WalkUnique
  <1>4. id + 1 \in 0 .. id + 1 /\ id + 1 # 0 /\ (id + 1) - 1 = id
    OBVIOUS
  <1>5. QED
    BY <1>1, <1>2, <1>3, <1>4, WalkStep

-----------------------------------------------------------------------------
(* The inductive invariant. *)

\* Where the walk over the first n rules ends.
EndOf(mem, n) == IF n = 0 THEN FirstRule ELSE NextAddress(GetRule(mem, n - 1))

\* The first n headers are rules that end at or before e.
RuleHeader(i) ==
  [initialised : {TRUE}, id : {i}, addr : FirstRule .. EndAddress, len : Byte \ {Erased}]

ListOk(mem, n, e) ==
  \A i \in 0 .. n - 1 :
    GetRule(mem, i) \in RuleHeader(i) /\ NextAddress(GetRule(mem, i)) <= e

WriteCall(a, data) == [op |-> "write", at |-> a, data |-> data]
FlushCall == [op |-> "flush"]

\* What an addition has put into the memory so far.
LengthPut(r) == Content[newAddr] = Len(r)
DataPut(r)   == \A i \in 1 .. Len(r) : Content[newAddr + i] = r[i]

Adding(r) ==
  /\ newAddr + 1 + Len(r) <= EndAddress
  /\ Fits(newAddr + 1, r)
  /\ count < MaxRules
  /\ \/ /\ doing.next = "data" /\ ~dirty
        /\ call = WriteCall(newAddr, <<Len(r)>>)
     \/ /\ doing.next = "data" /\ LengthPut(r)
        /\ call = Idle
     \/ /\ doing.next = "flush" /\ LengthPut(r)
        /\ call = WriteCall(newAddr + 1, r)
     \/ /\ doing.next = "flush" /\ LengthPut(r) /\ DataPut(r)
        /\ call = Idle
     \/ /\ doing.next = "done" /\ LengthPut(r) /\ DataPut(r)
        /\ call = FlushCall \/ (call = Idle /\ ~dirty)

Counting ==
  \/ /\ doing.next = "flush" /\ ~dirty
     /\ call = WriteCall(CountAddress, <<count>>)
  \/ /\ doing.next = "flush" /\ Content[CountAddress] = count
     /\ call = Idle
  \/ /\ doing.next = "done" /\ Content[CountAddress] = count
     /\ call = FlushCall \/ (call = Idle /\ ~dirty)

\* Where the operation is, and which bytes a restart would find changed.
Progress ==
  \/ doing = NoOp /\ call = Idle /\ ~dirty
  \/ \E r \in Rules, next \in {"data", "flush", "done"} :
       /\ doing = [op |-> "add", rule |-> r, next |-> next]
       /\ Adding(r)
       /\ \A a \in Addr : a < newAddr => Durable[a] = Content[a]
  \/ \E op \in {"save", "clear"}, next \in {"flush", "done"} :
       /\ doing = [op |-> op, next |-> next]
       /\ op = "clear" => count = 0
       /\ Counting
       /\ \A a \in Addr \ {CountAddress} : Durable[a] = Content[a]

\* The list in the buffered memory is the one the RAM describes; the one a restart would
\* find was saved earlier and lies below the first free address.
ListInv ==
  /\ count \in 0 .. MaxRules
  /\ newAddr \in FirstRule .. EndAddress
  /\ ListOk(Content, count, newAddr)
  /\ doing.op # "clear" => EndOf(Content, count) = newAddr
  /\ DurableCount \in 0 .. MaxRules
  /\ ListOk(Durable, DurableCount, newAddr)

StoreInv == DriverTypes /\ BufferAgrees /\ Progress /\ ListInv

LoaderInv ==
  /\ loader \in [initialised : BOOLEAN, id : 0 .. EndAddress, addr : Addr, len : Byte]
  /\ loader.initialised /\ ~cleared =>
       loader.id < count /\ loader = GetRule(Content, loader.id)

-----------------------------------------------------------------------------
(* Lists in the memory. *)

LEMMA StoreConstants ==
  /\ FirstRule = 1 /\ CountAddress = 0 /\ EndAddress \in Nat /\ FirstRule < EndAddress
  /\ Addr = 0 .. EndAddress - 1
  /\ \A b \in Byte : b \in Nat /\ b <= 255
  <1>1. Rows * RowSize \in Nat
    BY RowSizePositive, GeometryAssumption
  <1>2. QED
    BY <1>1, RulesAssumption DEF FirstRule, CountAddress, EndAddress, Addr

IsRule(l, i, e) ==
  /\ l = [initialised |-> TRUE, id |-> i, addr |-> l.addr, len |-> l.len]
  /\ l.initialised /\ l.id = i
  /\ l.addr \in FirstRule .. EndAddress /\ l.len \in Byte \ {Erased}
  /\ l.addr \in Nat /\ l.len \in Nat
  /\ NextAddress(l) \in Nat /\ NextAddress(l) = l.addr + l.len + 1 /\ NextAddress(l) <= e

LEMMA HeaderFields ==
  ASSUME NEW mem, NEW n \in Nat, NEW e, ListOk(mem, n, e), NEW i \in 0 .. n - 1
  PROVE  IsRule(GetRule(mem, i), i, e)
  <1> DEFINE l == GetRule(mem, i)
  <1>1. l \in RuleHeader(i) /\ NextAddress(l) <= e
    BY DEF ListOk
  <1> HIDE DEF l
  <1>2. /\ l = [initialised |-> TRUE, id |-> i, addr |-> l.addr, len |-> l.len]
        /\ l.addr \in FirstRule .. EndAddress /\ l.len \in Byte \ {Erased}
    BY <1>1 DEF RuleHeader
  <1>3. l.initialised /\ l.id = i
    BY <1>2
  <1>4. l.addr \in Nat /\ l.len \in Nat
    BY <1>2, StoreConstants
  <1>5. NextAddress(l) = l.addr + l.len + 1 /\ NextAddress(l) \in Nat
    BY <1>4 DEF NextAddress
  <1>6. QED
    BY <1>1, <1>2, <1>3, <1>4, <1>5 DEF l, IsRule

\* A header on the list lies where the one before ends.
LEMMA HeaderOnList ==
  ASSUME NEW mem, NEW n \in Nat, NEW e \in FirstRule .. EndAddress, ListOk(mem, n, e),
         NEW i \in 0 .. n - 1
  PROVE  /\ GetRule(mem, i) = Header(mem, i, EndOf(mem, i))
         /\ EndOf(mem, i) \in FirstRule .. e - 1 /\ mem[EndOf(mem, i)] \in Byte \ {Erased}
         /\ EndOf(mem, i + 1) = EndOf(mem, i) + mem[EndOf(mem, i)] + 1
         /\ EndOf(mem, i + 1) \in FirstRule .. e
  <1> DEFINE l == GetRule(mem, i)
  <1>1. /\ l.addr \in FirstRule .. EndAddress /\ l.len \in Byte \ {Erased}
        /\ l.addr \in Nat /\ l.len \in Nat
        /\ NextAddress(l) = l.addr + l.len + 1 /\ NextAddress(l) <= e
    BY HeaderFields DEF IsRule
  <1>2. GetRule(mem, i) = Header(mem, i, EndOf(mem, i))
    <2>1. CASE i = 0
      BY <2>1, FirstHeader DEF EndOf
    <2>2. CASE i # 0
      <3>1. i - 1 \in 0 .. n - 1 /\ i - 1 \in Nat /\ (i - 1) + 1 = i
        BY <2>2
      <3>2. GetRule(mem, i - 1).initialised /\ GetRule(mem, i - 1).id = i - 1
        <4>1. IsRule(GetRule(mem, i - 1), i - 1, e)
          BY <3>1, HeaderFields
        <4>2. QED
          BY <4>1 DEF IsRule
      <3>3. GetRule(mem, i) = NextRule(mem, GetRule(mem, i - 1))
        BY <3>1, <3>2, NextHeader
      <3>4. QED
        BY <2>2, <3>1, <3>2, <3>3 DEF NextRule, EndOf
    <2>3. QED
      BY <2>1, <2>2
  <1>3. l.addr = EndOf(mem, i) /\ l.len = mem[EndOf(mem, i)]
    BY <1>2 DEF Header
  <1>4. EndOf(mem, i + 1) = NextAddress(l)
    BY DEF EndOf
  <1> HIDE DEF l
  <1>5. QED
    BY <1>1, <1>2, <1>3, <1>4, StoreConstants

\* A list that ends at or before e ends where its walk does.
LEMMA EndsOk ==
  ASSUME NEW mem, NEW n \in Nat, NEW e \in FirstRule .. EndAddress, ListOk(mem, n, e)
  PROVE  EndOf(mem, n) \in FirstRule .. e /\ ListOk(mem, n, EndOf(mem, n))
  <1> DEFINE S == {k \in Nat : k <= n => /\ EndOf(mem, k) \in FirstRule .. e
                                          /\ \A i \in 0 .. k : EndOf(mem, i) <= EndOf(mem, k)}
  <1>1. 0 \in S
    BY StoreConstants DEF EndOf
  <1>2. ASSUME NEW k \in S PROVE k + 1 \in S
    <2> SUFFICES ASSUME k + 1 <= n
                 PROVE  /\ EndOf(mem, k + 1) \in FirstRule .. e
                        /\ \A i \in 0 .. k + 1 : EndOf(mem, i) <= EndOf(mem, k + 1)
      OBVIOUS
    <2>1. k \in 0 .. n - 1
      OBVIOUS
    <2>2. /\ EndOf(mem, k) \in Int /\ mem[EndOf(mem, k)] \in Nat
          /\ EndOf(mem, k + 1) = EndOf(mem, k) + mem[EndOf(mem, k)] + 1
          /\ EndOf(mem, k + 1) \in FirstRule .. e
      <3>1. /\ EndOf(mem, k) \in FirstRule .. e - 1 /\ mem[EndOf(mem, k)] \in Byte \ {Erased}
            /\ EndOf(mem, k + 1) = EndOf(mem, k) + mem[EndOf(mem, k)] + 1
            /\ EndOf(mem, k + 1) \in FirstRule .. e
        BY <2>1, HeaderOnList, Zenon
      <3>2. QED
        BY <3>1, StoreConstants
    <2>3. \A i \in 0 .. k : EndOf(mem, i) <= EndOf(mem, k) /\ EndOf(mem, i) \in Int
      <3> SUFFICES ASSUME NEW i \in 0 .. k
                   PROVE  EndOf(mem, i) <= EndOf(mem, k) /\ EndOf(mem, i) \in Int
        OBVIOUS
      <3>1. i \in 0 .. n - 1
        BY <2>1
      <3>2. EndOf(mem, i) \in FirstRule .. e - 1
        BY <3>1, HeaderOnList
      <3>3. QED
        BY <2>1, <3>2, StoreConstants
    <2>4. QED
      BY <2>2, <2>3
  <1> HIDE DEF S
  <1>3. S = Nat
    <2>1. S \in SUBSET Nat
      BY DEF S
    <2>2. QED
      BY <1>1, <1>2, <2>1, NatSetInduction
  <1>4. /\ EndOf(mem, n) \in FirstRule .. e
        /\ \A i \in 0 .. n : EndOf(mem, i) <= EndOf(mem, n)
    BY <1>3 DEF S
  <1>5. ASSUME NEW i \in 0 .. n - 1 PROVE NextAddress(GetRule(mem, i)) <= EndOf(mem, n)
    <2>1. EndOf(mem, i + 1) = NextAddress(GetRule(mem, i)) /\ i + 1 \in 0 .. n
      BY DEF EndOf
    <2>2. QED
      BY <1>4, <2>1
  <1>6. QED
    BY <1>4, <1>5 DEF ListOk

\* A memory that agrees up to e holds the same list.
LEMMA SameHeaders ==
  ASSUME NEW mem, NEW mem2, NEW n \in Nat, NEW e \in FirstRule .. EndAddress, ListOk(mem, n, e),
         \A a \in FirstRule .. e - 1 : mem2[a] = mem[a]
  PROVE  \A i \in 0 .. n - 1 : GetRule(mem2, i) = GetRule(mem, i)
  <1> DEFINE S == {k \in Nat : k < n => GetRule(mem2, k) = GetRule(mem, k)}
  <1>1. 0 \in S
    <2> SUFFICES ASSUME 0 < n PROVE GetRule(mem2, 0) = GetRule(mem, 0)
      OBVIOUS
    <2>1. mem2[EndOf(mem, 0)] = mem[EndOf(mem, 0)]
      BY HeaderOnList
    <2>2. QED
      BY <2>1, FirstHeader DEF EndOf, Header
  <1>2. ASSUME NEW k \in S PROVE k + 1 \in S
    <2> SUFFICES ASSUME k + 1 < n PROVE GetRule(mem2, k + 1) = GetRule(mem, k + 1)
      OBVIOUS
    <2>1. k \in 0 .. n - 1 /\ k + 1 \in 0 .. n - 1 /\ GetRule(mem2, k) = GetRule(mem, k)
      OBVIOUS
    <2>2. mem2[EndOf(mem, k + 1)] = mem[EndOf(mem, k + 1)]
      BY <2>1, HeaderOnList
    <2>3. GetRule(mem, k).initialised
      BY <2>1, HeaderFields DEF IsRule
    <2>4. /\ GetRule(mem, k + 1) = NextRule(mem, GetRule(mem, k))
          /\ GetRule(mem2, k + 1) = NextRule(mem2, GetRule(mem, k))
      BY <2>1, <2>3, NextHeader
    <2>5. EndOf(mem, k + 1) = NextAddress(GetRule(mem, k))
      BY DEF EndOf
    <2>6. QED
      BY <2>2, <2>4, <2>5 DEF NextRule, Header
  <1> HIDE DEF S
  <1>3. S = Nat
    <2>1. S \in SUBSET Nat
      BY DEF S
    <2>2. QED
      BY <1>1, <1>2, <2>1, NatSetInduction
  <1>4. QED
    BY <1>3 DEF S

LEMMA SameRules ==
  ASSUME NEW mem, NEW mem2, NEW n \in Nat, NEW e \in FirstRule .. EndAddress, ListOk(mem, n, e),
         \A a \in FirstRule .. e - 1 : mem2[a] = mem[a]
  PROVE  /\ ListOk(mem2, n, e) /\ EndOf(mem2, n) = EndOf(mem, n)
         /\ RulesIn(mem2, n) = RulesIn(mem, n)
  <1>1. \A i \in 0 .. n - 1 : GetRule(mem2, i) = GetRule(mem, i)
    BY SameHeaders
  <1>2. ListOk(mem2, n, e)
    BY <1>1 DEF ListOk
  <1>3. EndOf(mem2, n) = EndOf(mem, n)
    BY <1>1 DEF EndOf
  <1>4. ASSUME NEW i \in 1 .. n
        PROVE  Data(mem2, GetRule(mem2, i - 1)) = Data(mem, GetRule(mem, i - 1))
    <2> DEFINE l == GetRule(mem, i - 1)
    <2>1. i - 1 \in 0 .. n - 1
      OBVIOUS
    <2>2. GetRule(mem2, i - 1) = l
      BY <1>1, <2>1
    <2>3. l.addr \in FirstRule .. EndAddress /\ l.len \in Nat /\ l.addr + l.len + 1 <= e
      <3>1. IsRule(l, i - 1, e)
        BY <2>1, HeaderFields
      <3>2. QED
        BY <3>1 DEF IsRule
    <2> HIDE DEF l
    <2>4. \A j \in 1 .. l.len : l.addr + j \in FirstRule .. e - 1
      BY <2>3, StoreConstants
    <2>5. Data(mem2, l) = Data(mem, l)
      BY <2>4 DEF Data
    <2>6. QED
      BY <2>2, <2>5 DEF l
  <1>5. RulesIn(mem2, n) = RulesIn(mem, n)
    BY <1>4 DEF RulesIn
  <1>6. QED
    BY <1>2, <1>3, <1>5

\* A length byte and its data at the end of the list make it one rule longer.
LEMMA LongerList ==
  ASSUME NEW mem, NEW n \in Nat, NEW e \in FirstRule .. EndAddress, ListOk(mem, n, e),
         EndOf(mem, n) = e, NEW r \in Rules, mem[e] = Len(r), e + Len(r) + 1 <= EndAddress,
         \A i \in 1 .. Len(r) : mem[e + i] = r[i]
  PROVE  /\ ListOk(mem, n + 1, e + Len(r) + 1)
         /\ EndOf(mem, n + 1) = e + Len(r) + 1
         /\ RulesIn(mem, n + 1) = Append(RulesIn(mem, n), r)
  <1>1. r \in Seq(Byte) /\ Len(r) \in Byte \ {Erased} /\ Len(r) \in Nat /\ Erased \in Byte
    BY RulesAssumption, GeometryAssumption
  <1>2. GetRule(mem, n) = Header(mem, n, e)
    <2>1. CASE n = 0
      BY <2>1, FirstHeader DEF EndOf
    <2>2. CASE n # 0
      <3>1. n - 1 \in 0 .. n - 1 /\ n - 1 \in Nat /\ (n - 1) + 1 = n
        BY <2>2
      <3>2. GetRule(mem, n - 1).initialised /\ GetRule(mem, n - 1).id = n - 1
        <4>1. IsRule(GetRule(mem, n - 1), n - 1, e)
          BY <3>1, HeaderFields
        <4>2. QED
          BY <4>1 DEF IsRule
      <3>3. GetRule(mem, n) = NextRule(mem, GetRule(mem, n - 1))
        BY <3>1, <3>2, NextHeader
      <3>4. QED
        BY <2>2, <3>1, <3>2, <3>3 DEF NextRule, EndOf
    <2>3. QED
      BY <2>1, <2>2
  <1>3. GetRule(mem, n) = [initialised |-> TRUE, id |-> n, addr |-> e, len |-> Len(r)]
    BY <1>1, <1>2 DEF Header
  <1>4. NextAddress(GetRule(mem, n)) = e + Len(r) + 1
    BY <1>3 DEF NextAddress
  <1>5. EndOf(mem, n + 1) = e + Len(r) + 1
    BY <1>4 DEF EndOf
  <1>6. ListOk(mem, n + 1, e + Len(r) + 1)
    <2> SUFFICES ASSUME NEW i \in 0 .. n
                 PROVE  /\ GetRule(mem, i) \in RuleHeader(i)
                        /\ NextAddress(GetRule(mem, i)) <= e + Len(r) + 1
      BY DEF ListOk
    <2>1. CASE i = n
      <3>1. e \in FirstRule .. EndAddress /\ Len(r) \in Byte \ {Erased}
        BY <1>1
      <3>2. GetRule(mem, n) \in RuleHeader(n)
        BY <1>3, <3>1 DEF RuleHeader
      <3>3. QED
        BY <1>1, <1>4, <2>1, <3>2, StoreConstants
    <2>2. CASE i \in 0 .. n - 1
      <3>1. NextAddress(GetRule(mem, i)) <= e /\ NextAddress(GetRule(mem, i)) \in Nat
        BY <2>2, HeaderFields, StoreConstants DEF IsRule
      <3>2. QED
        BY <1>1, <2>2, <3>1, StoreConstants DEF ListOk
    <2>3. QED
      BY <2>1, <2>2
  <1>7. Data(mem, GetRule(mem, n)) = r
    <2>1. r = [i \in 1 .. Len(r) |-> r[i]]
      BY <1>1
    <2>2. QED
      BY <1>3, <2>1 DEF Data
  <1>8. RulesIn(mem, n + 1) = Append(RulesIn(mem, n), r)
    <2> DEFINE d == [i \in Nat |-> Data(mem, GetRule(mem, i - 1))]
    <2>1. RulesIn(mem, n + 1) = [i \in 1 .. n + 1 |-> d[i]] /\ RulesIn(mem, n) = [i \in 1 .. n |-> d[i]]
      BY DEF RulesIn
    <2>2. d[n + 1] = r
      BY <1>7
    <2> HIDE DEF d
    <2>3. Len([i \in 1 .. n |-> d[i]]) = n
      OBVIOUS
    <2>4. QED
      BY <2>1, <2>2, <2>3
  <1>9. QED
    BY <1>5, <1>6, <1>8

-----------------------------------------------------------------------------
(* What a step of the driver does to what reads return and to what a restart would find. *)

LEMMA NothingMoved ==
  ASSUME UNCHANGED <<nvm, buffer, row, dirty, page>>
  PROVE  /\ Content' = Content /\ Durable' = Durable
         /\ DriverTypes => DriverTypes'
         /\ BufferAgrees => BufferAgrees'
  <1>1. Content' = Content
    BY DEF Content
  <1>2. QED
    BY <1>1 DEF Durable, Flushing, DriverTypes, BufferAgrees, Programmed

LEMMA CleanDurable ==
  ASSUME DriverTypes, BufferAgrees, ~dirty
  PROVE  Content = nvm /\ Durable = Content /\ ~Flushing
  BY CleanIsSaved DEF Durable, BufferAgrees

\* A row being saved counts as saved from its erase on.
LEMMA EraseSaves ==
  ASSUME DriverTypes, BufferAgrees, EraseRow
  PROVE  Content' = Content /\ Durable' = Content
  BY EraseRowStep DEF Durable

LEMMA ProgramKeeps ==
  ASSUME DriverTypes, BufferAgrees, ProgramPage
  PROVE  Content' = Content /\ Durable' = Durable /\ Durable = Content
  <1>1. Flushing
    BY DEF ProgramPage
  <1>2. Durable' = Content
    BY ProgramPageStep DEF Durable
  <1>3. QED
    BY <1>1, <1>2, ProgramPageStep DEF Durable

LEMMA LoadKeeps ==
  ASSUME DriverTypes, BufferAgrees, LoadRow, call.at \in Addr
  PROVE  Content' = Content /\ Durable' = Durable
  <1>1. ~Flushing /\ ~Flushing' /\ nvm' = nvm
    BY DEF LoadRow, Flushing
  <1>2. QED
    BY <1>1, LoadRowStep DEF Durable

LEMMA CopyKeepsDurable ==
  ASSUME Copy PROVE Durable' = Durable
  BY DEF Copy, Durable, Flushing

LEMMA WriteOf ==
  ASSUME NEW a, NEW data
  PROVE  /\ WriteCall(a, data).op = "write"
         /\ WriteCall(a, data).at = a /\ WriteCall(a, data).data = data
         /\ FlushCall.op = "flush" /\ Idle.op = "none"
         /\ WriteCall(a, data) # Idle /\ FlushCall # Idle
  <1>1. /\ WriteCall(a, data).op = "write" /\ FlushCall.op = "flush" /\ Idle.op = "none"
        /\ WriteCall(a, data).at = a /\ WriteCall(a, data).data = data
    BY DEF WriteCall, FlushCall, Idle
  <1>2. QED
    BY <1>1

-----------------------------------------------------------------------------
(* The operation in progress. *)

AddProgress(r, next) ==
  /\ doing = [op |-> "add", rule |-> r, next |-> next]
  /\ Adding(r)
  /\ \A a \in Addr : a < newAddr => Durable[a] = Content[a]

CountProgress(op, next) ==
  /\ doing = [op |-> op, next |-> next]
  /\ op = "clear" => count = 0
  /\ Counting
  /\ \A a \in Addr \ {CountAddress} : Durable[a] = Content[a]

LEMMA InProgress ==
  Progress <=> \/ doing = NoOp /\ call = Idle /\ ~dirty
               \/ \E r \in Rules, next \in {"data", "flush", "done"} : AddProgress(r, next)
               \/ \E op \in {"save", "clear"}, next \in {"flush", "done"} : CountProgress(op, next)
  BY DEF Progress, AddProgress, CountProgress

LEMMA AddInProgress ==
  ASSUME Progress, doing.op = "add"
  PROVE  \E r \in Rules, next \in {"data", "flush", "done"} : AddProgress(r, next)
  BY InProgress DEF NoOp, CountProgress

LEMMA CountInProgress ==
  ASSUME Progress, doing.op \in {"save", "clear"}
  PROVE  \E next \in {"flush", "done"} : CountProgress(doing.op, next)
  BY InProgress DEF NoOp, AddProgress, CountProgress

\* The addresses an addition writes to.
LEMMA AddAddresses ==
  ASSUME ListInv, NEW r \in Rules, Adding(r)
  PROVE  /\ newAddr \in Addr /\ newAddr + 1 \in Addr /\ newAddr \in Nat
         /\ <<Len(r)>> \in Seq(Byte) /\ r \in Seq(Byte) /\ Len(r) \in Nat
         /\ \A i \in 1 .. Len(r) : newAddr + i \in Addr
         /\ newAddr + 1 + Len(r) <= EndAddress
  <1>1. Len(r) \in Nat /\ Len(r) # 0 /\ r \in Seq(Byte) /\ Len(r) \in Byte
    BY RulesAssumption
  <1>2. newAddr \in FirstRule .. EndAddress /\ newAddr + 1 + Len(r) <= EndAddress
    BY DEF ListInv, Adding
  <1>3. QED
    BY <1>1, <1>2, StoreConstants

LEMMA CountByte ==
  ASSUME ListInv
  PROVE  /\ CountAddress \in Addr /\ count \in Byte \ {Erased} /\ <<count>> \in Seq(Byte)
  <1>1. count \in Byte \ {Erased}
    BY RulesAssumption DEF ListInv
  <1>2. QED
    BY <1>1, StoreConstants

-----------------------------------------------------------------------------
(* The two lists, from one step to the next. *)

\* Nothing changed below the first free address.
LEMMA ListKept ==
  ASSUME ListInv, UNCHANGED <<count, newAddr>>, doing'.op # "clear" => doing.op # "clear",
         \A a \in FirstRule .. newAddr - 1 : Content'[a] = Content[a],
         \A a \in 0 .. newAddr - 1 : Durable'[a] = Durable[a]
  PROVE  /\ ListInv'
         /\ RulesIn(Content, count)' = RulesIn(Content, count)
         /\ RulesIn(Durable, DurableCount)' = RulesIn(Durable, DurableCount)
  <1> DEFINE c == Content'
             d == Durable'
  <1>0. /\ count \in Nat /\ DurableCount \in Nat /\ newAddr \in FirstRule .. EndAddress
        /\ ListOk(Content, count, newAddr) /\ ListOk(Durable, DurableCount, newAddr)
    BY RulesAssumption DEF ListInv
  <1>1. CountAddress \in 0 .. newAddr - 1
    BY <1>0, StoreConstants
  <1>2. DurableCount' = DurableCount
    BY <1>1 DEF DurableCount
  <1>3. \A a \in FirstRule .. newAddr - 1 : c[a] = Content[a]
    OBVIOUS
  <1>4. \A a \in FirstRule .. newAddr - 1 : d[a] = Durable[a]
    BY StoreConstants
  <1> HIDE DEF c, d
  <1>5. /\ ListOk(c, count, newAddr) /\ EndOf(c, count) = EndOf(Content, count)
        /\ RulesIn(c, count) = RulesIn(Content, count)
    BY <1>0, <1>3, SameRules
  <1>6. /\ ListOk(d, DurableCount, newAddr)
        /\ RulesIn(d, DurableCount) = RulesIn(Durable, DurableCount)
    BY <1>0, <1>4, SameRules
  <1>7. ListInv'
    BY <1>2, <1>5, <1>6 DEF ListInv, c, d
  <1>8. QED
    BY <1>2, <1>5, <1>6, <1>7 DEF c, d

\* The memory with the new count becomes what a restart finds.
LEMMA ListSaved ==
  ASSUME ListInv, UNCHANGED <<count, newAddr, doing>>, Content' = Content, Durable' = Content,
         Content[CountAddress] = count
  PROVE  /\ ListInv'
         /\ RulesIn(Content, count)' = RulesIn(Content, count)
         /\ RulesIn(Durable, DurableCount)' = RulesIn(Content, count)
  <1>1. DurableCount' = count
    BY CountByte DEF DurableCount
  <1>2. ListInv'
    BY <1>1 DEF ListInv
  <1>3. QED
    BY <1>1, <1>2

\* The step moves no byte of the rules on the list.
RulesStay == \A a \in FirstRule .. newAddr - 1 : Content'[a] = Content[a]

Current   == RulesIn(Content, count)
Surviving == RulesIn(Durable, DurableCount)

-----------------------------------------------------------------------------
(* The steps of the driver: within an addition, and while the count is written. *)

LEMMA IdleMeansNoStep ==
  ASSUME BufferAgrees, call = Idle, ~dirty PROVE ~DriverStep
  BY DEF Idle, BufferAgrees, DriverStep, EraseRow, ProgramPage, Return, LoadRow, NeedsRow, Copy,
         CopyToEnd, CopyWrapped, EraseNext

LEMMA FittingWrite ==
  ASSUME NEW a \in Addr, NEW data \in Seq(Byte), Fits(a, data), call = WriteCall(a, data)
  PROVE  call.op = "write" /\ call.at \in Addr /\ call.data \in Seq(Byte) /\ Fits(call.at, call.data)
  BY WriteOf

\* The writes of the store fit their rows; it never calls read() or erase() outside them.
LEMMA StoreCalls ==
  ASSUME StoreInv, DriverStep
  PROVE  /\ EraseRow \/ ProgramPage \/ Return \/ LoadRow \/ Copy
         /\ call.op = "write" => call.at \in Addr /\ call.data \in Seq(Byte)
         /\ call \in {Idle, FlushCall} \/ call.op = "write"
  <1>1. /\ call \in {Idle, FlushCall} \/ call.op = "write"
        /\ call.op = "write" =>
             call.at \in Addr /\ call.data \in Seq(Byte) /\ Fits(call.at, call.data)
    <2>1. CASE doing = NoOp /\ call = Idle
      BY <2>1, WriteOf
    <2>2. ASSUME NEW r \in Rules, NEW next \in {"data", "flush", "done"}, AddProgress(r, next)
          PROVE  <1>1
      <3>1. ListInv /\ Adding(r)
        BY <2>2 DEF StoreInv, AddProgress
      <3>2. /\ newAddr \in Addr /\ newAddr + 1 \in Addr /\ <<Len(r)>> \in Seq(Byte)
            /\ r \in Seq(Byte)
        BY <3>1, AddAddresses
      <3>3. Fits(newAddr, <<Len(r)>>)
        <4>1. IndexOf(newAddr) \in 0 .. RowSize - 1 /\ RowSize \in Nat
          BY <3>2, Split, RowSizePositive DEF Index
        <4>2. Len(<<Len(r)>>) = 1
          OBVIOUS
        <4>3. QED
          BY <4>1, <4>2 DEF Fits
      <3>4. Fits(newAddr + 1, r)
        BY <3>1 DEF Adding
      <3>5. \/ call = WriteCall(newAddr, <<Len(r)>>) \/ call = WriteCall(newAddr + 1, r)
            \/ call = Idle \/ call = FlushCall
        BY <3>1 DEF Adding
      <3>6. CASE call = WriteCall(newAddr, <<Len(r)>>)
        BY <3>2, <3>3, <3>6, FittingWrite, Zenon
      <3>7. CASE call = WriteCall(newAddr + 1, r)
        BY <3>2, <3>4, <3>7, FittingWrite, Zenon
      <3>8. CASE call \in {Idle, FlushCall}
        BY <3>8, WriteOf
      <3>9. QED
        BY <3>5, <3>6, <3>7, <3>8
    <2>3. ASSUME NEW op \in {"save", "clear"}, NEW next \in {"flush", "done"},
                 CountProgress(op, next)
          PROVE  <1>1
      <3>1. CountAddress \in Addr /\ <<count>> \in Seq(Byte)
        BY CountByte DEF StoreInv
      <3>2. Fits(CountAddress, <<count>>)
        <4>1. IndexOf(CountAddress) \in 0 .. RowSize - 1 /\ RowSize \in Nat
          BY <3>1, Split, RowSizePositive DEF Index
        <4>2. Len(<<count>>) = 1
          OBVIOUS
        <4>3. QED
          BY <4>1, <4>2 DEF Fits
      <3>3. call = WriteCall(CountAddress, <<count>>) \/ call = Idle \/ call = FlushCall
        BY <2>3 DEF CountProgress, Counting
      <3>4. CASE call = WriteCall(CountAddress, <<count>>)
        BY <3>1, <3>2, <3>4, FittingWrite, Zenon
      <3>5. CASE call \in {Idle, FlushCall}
        BY <3>5, WriteOf
      <3>6. QED
        BY <3>3, <3>4, <3>5
    <2>4. QED
      BY <2>1, <2>2, <2>3, InProgress DEF StoreInv
  <1>2. ~CopyToEnd /\ ~CopyWrapped /\ ~EraseNext
    BY <1>1, WriteOf DEF CopyToEnd, CopyWrapped, EraseNext
  <1>3. QED
    BY <1>1, <1>2 DEF DriverStep

\* Steps that move no byte of the memory keep what an addition has put there.
LEMMA AddingKept ==
  ASSUME NEW r, Adding(r), Content' = Content, UNCHANGED <<count, newAddr, doing, call>>,
         ~dirty => ~dirty'
  PROVE  Adding(r)'
  BY DEF Adding, LengthPut, DataPut, Fits

LEMMA AddDriverStep ==
  ASSUME StoreInv, DriverStep, UNCHANGED managerVars,
         NEW r \in Rules, NEW next \in {"data", "flush", "done"}, AddProgress(r, next)
  PROVE  StoreInv' /\ RulesStay /\ Current' = Current /\ Surviving' = Surviving
  <1>0. /\ DriverTypes /\ BufferAgrees /\ ListInv /\ Adding(r)
        /\ UNCHANGED <<count, newAddr, doing>>
        /\ doing = [op |-> "add", rule |-> r, next |-> next]
        /\ \A a \in Addr : a < newAddr => Durable[a] = Content[a]
    BY DEF StoreInv, AddProgress, managerVars
  <1>00. /\ newAddr \in Addr /\ newAddr + 1 \in Addr /\ newAddr \in Nat
         /\ <<Len(r)>> \in Seq(Byte) /\ r \in Seq(Byte) /\ Len(r) \in Nat
         /\ \A i \in 1 .. Len(r) : newAddr + i \in Addr
         /\ \A a \in 0 .. newAddr - 1 : a \in Addr
    BY <1>0, AddAddresses, StoreConstants
  <1>1. ASSUME DriverTypes', BufferAgrees', Adding(r)',
               \A a \in Addr : a < newAddr => Content'[a] = Content[a],
               \A a \in Addr : a < newAddr => Durable'[a] = Durable[a]
        PROVE  StoreInv' /\ RulesStay /\ Current' = Current /\ Surviving' = Surviving
    <2>1. \A a \in FirstRule .. newAddr - 1 : Content'[a] = Content[a]
      BY <1>00, <1>1, StoreConstants
    <2>2. \A a \in 0 .. newAddr - 1 : Durable'[a] = Durable[a]
      BY <1>00, <1>1
    <2>3. ListInv' /\ Current' = Current /\ Surviving' = Surviving
      BY <1>0, <2>1, <2>2, ListKept DEF Current, Surviving
    <2>4. AddProgress(r, next)'
      BY <1>0, <1>1 DEF AddProgress
    <2>5. Progress'
      BY <2>4 DEF Progress, AddProgress
    <2>6. QED
      BY <1>1, <2>1, <2>3, <2>5 DEF StoreInv, RulesStay
  <1>2. CASE EraseRow
    <2>1. Content' = Content /\ Durable' = Content /\ DriverTypes' /\ BufferAgrees'
      BY <1>0, <1>2, EraseSaves, EraseRowStep
    <2>2. Adding(r)'
      BY <1>0, <1>2, <2>1, AddingKept DEF EraseRow
    <2>3. QED
      BY <1>0, <1>1, <2>1, <2>2
  <1>3. CASE ProgramPage
    <2>1. Content' = Content /\ Durable' = Durable /\ DriverTypes' /\ BufferAgrees' /\ dirty
      BY <1>0, <1>3, ProgramKeeps, ProgramPageStep DEF ProgramPage, BufferAgrees
    <2>2. Adding(r)'
      BY <1>0, <1>3, <2>1, AddingKept DEF ProgramPage
    <2>3. QED
      BY <1>1, <2>1, <2>2
  <1>4. CASE LoadRow
    <2>1. call.op = "write"
      BY <1>4 DEF LoadRow, NeedsRow
    <2>2. Content' = Content /\ Durable' = Durable /\ DriverTypes' /\ BufferAgrees'
      BY <1>0, <1>4, <2>1, StoreCalls, LoadKeeps, LoadRowStep
    <2>3. Adding(r)'
      BY <1>0, <1>4, <2>2, AddingKept DEF LoadRow
    <2>4. QED
      BY <1>1, <2>2, <2>3
  <1>5. CASE Return
    <2>1. Content' = Content /\ Durable' = Durable /\ DriverTypes' /\ BufferAgrees'
      <3>1. UNCHANGED <<nvm, buffer, row, dirty, page>>
        BY <1>5 DEF Return
      <3>2. QED
        BY <1>0, <3>1, NothingMoved
    <2>2. call.op \in {"flush", "read"} /\ call' = Idle /\ ~dirty /\ dirty' = dirty
      BY <1>5 DEF Return
    <2>3. doing.next = "done" /\ LengthPut(r) /\ DataPut(r)
      BY <1>0, <2>2, WriteOf DEF Adding
    <2>4. Adding(r)'
      BY <1>0, <2>1, <2>2, <2>3 DEF Adding, LengthPut, DataPut, Fits
    <2>5. QED
      BY <1>1, <2>1, <2>4
  <1>6. CASE Copy
    <2>1. call.op = "write" /\ call' = Idle
      BY <1>6 DEF Copy
    <2>2. /\ DriverTypes' /\ BufferAgrees' /\ Durable' = Durable
          /\ Content' = [x \in Addr |-> IF x - call.at + 1 \in DOMAIN call.data
                                        THEN call.data[x - call.at + 1] ELSE Content[x]]
      BY <1>0, <1>6, <2>1, StoreCalls, CopyStep, CopyKeepsDurable
    <2>0. WriteCall(newAddr, <<Len(r)>>).at # WriteCall(newAddr + 1, r).at
      <3>1. WriteCall(newAddr, <<Len(r)>>).at = newAddr /\ WriteCall(newAddr + 1, r).at = newAddr + 1
        BY WriteOf, Zenon
      <3>2. QED
        BY <1>00, <3>1
    <2>00. call # Idle /\ call # FlushCall
      BY <2>1, WriteOf
    <2>3. CASE call = WriteCall(newAddr, <<Len(r)>>)
      <3>1. doing.next = "data"
        BY <1>0, <2>0, <2>00, <2>3 DEF Adding
      <3>2. \A x \in Addr : Content'[x] = IF x = newAddr THEN Len(r) ELSE Content[x]
        <4>1. call.at = newAddr /\ call.data = <<Len(r)>>
          BY <2>3, WriteOf
        <4>2. \A x \in Addr : (x - newAddr + 1 \in DOMAIN <<Len(r)>>) <=> x = newAddr
          BY <1>00, StoreConstants
        <4>3. newAddr - newAddr + 1 = 1 /\ <<Len(r)>>[1] = Len(r)
          BY <1>00
        <4>4. QED
          BY <2>2, <4>1, <4>2, <4>3
      <3>3. LengthPut(r)'
        BY <1>0, <1>00, <3>2 DEF LengthPut
      <3>4. Adding(r)'
        BY <1>0, <2>1, <3>1, <3>3 DEF Adding, Fits
      <3>5. \A a \in Addr : a < newAddr => Content'[a] = Content[a]
        BY <1>00, <3>2, StoreConstants
      <3>6. QED
        BY <1>1, <2>2, <3>4, <3>5
    <2>4. CASE call = WriteCall(newAddr + 1, r)
      <3>1. doing.next = "flush" /\ LengthPut(r)
        BY <1>0, <2>0, <2>00, <2>4 DEF Adding
      <3>2. \A x \in Addr : Content'[x] = IF x - newAddr \in 1 .. Len(r)
                                          THEN r[x - newAddr] ELSE Content[x]
        <4>1. call.at = newAddr + 1 /\ call.data = r
          BY <2>4, WriteOf
        <4>2. \A x \in Addr : x - (newAddr + 1) + 1 = x - newAddr
          BY <1>00, StoreConstants
        <4>3. DOMAIN r = 1 .. Len(r)
          BY <1>00
        <4>4. QED
          BY <2>2, <4>1, <4>2, <4>3
      <3>3. LengthPut(r)'
        BY <1>0, <1>00, <3>1, <3>2 DEF LengthPut
      <3>4. DataPut(r)'
        <4>1. \A i \in 1 .. Len(r) : (newAddr + i) - newAddr = i
          BY <1>00
        <4>2. QED
          BY <1>0, <1>00, <3>2, <4>1 DEF DataPut
      <3>5. Adding(r)'
        BY <1>0, <2>1, <3>1, <3>3, <3>4 DEF Adding, Fits
      <3>6. \A a \in Addr : a < newAddr => Content'[a] = Content[a]
        <4>1. \A a \in Addr : a < newAddr => ~(a - newAddr \in 1 .. Len(r))
          BY <1>00, StoreConstants
        <4>2. QED
          BY <3>2, <4>1
      <3>7. QED
        BY <1>1, <2>2, <3>5, <3>6
    <2>5. QED
      BY <1>0, <2>1, <2>3, <2>4, WriteOf DEF Adding
  <1>7. QED
    BY <1>2, <1>3, <1>4, <1>5, <1>6, StoreCalls

LEMMA CountDriverStep ==
  ASSUME StoreInv, DriverStep, UNCHANGED managerVars,
         NEW op \in {"save", "clear"}, NEW next \in {"flush", "done"}, CountProgress(op, next)
  PROVE  StoreInv' /\ RulesStay /\ Current' = Current /\ Surviving' \in {Surviving, Current}
  <1>0. /\ DriverTypes /\ BufferAgrees /\ ListInv /\ Counting
        /\ UNCHANGED <<count, newAddr, doing>>
        /\ doing = [op |-> op, next |-> next] /\ (op = "clear" => count = 0)
        /\ \A a \in Addr \ {CountAddress} : Durable[a] = Content[a]
    BY DEF StoreInv, CountProgress, managerVars
  <1>1. ASSUME Counting', \A a \in Addr \ {CountAddress} : Durable'[a] = Content'[a]
        PROVE  Progress'
    <2>1. CountProgress(op, next)'
      BY <1>0, <1>1 DEF CountProgress
    <2>2. QED
      BY <2>1 DEF Progress, CountProgress
  <1>2. ASSUME DriverTypes', BufferAgrees', Counting', Durable' = Durable,
               \A a \in Addr \ {CountAddress} : Content'[a] = Content[a]
        PROVE  StoreInv' /\ RulesStay /\ Current' = Current /\ Surviving' \in {Surviving, Current}
    <2>1. \A a \in FirstRule .. newAddr - 1 : a \in Addr \ {CountAddress}
      BY <1>0, StoreConstants DEF ListInv
    <2>2. ListInv' /\ Current' = Current /\ Surviving' = Surviving
      BY <1>0, <1>2, <2>1, ListKept DEF Current, Surviving
    <2>3. QED
      BY <1>0, <1>1, <1>2, <2>1, <2>2 DEF StoreInv, RulesStay
  <1>3. CASE EraseRow
    <2>1. Content' = Content /\ Durable' = Content /\ DriverTypes' /\ BufferAgrees'
      BY <1>0, <1>3, EraseSaves, EraseRowStep
    <2>2. dirty /\ dirty' = dirty /\ call' = call /\ call # Idle
      BY <1>3, WriteOf DEF EraseRow, NeedsRow
    <2>3. Content[CountAddress] = count
      BY <1>0, <2>2 DEF Counting
    <2>4. Counting'
      BY <1>0, <2>1, <2>2 DEF Counting
    <2>5. ListInv' /\ Current' = Current /\ Surviving' = Current
      BY <1>0, <2>1, <2>3, ListSaved DEF Current, Surviving
    <2>6. Progress'
      BY <1>1, <2>1, <2>4
    <2>7. QED
      BY <2>1, <2>5, <2>6 DEF StoreInv, RulesStay
  <1>4. CASE ProgramPage
    <2>1. Content' = Content /\ Durable' = Durable /\ DriverTypes' /\ BufferAgrees' /\ dirty
      BY <1>0, <1>4, ProgramKeeps, ProgramPageStep DEF ProgramPage, BufferAgrees
    <2>2. Counting'
      BY <1>0, <1>4, <2>1 DEF Counting, ProgramPage
    <2>3. QED
      BY <1>2, <2>1, <2>2
  <1>5. CASE LoadRow
    <2>1. call.op = "write"
      BY <1>5 DEF LoadRow, NeedsRow
    <2>2. Content' = Content /\ Durable' = Durable /\ DriverTypes' /\ BufferAgrees'
      BY <1>0, <1>5, <2>1, StoreCalls, LoadKeeps, LoadRowStep
    <2>3. Counting'
      BY <1>0, <1>5, <2>2 DEF Counting, LoadRow
    <2>4. QED
      BY <1>2, <2>2, <2>3
  <1>6. CASE Return
    <2>1. Content' = Content /\ Durable' = Durable /\ DriverTypes' /\ BufferAgrees'
      <3>1. UNCHANGED <<nvm, buffer, row, dirty, page>>
        BY <1>6 DEF Return
      <3>2. QED
        BY <1>0, <3>1, NothingMoved
    <2>2. call.op \in {"flush", "read"} /\ call' = Idle /\ ~dirty /\ dirty' = dirty
      BY <1>6 DEF Return
    <2>3. doing.next = "done" /\ Content[CountAddress] = count
      BY <1>0, <2>2, WriteOf DEF Counting
    <2>4. Counting'
      BY <1>0, <2>1, <2>2, <2>3 DEF Counting
    <2>5. QED
      BY <1>2, <2>1, <2>4
  <1>7. CASE Copy
    <2>1. call.op = "write" /\ call' = Idle
      BY <1>7 DEF Copy
    <2>2. /\ DriverTypes' /\ BufferAgrees' /\ Durable' = Durable
          /\ Content' = [x \in Addr |-> IF x - call.at + 1 \in DOMAIN call.data
                                        THEN call.data[x - call.at + 1] ELSE Content[x]]
      BY <1>0, <1>7, <2>1, StoreCalls, CopyStep, CopyKeepsDurable
    <2>3. call = WriteCall(CountAddress, <<count>>) /\ doing.next = "flush"
      BY <1>0, <2>1, WriteOf DEF Counting
    <2>4. call.at = 0 /\ call.data = <<count>> /\ CountAddress = 0 /\ CountAddress \in Addr
      BY <1>0, <2>3, WriteOf, StoreConstants, CountByte
    <2>5. \A x \in Addr : Content'[x] = IF x = CountAddress THEN count ELSE Content[x]
      <3>1. \A x \in Addr : (x - 0 + 1 \in DOMAIN <<count>>) <=> x = 0
        BY StoreConstants
      <3>2. 0 - 0 + 1 = 1 /\ <<count>>[1] = count
        OBVIOUS
      <3>3. QED
        BY <2>2, <2>4, <3>1, <3>2
    <2>6. Counting'
      BY <1>0, <2>1, <2>3, <2>4, <2>5 DEF Counting
    <2>7. QED
      BY <1>2, <2>2, <2>5, <2>6
  <1>8. QED
    BY <1>3, <1>4, <1>5, <1>6, <1>7, StoreCalls

\* A step of the driver is invisible in the list, or saves it.
LEMMA DriverKeeps ==
  ASSUME StoreInv, DriverStep, UNCHANGED managerVars
  PROVE  StoreInv' /\ RulesStay /\ Current' = Current /\ Surviving' \in {Surviving, Current}
  <1>1. ~(call = Idle /\ ~dirty)
    BY IdleMeansNoStep DEF StoreInv
  <1>2. \/ \E r \in Rules, next \in {"data", "flush", "done"} : AddProgress(r, next)
        \/ \E op \in {"save", "clear"}, next \in {"flush", "done"} : CountProgress(op, next)
    BY <1>1, InProgress DEF StoreInv
  <1>3. QED
    BY <1>2, AddDriverStep, CountDriverStep

-----------------------------------------------------------------------------
(* The operations of the manager. *)

LEMMA NotInProgress ==
  ASSUME StoreInv, doing = NoOp
  PROVE  /\ call = Idle /\ ~dirty /\ Durable = Content /\ Content = nvm
         /\ EndOf(Content, count) = newAddr
  <1>1. doing.op = "none"
    BY DEF NoOp
  <1>2. call = Idle /\ ~dirty
    BY <1>1, InProgress DEF StoreInv, AddProgress, CountProgress
  <1>3. QED
    BY <1>1, <1>2, CleanDurable DEF StoreInv, ListInv

LEMMA ListStill ==
  ASSUME ListInv, Content' = Content, Durable' = Durable, UNCHANGED <<count, newAddr>>,
         doing'.op # "clear" => doing.op # "clear"
  PROVE  ListInv' /\ Current' = Current /\ Surviving' = Surviving
  BY ListKept DEF Current, Surviving

\* An operation that only makes a driver call.
LEMMA CallStarts ==
  ASSUME StoreInv, UNCHANGED <<nvm, buffer, row, dirty, page, count, newAddr>>,
         doing'.op # "clear" => doing.op # "clear", Progress'
  PROVE  StoreInv' /\ Current' = Current /\ Surviving' = Surviving
  <1>1. /\ DriverTypes' /\ BufferAgrees' /\ Content' = Content /\ Durable' = Durable
    BY NothingMoved DEF StoreInv
  <1>2. QED
    BY <1>1, ListStill DEF StoreInv

LEMMA AddStarts ==
  ASSUME StoreInv, NEW r \in Rules, AddNewRule(r)
  PROVE  StoreInv' /\ Current' = Current /\ Surviving' = Surviving
  <1>1. /\ doing = NoOp /\ UNCHANGED <<nvm, buffer, row, dirty, page, count, newAddr>>
        /\ doing' = [op |-> "add", rule |-> r, next |-> "data"]
        /\ call' = WriteCall(newAddr, <<Len(r)>>)
        /\ newAddr + 1 + Len(r) <= EndAddress /\ Fits(newAddr + 1, r) /\ count < MaxRules
    BY DEF AddNewRule, Ready, Write, WriteCall
  <1>2. ~dirty /\ Durable = Content
    BY <1>1, NotInProgress
  <1>3. Content' = Content /\ Durable' = Durable
    BY <1>1, NothingMoved
  <1>4. Adding(r)'
    BY <1>1, <1>2 DEF Adding, Fits, WriteCall
  <1>5. Progress'
    BY <1>1, <1>2, <1>3, <1>4 DEF Progress
  <1>6. doing.op # "clear"
    BY <1>1 DEF NoOp
  <1>7. QED
    BY <1>1, <1>5, <1>6, CallStarts

LEMMA AddContinues ==
  ASSUME StoreInv, AddData
  PROVE  StoreInv' /\ Current' = Current /\ Surviving' = Surviving
  <1>1. /\ doing.op = "add" /\ doing.next = "data" /\ call = Idle
        /\ UNCHANGED <<nvm, buffer, row, dirty, page, count, newAddr>>
        /\ doing' = [doing EXCEPT !.next = "flush"]
        /\ call' = WriteCall(newAddr + 1, doing.rule)
    BY DEF AddData, Write, WriteCall
  <1>2. PICK r \in Rules, next \in {"data", "flush", "done"} : AddProgress(r, next)
    BY <1>1, AddInProgress DEF StoreInv
  <1>3. /\ doing = [op |-> "add", rule |-> r, next |-> next] /\ Adding(r)
        /\ \A a \in Addr : a < newAddr => Durable[a] = Content[a]
    BY <1>2 DEF AddProgress
  <1>4. doing' = [op |-> "add", rule |-> r, next |-> "flush"] /\ call' = WriteCall(newAddr + 1, r)
    BY <1>1, <1>3
  <1>5. Content' = Content /\ Durable' = Durable
    BY <1>1, NothingMoved
  <1>6. Adding(r)'
    <2>1. LengthPut(r)
      BY <1>1, <1>3, WriteOf DEF Adding
    <2>2. QED
      BY <1>1, <1>3, <1>4, <1>5, <2>1 DEF Adding, LengthPut, Fits, WriteCall
  <1>7. Progress'
    BY <1>1, <1>3, <1>4, <1>5, <1>6 DEF Progress
  <1>8. QED
    BY <1>1, <1>7, CallStarts

LEMMA Flushes ==
  ASSUME StoreInv, DoFlush
  PROVE  StoreInv' /\ Current' = Current /\ Surviving' = Surviving
  <1>1. /\ doing # NoOp /\ doing.next = "flush" /\ call = Idle
        /\ UNCHANGED <<nvm, buffer, row, dirty, page, count, newAddr>>
        /\ doing' = [doing EXCEPT !.next = "done"] /\ call' = FlushCall
    BY DEF DoFlush, Flush, FlushCall
  <1>2. Content' = Content /\ Durable' = Durable
    BY <1>1, NothingMoved
  <1>3. ASSUME NEW r \in Rules, NEW next \in {"data", "flush", "done"}, AddProgress(r, next)
        PROVE  Progress' /\ doing'.op = doing.op
    <2>1. /\ doing = [op |-> "add", rule |-> r, next |-> next] /\ Adding(r)
          /\ \A a \in Addr : a < newAddr => Durable[a] = Content[a]
      BY <1>3 DEF AddProgress
    <2>2. doing' = [op |-> "add", rule |-> r, next |-> "done"]
      BY <1>1, <2>1
    <2>3. Adding(r)'
      <3>1. LengthPut(r) /\ DataPut(r)
        BY <1>1, <2>1, WriteOf DEF Adding
      <3>2. QED
        BY <1>1, <1>2, <2>1, <2>2, <3>1 DEF Adding, LengthPut, DataPut, Fits, FlushCall
    <2>4. QED
      BY <1>1, <1>2, <2>1, <2>2, <2>3 DEF Progress
  <1>4. ASSUME NEW op \in {"save", "clear"}, NEW next \in {"flush", "done"},
               CountProgress(op, next)
        PROVE  Progress' /\ doing'.op = doing.op
    <2>1. /\ doing = [op |-> op, next |-> next] /\ (op = "clear" => count = 0) /\ Counting
          /\ \A a \in Addr \ {CountAddress} : Durable[a] = Content[a]
      BY <1>4 DEF CountProgress
    <2>2. doing' = [op |-> op, next |-> "done"]
      BY <1>1, <2>1
    <2>3. Counting'
      <3>1. Content[CountAddress] = count
        BY <1>1, <2>1, WriteOf DEF Counting
      <3>2. QED
        BY <1>1, <1>2, <2>2, <3>1 DEF Counting, FlushCall
    <2>4. QED
      BY <1>1, <1>2, <2>1, <2>2, <2>3 DEF Progress
  <1>5. Progress' /\ doing'.op = doing.op
    BY <1>1, <1>3, <1>4, InProgress DEF StoreInv
  <1>6. QED
    BY <1>1, <1>5, CallStarts

\* The count in RAM goes up when the rule is all in flash: the list is one rule longer.
LEMMA AddEnds ==
  ASSUME StoreInv, Added
  PROVE  /\ StoreInv' /\ Surviving' = Surviving
         /\ \E r \in Rules : Current' = Append(Current, r)
  <1>1. /\ doing.op = "add" /\ doing.next = "done" /\ call = Idle
        /\ count' = (count + 1) % 256 /\ newAddr' = newAddr + Len(doing.rule) + 1
        /\ doing' = NoOp /\ UNCHANGED <<nvm, buffer, row, dirty, page, call>>
    BY DEF Added, driverVars
  <1>2. PICK r \in Rules, next \in {"data", "flush", "done"} : AddProgress(r, next)
    BY <1>1, AddInProgress DEF StoreInv
  <1>3. doing.rule = r /\ Adding(r)
    BY <1>2 DEF AddProgress
  <1>4. LengthPut(r) /\ DataPut(r) /\ ~dirty
    BY <1>1, <1>3, WriteOf DEF Adding
  <1>5. /\ count \in 0 .. MaxRules - 1 /\ MaxRules \in Nat /\ MaxRules <= 255
        /\ newAddr + 1 + Len(r) <= EndAddress /\ newAddr \in FirstRule .. EndAddress
        /\ Len(r) \in Nat
    <2>1. MaxRules \in 0 .. MaxRules /\ MaxRules \in Nat
      BY RulesAssumption
    <2>2. MaxRules <= 255
      BY <2>1, RulesAssumption, StoreConstants
    <2>3. QED
      BY <1>3, <2>1, <2>2, AddAddresses DEF StoreInv, ListInv, Adding
  <1>6. count' = count + 1 /\ newAddr' = newAddr + Len(r) + 1
    BY <1>1, <1>3, <1>5
  <1>7. /\ DriverTypes' /\ BufferAgrees' /\ Content' = Content /\ Durable' = Durable
        /\ Durable = Content
    BY <1>1, <1>4, NothingMoved, CleanDurable DEF StoreInv
  <1>8. /\ ListOk(Content, count + 1, newAddr + Len(r) + 1)
        /\ EndOf(Content, count + 1) = newAddr + Len(r) + 1
        /\ RulesIn(Content, count + 1) = Append(RulesIn(Content, count), r)
    <2>1. /\ ListOk(Content, count, newAddr) /\ EndOf(Content, count) = newAddr
          /\ Content[newAddr] = Len(r) /\ \A i \in 1 .. Len(r) : Content[newAddr + i] = r[i]
      BY <1>1, <1>4 DEF StoreInv, ListInv, LengthPut, DataPut
    <2>2. count \in Nat /\ newAddr + Len(r) + 1 <= EndAddress
      BY <1>5, StoreConstants
    <2>3. QED
      BY <1>5, <2>1, <2>2, LongerList
  <1>9. DurableCount' = DurableCount
    BY <1>7 DEF DurableCount
  <1>10. ListOk(Durable, DurableCount, newAddr + Len(r) + 1)
    <2>1. /\ ListOk(Durable, DurableCount, newAddr) /\ DurableCount \in Nat
      BY RulesAssumption DEF StoreInv, ListInv
    <2>2. ASSUME NEW i \in 0 .. DurableCount - 1
          PROVE  NextAddress(GetRule(Durable, i)) <= newAddr + Len(r) + 1
      <3>1. IsRule(GetRule(Durable, i), i, newAddr)
        BY <2>1, <2>2, HeaderFields
      <3>2. NextAddress(GetRule(Durable, i)) \in Nat /\ NextAddress(GetRule(Durable, i)) <= newAddr
        BY <3>1 DEF IsRule
      <3>3. QED
        BY <1>5, <3>2, StoreConstants
    <2>3. QED
      BY <2>1, <2>2 DEF ListOk
  <1>11. newAddr + Len(r) + 1 \in FirstRule .. EndAddress
    BY <1>5, StoreConstants
  <1>12. ListInv'
    BY <1>5, <1>6, <1>7, <1>8, <1>9, <1>10, <1>11 DEF ListInv, StoreInv
  <1>13. Progress'
    BY <1>1, <1>4 DEF Progress
  <1>14. QED
    BY <1>6, <1>7, <1>8, <1>9, <1>12, <1>13 DEF StoreInv, Current, Surviving

LEMMA SaveStarts ==
  ASSUME StoreInv, SaveRuleCount
  PROVE  StoreInv' /\ Current' = Current /\ Surviving' = Surviving
  <1>1. /\ doing = NoOp /\ UNCHANGED <<nvm, buffer, row, dirty, page, count, newAddr>>
        /\ doing' = [op |-> "save", next |-> "flush"]
        /\ call' = WriteCall(CountAddress, <<count>>)
    BY DEF SaveRuleCount, Ready, Write, WriteCall
  <1>2. ~dirty /\ Durable = Content
    BY <1>1, NotInProgress
  <1>3. Content' = Content /\ Durable' = Durable
    BY <1>1, NothingMoved
  <1>4. Counting'
    BY <1>1, <1>2 DEF Counting, WriteCall
  <1>5. Progress'
    BY <1>1, <1>2, <1>3, <1>4 DEF Progress
  <1>6. doing.op # "clear"
    BY <1>1 DEF NoOp
  <1>7. QED
    BY <1>1, <1>5, <1>6, CallStarts

LEMMA SaveEnds ==
  ASSUME StoreInv, Saved
  PROVE  StoreInv' /\ Current' = Current /\ Surviving' = Surviving
  <1>1. /\ doing.op = "save" /\ doing.next = "done" /\ call = Idle /\ doing' = NoOp
        /\ UNCHANGED <<nvm, buffer, row, dirty, page, call, count, newAddr>>
    BY DEF Saved, driverVars
  <1>2. Counting
    BY <1>1, CountInProgress DEF StoreInv, CountProgress
  <1>3. ~dirty
    BY <1>1, <1>2, WriteOf DEF Counting
  <1>4. Progress'
    BY <1>1, <1>3 DEF Progress
  <1>5. doing'.op # "clear"
    BY <1>1 DEF NoOp
  <1>6. QED
    BY <1>1, <1>4, <1>5, CallStarts

LEMMA EmptyList ==
  ASSUME NEW mem, NEW e PROVE ListOk(mem, 0, e) /\ EndOf(mem, 0) = FirstRule /\ RulesIn(mem, 0) = <<>>
  BY DEF ListOk, EndOf, RulesIn

LEMMA ClearStarts ==
  ASSUME StoreInv, ClearRules
  PROVE  StoreInv' /\ Current' = <<>> /\ Surviving' = Surviving
  <1>1. /\ doing = NoOp /\ UNCHANGED <<nvm, buffer, row, dirty, page, newAddr>> /\ count' = 0
        /\ doing' = [op |-> "clear", next |-> "flush"]
        /\ call' = WriteCall(CountAddress, <<0>>)
    BY DEF ClearRules, Ready, Write, WriteCall
  <1>2. ~dirty /\ Durable = Content
    BY <1>1, NotInProgress
  <1>3. Content' = Content /\ Durable' = Durable /\ DriverTypes' /\ BufferAgrees'
    BY <1>1, NothingMoved DEF StoreInv
  <1>4. Counting'
    BY <1>1, <1>2 DEF Counting, WriteCall
  <1>5. Progress'
    BY <1>1, <1>2, <1>3, <1>4 DEF Progress
  <1>6. DurableCount' = DurableCount
    BY <1>3 DEF DurableCount
  <1>7. ListInv'
    BY <1>1, <1>3, <1>6, EmptyList, RulesAssumption DEF StoreInv, ListInv
  <1>8. QED
    BY <1>1, <1>3, <1>5, <1>6, <1>7, EmptyList DEF StoreInv, Current, Surviving

LEMMA ClearEnds ==
  ASSUME StoreInv, Cleared
  PROVE  StoreInv' /\ Current' = Current /\ Surviving' = Surviving
  <1>1. /\ doing.op = "clear" /\ doing.next = "done" /\ call = Idle /\ doing' = NoOp
        /\ newAddr' = FirstRule
        /\ UNCHANGED <<nvm, buffer, row, dirty, page, call, count>>
    BY DEF Cleared, driverVars
  <1>2. Counting /\ count = 0
    BY <1>1, CountInProgress DEF StoreInv, CountProgress
  <1>3. ~dirty /\ Content[CountAddress] = count
    BY <1>1, <1>2, WriteOf DEF Counting
  <1>4. /\ DriverTypes' /\ BufferAgrees' /\ Content' = Content /\ Durable' = Durable
        /\ Durable = Content
    BY <1>1, <1>3, NothingMoved, CleanDurable DEF StoreInv
  <1>5. DurableCount' = 0 /\ DurableCount = 0
    BY <1>2, <1>3, <1>4 DEF DurableCount
  <1>6. ListInv'
    BY <1>1, <1>2, <1>4, <1>5, EmptyList, RulesAssumption, StoreConstants DEF ListInv
  <1>7. Progress'
    BY <1>1, <1>3 DEF Progress
  <1>8. QED
    BY <1>1, <1>2, <1>4, <1>5, <1>6, <1>7 DEF StoreInv, Current, Surviving

LEMMA ReadKeeps ==
  ASSUME StoreInv, NEW id \in 0 .. EndAddress, GetRuleData(id)
  PROVE  StoreInv' /\ Current' = Current /\ Surviving' = Surviving
  <1>1. /\ doing = NoOp /\ doing' = NoOp
        /\ UNCHANGED <<nvm, buffer, row, dirty, page, call, count, newAddr>>
    BY DEF GetRuleData, Ready, driverVars
  <1>2. Progress'
    BY <1>1, NotInProgress DEF Progress
  <1>3. QED
    BY <1>1, <1>2, CallStarts

\* Power is lost between two rows: what was saved is all there is.
LEMMA RestartKeeps ==
  ASSUME StoreInv, Restart
  PROVE  StoreInv' /\ Current' = Surviving /\ Surviving' = Surviving
  <1>1. /\ ~Flushing /\ row' = None /\ dirty' = FALSE /\ page' = Pages /\ call' = Idle
        /\ buffer' \in [Index -> {Erased}] /\ nvm' = nvm /\ doing' = NoOp
        /\ count' = IF nvm[CountAddress] = Erased THEN 0 ELSE nvm[CountAddress]
        /\ newAddr' = EndOf(nvm, count')
    BY DEF Restart, PowerFail, Start, EndOf
  <1>2. Durable = nvm
    BY <1>1 DEF Durable
  <1>3. count' = DurableCount
    BY <1>1, <1>2 DEF DurableCount
  <1>4. BufferAgrees' /\ ~Flushing'
    BY <1>1, Split, GeometryAssumption DEF BufferAgrees, Flushing
  <1>5. DriverTypes'
    <2>1. page' \in 0 .. Pages
      BY <1>1, GeometryAssumption
    <2>2. buffer' \in [Index -> Byte]
      BY <1>1, ErasedBuffer
    <2>3. QED
      BY <1>1, <2>1, <2>2 DEF DriverTypes, StoreInv
  <1>6. Content' = nvm /\ Durable' = nvm
    <2>1. \A a \in Addr : RowOf(a) # row'
      BY <1>1, Split, GeometryAssumption
    <2>2. QED
      BY <1>1, <1>4, <2>1 DEF Content, Durable, StoreInv, DriverTypes
  <1>7. DurableCount' = DurableCount
    BY <1>2, <1>6 DEF DurableCount
  <1>8. /\ DurableCount \in 0 .. MaxRules /\ DurableCount \in Nat
        /\ newAddr \in FirstRule .. EndAddress /\ ListOk(nvm, DurableCount, newAddr)
    BY <1>2, RulesAssumption DEF StoreInv, ListInv
  <1>9. EndOf(nvm, DurableCount) \in FirstRule .. newAddr
        /\ ListOk(nvm, DurableCount, EndOf(nvm, DurableCount))
    BY <1>8, EndsOk
  <1>10. EndOf(nvm, DurableCount) \in FirstRule .. EndAddress
    BY <1>8, <1>9, StoreConstants
  <1>11. ListInv'
    BY <1>1, <1>3, <1>6, <1>7, <1>8, <1>9, <1>10 DEF ListInv
  <1>12. Progress'
    BY <1>1 DEF Progress
  <1>13. QED
    BY <1>2, <1>3, <1>4, <1>5, <1>6, <1>7, <1>11, <1>12 DEF StoreInv, Current, Surviving

LEMMA StoreInit == Init => StoreInv /\ Current = <<>> /\ Surviving = <<>>
  <1> SUFFICES ASSUME Init PROVE StoreInv /\ Current = <<>> /\ Surviving = <<>>
    OBVIOUS
  <1>1. /\ nvm = [a \in Addr |-> Erased] /\ buffer \in [Index -> {Erased}]
        /\ row = None /\ dirty = FALSE /\ page = Pages /\ call = Idle
        /\ count = 0 /\ newAddr = FirstRule /\ doing = NoOp
    BY DEF Init, DriverInit
  <1>2. BufferAgrees /\ ~Flushing
    BY <1>1, NoRowAgrees
  <1>3. DriverTypes
    <2>1. page \in 0 .. Pages /\ nvm \in [Addr -> Byte]
      BY <1>1, GeometryAssumption
    <2>2. buffer \in [Index -> Byte]
      BY <1>1, ErasedBuffer
    <2>3. QED
      BY <1>1, <2>1, <2>2 DEF DriverTypes
  <1>4. Durable = nvm
    BY <1>2 DEF Durable
  <1>5. DurableCount = 0
    BY <1>1, <1>4, StoreConstants DEF DurableCount
  <1>6. ListInv
    BY <1>1, <1>5, EmptyList, RulesAssumption, StoreConstants DEF ListInv
  <1>7. Progress
    BY <1>1 DEF Progress
  <1>8. QED
    BY <1>1, <1>2, <1>3, <1>5, <1>6, <1>7, EmptyList DEF StoreInv, Current, Surviving

-----------------------------------------------------------------------------
(* The link to the rule last read. *)

IInv == StoreInv /\ LoaderInv /\ cleared \in BOOLEAN /\ restarts \in 0 .. MaxRestarts

LEMMA NoLoaderType ==
  NoLoader \in [initialised : BOOLEAN, id : 0 .. EndAddress, addr : Addr, len : Byte]
  <1>1. 0 \in Byte
    BY RulesAssumption
  <1>2. FirstRule \in Addr /\ 0 \in 0 .. EndAddress
    BY StoreConstants
  <1>3. QED
    BY <1>1, <1>2 DEF NoLoader

LEMMA LoaderUnread ==
  ASSUME StoreInv, LoaderInv, RulesStay, UNCHANGED <<loader, cleared, newAddr>>,
         count' \in Nat, count <= count'
  PROVE  LoaderInv'
  <1> DEFINE c == Content'
  <1>1. /\ count \in Nat /\ newAddr \in FirstRule .. EndAddress
        /\ ListOk(Content, count, newAddr) /\ \A a \in FirstRule .. newAddr - 1 : c[a] = Content[a]
    BY RulesAssumption DEF StoreInv, ListInv, RulesStay
  <1> HIDE DEF c
  <1>2. \A i \in 0 .. count - 1 : GetRule(c, i) = GetRule(Content, i)
    BY <1>1, SameHeaders
  <1>3. ASSUME loader.initialised, ~cleared
        PROVE  loader.id < count' /\ loader = GetRule(c, loader.id)
    <2>1. loader.id < count /\ loader = GetRule(Content, loader.id) /\ loader.id \in Nat
      BY <1>3, StoreConstants DEF LoaderInv
    <2>2. loader.id \in 0 .. count - 1
      BY <1>1, <2>1
    <2>3. QED
      BY <1>1, <1>2, <2>1, <2>2
  <1>4. QED
    BY <1>3 DEF LoaderInv, c

\* Reading a rule moves the link to it.
LEMMA LoaderReads ==
  ASSUME IInv, NEW id \in 0 .. EndAddress, GetRuleData(id)
  PROVE  LoaderInv' /\ cleared' \in BOOLEAN
  <1>1. /\ doing = NoOp /\ id < count /\ loader' = Load(id)
        /\ loader.initialised => NextAddress(loader) \in Addr
        /\ cleared' = (cleared /\ loader.initialised /\ id \in {loader.id, loader.id + 1})
        /\ UNCHANGED <<nvm, buffer, row, dirty, page, count>>
    BY DEF GetRuleData, Ready, driverVars
  <1>2. /\ nvm = Content /\ Content' = Content /\ nvm \in [Addr -> Byte]
        /\ count \in Nat /\ newAddr \in FirstRule .. EndAddress /\ ListOk(nvm, count, newAddr)
        /\ loader \in [initialised : BOOLEAN, id : 0 .. EndAddress, addr : Addr, len : Byte]
    BY <1>1, NothingMoved, NotInProgress, RulesAssumption
       DEF IInv, StoreInv, ListInv, DriverTypes, LoaderInv
  <1>3. CASE loader.initialised /\ id = loader.id
    <2>1. loader' = loader
      BY <1>1, <1>3 DEF Load
    <2>2. cleared' = cleared
      BY <1>1, <1>3 DEF IInv
    <2>3. QED
      BY <1>1, <1>2, <2>1, <2>2 DEF IInv, LoaderInv
  <1>4. CASE loader.initialised /\ id = loader.id + 1
    <2>0. id # loader.id /\ loader.id \in Nat /\ id \in Nat
      BY <1>2, <1>4, StoreConstants
    <2>1. loader' = Header(nvm, id, NextAddress(loader))
      BY <1>1, <1>4, <2>0 DEF Load, NextRule
    <2>2. cleared' = cleared
      BY <1>1, <1>4 DEF IInv
    <2>3. loader' \in [initialised : BOOLEAN, id : 0 .. EndAddress, addr : Addr, len : Byte]
      <3>1. NextAddress(loader) \in Addr /\ nvm[NextAddress(loader)] \in Byte
        BY <1>1, <1>2, <1>4
      <3>2. QED
        BY <2>1, <3>1 DEF Header
    <2>4. ASSUME ~cleared PROVE loader' = GetRule(nvm, id) /\ loader'.id = id
      <3>1. loader = GetRule(nvm, loader.id)
        BY <1>2, <1>4, <2>4 DEF IInv, LoaderInv
      <3>2. GetRule(nvm, id) = NextRule(nvm, loader)
        BY <1>4, <2>0, <3>1, NextHeader
      <3>3. QED
        BY <1>4, <2>1, <3>2 DEF NextRule, Header
    <2>5. QED
      BY <1>1, <1>2, <2>2, <2>3, <2>4 DEF IInv, LoaderInv
  <1>5. CASE ~(loader.initialised /\ id \in {loader.id, loader.id + 1})
    <2>1. loader' = GetRule(nvm, id) /\ cleared' = FALSE
      BY <1>1, <1>5 DEF Load
    <2>2. id \in 0 .. count - 1
      BY <1>1, <1>2, StoreConstants
    <2>3. IsRule(GetRule(nvm, id), id, newAddr)
      BY <1>2, <2>2, HeaderFields
    <2>4. GetRule(nvm, id).addr \in Addr
      BY <1>2, <2>3, StoreConstants DEF IsRule
    <2>5. loader' \in [initialised : BOOLEAN, id : 0 .. EndAddress, addr : Addr, len : Byte]
      BY <2>1, <2>3, <2>4 DEF IsRule
    <2>6. loader'.id = id
      BY <2>1, <2>3 DEF IsRule
    <2>7. QED
      BY <1>1, <1>2, <2>1, <2>5, <2>6 DEF LoaderInv
  <1>6. QED
    BY <1>3, <1>4, <1>5

-----------------------------------------------------------------------------
(* The invariant is inductive, and every step is one of the list. *)

ListStep == [List!Next]_<<Current, Surviving>>

LEMMA ListUnchanged ==
  ASSUME Current' = Current, Surviving' = Surviving PROVE ListStep
  BY DEF ListStep

LEMMA InvInit == Init => IInv /\ List!Init
  <1> SUFFICES ASSUME Init PROVE IInv /\ List!Init
    OBVIOUS
  <1>1. loader = NoLoader /\ cleared = FALSE /\ restarts = 0
    BY DEF Init
  <1>2. ~loader.initialised
    BY <1>1 DEF NoLoader
  <1>3. LoaderInv
    BY <1>1, <1>2, NoLoaderType DEF LoaderInv
  <1>4. restarts \in 0 .. MaxRestarts
    BY <1>1, RulesAssumption
  <1>5. QED
    BY <1>1, <1>3, <1>4, StoreInit DEF IInv, List!Init, Current, Surviving

LEMMA InvNext == IInv /\ [Next]_vars => IInv' /\ ListStep
  <1> SUFFICES ASSUME IInv, [Next]_vars PROVE IInv' /\ ListStep
    OBVIOUS
  <1>0. /\ StoreInv /\ LoaderInv /\ cleared \in BOOLEAN /\ restarts \in 0 .. MaxRestarts
        /\ count \in Nat
    BY RulesAssumption DEF IInv, StoreInv, ListInv
  <1>1. ASSUME StoreInv', RulesStay, UNCHANGED <<loader, cleared, newAddr, restarts>>,
               count' \in Nat, count <= count'
        PROVE  IInv'
    BY <1>0, <1>1, LoaderUnread DEF IInv
  <1>2. ASSUME UNCHANGED <<nvm, buffer, row, dirty, page>> PROVE RulesStay
    BY <1>2, NothingMoved DEF RulesStay
  <1>3. ASSUME StoreInv', Current' = Current, Surviving' = Surviving,
               UNCHANGED <<nvm, buffer, row, dirty, page, loader, cleared, count, newAddr, restarts>>
        PROVE  IInv' /\ ListStep
    BY <1>0, <1>1, <1>2, <1>3, ListUnchanged
  <1>4. ASSUME NEW r \in Rules, AddNewRule(r), UNCHANGED restarts PROVE IInv' /\ ListStep
    BY <1>0, <1>3, <1>4, AddStarts DEF AddNewRule, Write
  <1>5. CASE AddData /\ UNCHANGED restarts
    BY <1>0, <1>3, <1>5, AddContinues DEF AddData, Write
  <1>6. CASE Added /\ UNCHANGED restarts
    <2>1. /\ UNCHANGED <<nvm, buffer, row, dirty, page, loader, cleared, restarts>>
      BY <1>6 DEF Added, driverVars
    <2>2. /\ StoreInv' /\ Surviving' = Surviving
          /\ \E r \in Rules : Current' = Append(Current, r)
      BY <1>0, <1>6, AddEnds
    <2>3. List!Next
      BY <2>2 DEF List!Next, List!AddNewRule, Current, Surviving
    <2>4. count' = count + 1
      <3>1. StoreInv /\ count \in 0 .. MaxRules - 1 /\ MaxRules \in Nat /\ MaxRules <= 255
        <4>1. MaxRules \in 0 .. MaxRules /\ MaxRules \in Nat
          BY RulesAssumption
        <4>2. MaxRules <= 255
          BY <4>1, RulesAssumption, StoreConstants
        <4>3. doing.op = "add" /\ StoreInv
          BY <1>0, <1>6 DEF Added
        <4>4. \E r \in Rules, next \in {"data", "flush", "done"} : AddProgress(r, next)
          BY <4>3, AddInProgress DEF StoreInv
        <4>5. count < MaxRules
          BY <4>4 DEF AddProgress, Adding
        <4>6. QED
          BY <1>0, <4>1, <4>2, <4>5
      <3>2. count' = (count + 1) % 256
        BY <1>6 DEF Added
      <3>3. QED
        BY <3>1, <3>2
    <2>5. LoaderInv'
      <3>1. \A i \in 0 .. count - 1 : GetRule(Content', i) = GetRule(Content, i)
        BY <2>1, NothingMoved
      <3>2. QED
        BY <1>0, <2>1, <2>4, <3>1, NothingMoved, StoreConstants DEF LoaderInv
    <2>6. QED
      BY <1>0, <2>1, <2>2, <2>3, <2>5 DEF IInv, ListStep
  <1>7. CASE SaveRuleCount /\ UNCHANGED restarts
    BY <1>0, <1>3, <1>7, SaveStarts DEF SaveRuleCount, Write
  <1>8. CASE Saved /\ UNCHANGED restarts
    BY <1>0, <1>3, <1>8, SaveEnds DEF Saved, driverVars
  <1>9. CASE ClearRules /\ UNCHANGED restarts
    <2>1. cleared' = TRUE /\ UNCHANGED <<loader, restarts>>
      BY <1>9 DEF ClearRules
    <2>2. StoreInv' /\ Current' = <<>> /\ Surviving' = Surviving
      BY <1>0, <1>9, ClearStarts
    <2>3. List!Next
      BY <2>2 DEF List!Next, List!ClearRules, Current, Surviving
    <2>4. QED
      BY <1>0, <2>1, <2>2, <2>3 DEF IInv, LoaderInv, ListStep
  <1>10. CASE Cleared /\ UNCHANGED restarts
    <2>1. /\ UNCHANGED <<nvm, buffer, row, dirty, page, loader, cleared, count, restarts>>
          /\ count = 0
      <3>1. doing.op = "clear"
        BY <1>10 DEF Cleared
      <3>2. count = 0
        BY <1>0, <3>1, CountInProgress DEF StoreInv, CountProgress
      <3>3. QED
        BY <1>10, <3>2 DEF Cleared, driverVars
    <2>2. StoreInv' /\ Current' = Current /\ Surviving' = Surviving
      BY <1>0, <1>10, ClearEnds
    <2>3. LoaderInv'
      BY <1>0, <2>1, StoreConstants DEF LoaderInv
    <2>4. QED
      BY <1>0, <2>1, <2>2, <2>3, ListUnchanged DEF IInv
  <1>11. CASE DoFlush /\ UNCHANGED restarts
    BY <1>0, <1>3, <1>11, Flushes DEF DoFlush, Flush
  <1>12. ASSUME NEW id \in 0 .. EndAddress, GetRuleData(id), UNCHANGED restarts
         PROVE  IInv' /\ ListStep
    BY <1>0, <1>12, ReadKeeps, LoaderReads, ListUnchanged DEF IInv
  <1>13. CASE DriverStep /\ UNCHANGED <<managerVars, restarts>>
    <2>1. StoreInv' /\ RulesStay /\ Current' = Current /\ Surviving' \in {Surviving, Current}
      BY <1>0, <1>13, DriverKeeps
    <2>2. ListStep
      BY <2>1 DEF ListStep, List!Next, List!SaveRuleCount, Current, Surviving
    <2>3. UNCHANGED <<loader, cleared, count, newAddr, restarts>>
      BY <1>13 DEF managerVars
    <2>4. QED
      BY <1>0, <1>1, <2>1, <2>2, <2>3
  <1>14. CASE Restart
    <2>1. StoreInv' /\ Current' = Surviving /\ Surviving' = Surviving
      BY <1>0, <1>14, RestartKeeps
    <2>2. /\ loader' = NoLoader /\ cleared' = FALSE
          /\ restarts' = restarts + 1 /\ restarts < MaxRestarts
      BY <1>14 DEF Restart, Start
    <2>3. restarts' \in 0 .. MaxRestarts
      BY <1>0, <2>2, RulesAssumption
    <2>4. LoaderInv'
      BY <2>2, NoLoaderType DEF LoaderInv, NoLoader
    <2>5. List!Next
      BY <2>1 DEF List!Next, List!Restart, Current, Surviving
    <2>6. QED
      BY <2>1, <2>2, <2>3, <2>4, <2>5 DEF IInv, ListStep
  <1>15. CASE UNCHANGED vars
    <2>1. /\ UNCHANGED <<nvm, buffer, row, dirty, page, loader, cleared, count, newAddr, restarts>>
          /\ UNCHANGED <<call, doing>>
      BY <1>15 DEF vars, driverVars, managerVars
    <2>2. Content' = Content /\ Durable' = Durable
      BY <2>1, NothingMoved
    <2>3. Progress'
      BY <1>0, <2>1, <2>2 DEF StoreInv, Progress, Adding, Counting, LengthPut, DataPut, Fits
    <2>4. StoreInv' /\ Current' = Current /\ Surviving' = Surviving
      BY <1>0, <2>1, <2>3, CallStarts
    <2>5. QED
      BY <1>3, <2>1, <2>4
  <1>16. QED
    BY <1>4, <1>5, <1>6, <1>7, <1>8, <1>9, <1>10, <1>11, <1>12, <1>13, <1>14, <1>15
       DEF Next, Operation

LEMMA InvImplies == IInv => TypeOK /\ NewRuleAfterLast /\ LoaderCoherent
  <1> SUFFICES ASSUME IInv PROVE TypeOK /\ NewRuleAfterLast /\ LoaderCoherent
    OBVIOUS
  <1>1. TypeOK
    BY CountByte DEF IInv, StoreInv, DriverTypes, ListInv, LoaderInv, TypeOK
  <1>2. NewRuleAfterLast
    BY NotInProgress DEF IInv, NewRuleAfterLast, EndOf
  <1>3. LoaderCoherent
    BY DEF IInv, LoaderInv, LoaderCoherent
  <1>4. QED
    BY <1>1, <1>2, <1>3

LEMMA Invariant == Spec => []IInv
  BY InvInit, InvNext, PTL DEF Spec

\* The manager's variables and the driver's keep their types: no sequence of operations and
\* failures makes the first free address leave the region or the count overflow.
THEOREM TypeCorrect == Spec => []TypeOK
  BY Invariant, InvImplies, PTL

\* The next rule is added where the rules in flash end, also after restarts and clearings.
THEOREM NewRuleAlwaysAfterLast == Spec => []NewRuleAfterLast
  BY Invariant, InvImplies, PTL

\* The remembered header is the one in flash as long as the list was not cleared.
THEOREM LoaderAlwaysCoherent == Spec => []LoaderCoherent
  BY Invariant, InvImplies, PTL

\* The store implements the list: appending, clearing and saving as promised, and every
\* restart brings back the list last saved, whatever was under way.
THEOREM StoreIsList == Spec => ImplementsList
  <1>1. ListStep <=> [List!Next]_<<RulesIn(Content, count), RulesIn(Durable, DurableCount)>>
    BY DEF ListStep, Current, Surviving
  <1>2. QED
    BY <1>1, Invariant, InvInit, InvNext, PTL DEF Spec, ImplementsList, List!Spec
=============================================================================
