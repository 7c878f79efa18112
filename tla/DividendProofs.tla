---------------------------- MODULE DividendProofs ----------------------------
(***************************************************************************)
(* Proofs about the dividend pool, for every set of users and tokens,      *)
(* every length of a cycle, every holding and amount and every bound.      *)
(***************************************************************************)
EXTENDS DividendProperties, SequenceTheorems, SumTheorems

Record == [cycle : Cycles, normal : Nat, dev : Nat]

\* What the elements of a list of records are.
LEMMA ElementTypes ==
    ASSUME NEW list \in Seq(Record), NEW i \in 1 .. Len(list)
    PROVE  /\ list[i] \in Record /\ list[i].cycle \in Cycles
           /\ list[i].cycle \in Nat /\ list[i].normal \in Nat /\ list[i].dev \in Nat
<1>1. list[i] \in Record
  OBVIOUS
<1>2. Cycles \subseteq Nat
  BY DEF Cycles
<1>3. list[i].cycle \in Cycles /\ list[i].normal \in Nat /\ list[i].dev \in Nat
  BY <1>1 DEF Record
<1>4. QED BY <1>1, <1>2, <1>3

-----------------------------------------------------------------------------
(* The search of _getStakeAmount *)

\* The search has one answer: the record it stops at.
LEMMA AmountAt ==
    ASSUME NEW list \in Seq(Record), NEW c \in Int, NEW i \in Standing(list, c)
    PROVE  Amount(list, c) = list[i].normal + list[i].dev
<1> DEFINE found == CHOOSE k \in Standing(list, c) : TRUE
<1>1. found \in Standing(list, c) /\ found \in 1 .. Len(list) /\ i \in 1 .. Len(list)
  BY DEF Standing
<1>2. ~ found < i
  <2>1. SUFFICES ASSUME found < i PROVE FALSE
    OBVIOUS
  <2>2. list[i].cycle <= c /\ list[i].cycle > c
    BY <1>1, <2>1 DEF Standing
  <2>3. list[i].cycle \in Int
    BY <1>1, ElementTypes
  <2>4. QED BY <2>2, <2>3
<1>3. ~ i < found
  <2>1. SUFFICES ASSUME i < found PROVE FALSE
    OBVIOUS
  <2>2. list[found].cycle <= c /\ list[found].cycle > c
    BY <1>1, <2>1 DEF Standing
  <2>3. list[found].cycle \in Int
    BY <1>1, ElementTypes
  <2>4. QED BY <2>2, <2>3
<1>4. found = i
  BY <1>1, <1>2, <1>3
<1>5. QED BY <1>1, <1>4 DEF Amount

\* Records younger than the cycle asked for do not matter.
LEMMA StandingIncluded ==
    ASSUME NEW a \in Seq(Record), NEW b \in Seq(Record), NEW c \in Int, NEW m \in Nat,
           m <= Len(a), m <= Len(b),
           \A i \in 1 .. m : a[i] = b[i],
           \A i \in m + 1 .. Len(a) : a[i].cycle > c,
           \A i \in m + 1 .. Len(b) : b[i].cycle > c
    PROVE  Standing(a, c) \subseteq Standing(b, c) /\ Standing(a, c) \subseteq 1 .. m
<1> SUFFICES ASSUME NEW i \in Standing(a, c)
             PROVE  i \in Standing(b, c) /\ i \in 1 .. m
  OBVIOUS
<1>1. /\ i \in 1 .. Len(a) /\ a[i].cycle <= c /\ a[i].cycle \in Int
      /\ \A j \in 1 .. Len(a) : j > i => a[j].cycle > c
  BY ElementTypes DEF Standing
<1>2. i \in 1 .. m
  BY <1>1
<1>3. i \in 1 .. Len(b) /\ b[i].cycle <= c
  BY <1>1, <1>2
<1>4. ASSUME NEW j \in 1 .. Len(b), j > i PROVE b[j].cycle > c
  <2>1. CASE j \in 1 .. m
    BY <1>1, <1>4, <2>1
  <2>2. CASE j \in m + 1 .. Len(b)
    BY <2>2
  <2>3. QED BY <2>1, <2>2
<1>5. QED BY <1>2, <1>3, <1>4 DEF Standing

LEMMA SameAmount ==
    ASSUME NEW a \in Seq(Record), NEW b \in Seq(Record), NEW c \in Int, NEW m \in Nat,
           m <= Len(a), m <= Len(b),
           \A i \in 1 .. m : a[i] = b[i],
           \A i \in m + 1 .. Len(a) : a[i].cycle > c,
           \A i \in m + 1 .. Len(b) : b[i].cycle > c
    PROVE  Amount(a, c) = Amount(b, c)
<1>1. Standing(a, c) \subseteq Standing(b, c) /\ Standing(a, c) \subseteq 1 .. m
  BY StandingIncluded
<1>2. Standing(b, c) \subseteq Standing(a, c)
  BY StandingIncluded
<1>3. Standing(a, c) = Standing(b, c)
  BY <1>1, <1>2
<1>4. CASE Standing(a, c) = {}
  BY <1>3, <1>4 DEF Amount
<1>5. CASE Standing(a, c) # {}
  <2>1. PICK i \in Standing(a, c) : TRUE
    BY <1>5
  <2>2. a[i] = b[i]
    BY <1>1, <2>1
  <2>3. QED BY <2>1, <2>2, <1>3, AmountAt
<1>6. QED BY <1>4, <1>5

\* When no record is younger than the cycle, the newest one is the answer.
LEMMA AmountOfLast ==
    ASSUME NEW list \in Seq(Record), NEW c \in Int,
           \A i \in 1 .. Len(list) : list[i].cycle <= c
    PROVE  Amount(list, c) = IF list = <<>> THEN 0 ELSE Last(list).normal + Last(list).dev
<1>1. CASE list = <<>>
  <2>1. Standing(list, c) = {}
    BY <1>1 DEF Standing
  <2>2. QED BY <1>1, <2>1 DEF Amount
<1>2. CASE list # <<>>
  <2>1. Len(list) \in 1 .. Len(list)
    BY <1>2
  <2>2. Len(list) \in Standing(list, c)
    BY <2>1 DEF Standing
  <2>3. QED BY <1>2, <2>2, AmountAt DEF Last
<1>3. QED BY <1>1, <1>2
-----------------------------------------------------------------------------
(* What a change of a stake does to the records *)

\* The records that a change of the stake leaves in place.
Base(u) == IF SameCycle(u) THEN Front(records[u]) ELSE records[u]

\* They are the records older than the cycle.
LEMMA BaseIsOlder ==
    ASSUME TypeOK, RecordsCompact, Cycle \in Cycles, NEW u \in Users
    PROVE  /\ Base(u) \in Seq(Record) /\ Len(Base(u)) <= Len(records[u])
           /\ \A i \in 1 .. Len(Base(u)) :
                 Base(u)[i] = records[u][i] /\ Base(u)[i].cycle < Cycle
           /\ \A i \in Len(Base(u)) + 1 .. Len(records[u]) : records[u][i].cycle >= Cycle
<1> DEFINE list == records[u]
<1>1. list \in Seq(Record)
  BY DEF TypeOK, Record
<1>2. CompactUpTo(list, currentCycleIndex)
  BY DEF RecordsCompact
<1>3. currentCycleIndex \in Nat /\ Cycle \in Nat /\ currentCycleIndex <= Cycle
  <2>1. Cycles \subseteq Nat
    BY DEF Cycles
  <2>2. QED BY <2>1 DEF TypeOK, Cycle
<1>4. CASE list = <<>>
  BY <1>1, <1>4 DEF Base, SameCycle
<1>5. CASE list # <<>>
  <2> DEFINE n == Len(list)
  <2>1. n \in Nat \ {0} /\ n \in 1 .. n /\ Last(list) = list[n] /\ DOMAIN list = 1 .. n
    BY <1>1, <1>5 DEF Last
  <2>2. \A i \in 1 .. n : list[i].cycle \in Nat
    BY <1>1, ElementTypes
  <2>3. \A i \in 1 .. n - 1 : list[i].cycle < list[n].cycle
    BY <1>2, <2>1 DEF CompactUpTo
  <2>4. list[n].cycle <= currentCycleIndex
    BY <1>2, <2>1 DEF CompactUpTo
  <2>5. CASE list[n].cycle = Cycle
    <3>1. Base(u) = SubSeq(list, 1, n - 1)
      BY <1>5, <2>1, <2>5 DEF Base, SameCycle, Front
    <3>2. Base(u) \in Seq(Record) /\ Len(Base(u)) = n - 1
          /\ \A i \in 1 .. n - 1 : Base(u)[i] = list[i]
      BY <1>1, <2>1, <3>1
    <3>3. \A i \in n .. n : list[i].cycle >= Cycle
      BY <1>3, <2>1, <2>2, <2>5
    <3>4. QED BY <2>1, <2>3, <2>5, <3>2, <3>3
  <2>6. CASE list[n].cycle # Cycle
    <3>1. Base(u) = list
      BY <1>5, <2>1, <2>6 DEF Base, SameCycle
    <3>2. \A i \in 1 .. n : list[i].cycle < Cycle
      BY <1>3, <2>1, <2>2, <2>3, <2>4, <2>6
    <3>3. QED BY <1>1, <2>1, <3>1, <3>2
  <2>7. QED BY <2>5, <2>6
<1>6. QED BY <1>4, <1>5

\* A change of the stake is seen from its cycle on and no earlier, and leaves the
\* records compact.
LEMMA StakeRecorded ==
    ASSUME TypeOK, RecordsCompact, Cycle \in Cycles, NEW u \in Users,
           NEW normal \in Nat, NEW dev \in Nat
    PROVE  LET list == Compacted(Checkpointed(u, normal, dev)) IN
           /\ list \in Seq(Record) /\ CompactUpTo(list, Cycle)
           /\ \A c \in Int : c < Cycle => Amount(list, c) = Amount(records[u], c)
           /\ Amount(list, Cycle) = normal + dev
<1> DEFINE base == Base(u)
           n    == Len(base)
           r    == [cycle |-> Cycle, normal |-> normal, dev |-> dev]
           full == Append(base, r)
           old  == records[u]
<1>1. /\ base \in Seq(Record) /\ n <= Len(old)
      /\ \A i \in 1 .. n : base[i] = old[i] /\ base[i].cycle < Cycle
      /\ \A i \in n + 1 .. Len(old) : old[i].cycle >= Cycle
  BY BaseIsOlder
<1>2. old \in Seq(Record) /\ CompactUpTo(old, currentCycleIndex)
  BY DEF TypeOK, Record, RecordsCompact
<1>3. Cycle \in Nat /\ r \in Record
  BY DEF Cycles, Record
<1>4. full = Checkpointed(u, normal, dev)
  BY DEF Checkpointed, Base
<1>5. /\ full \in Seq(Record) /\ Len(full) = n + 1 /\ full[n + 1] = r /\ n \in Nat
      /\ \A i \in 1 .. n : full[i] = base[i]
  BY <1>1, <1>3
<1>6. /\ \A i \in 1 .. Len(old) : old[i].cycle \in Nat
      /\ \A i \in 1 .. n : base[i].cycle \in Nat
  BY <1>1, <1>2, ElementTypes
<1> HIDE DEF base, full
<1>7. ASSUME NEW i \in 1 .. n, NEW j \in 1 .. n, i < j
      PROVE  base[i].cycle < base[j].cycle
  BY <1>1, <1>2, <1>7 DEF CompactUpTo
<1>8. ASSUME NEW i \in 1 .. n, i > 1
      PROVE  <<base[i - 1].normal, base[i - 1].dev>> # <<base[i].normal, base[i].dev>>
  <2>1. i - 1 \in 1 .. n /\ i \in DOMAIN old
    BY <1>1, <1>2, <1>8
  <2>2. <<old[i - 1].normal, old[i - 1].dev>> # <<old[i].normal, old[i].dev>>
    BY <1>2, <1>8, <2>1 DEF CompactUpTo
  <2>3. QED BY <1>1, <2>1, <2>2
<1>9. ASSUME NEW list \in Seq(Record), Len(list) >= n,
             \A i \in 1 .. n : list[i] = base[i],
             \A i \in n + 1 .. Len(list) : list[i].cycle >= Cycle,
             NEW c \in Int, c < Cycle
      PROVE  Amount(list, c) = Amount(old, c)
  <2>1. \A i \in 1 .. Len(list) : list[i].cycle \in Nat
    BY <1>9, ElementTypes
  <2>2. /\ \A i \in n + 1 .. Len(list) : list[i].cycle > c
        /\ \A i \in n + 1 .. Len(old) : old[i].cycle > c
    BY <1>1, <1>3, <1>5, <1>6, <1>9, <2>1
  <2>3. \A i \in 1 .. n : list[i] = old[i]
    BY <1>1, <1>9
  <2>4. QED BY <1>1, <1>2, <1>5, <1>9, <2>2, <2>3, SameAmount
<1>10. CASE Redundant(full)
  <2>1. Compacted(full) = base
    <3>1. Compacted(full) = SubSeq(full, 1, n)
      BY <1>5, <1>10 DEF Compacted, Front
    <3>2. SubSeq(full, 1, n) = base
      BY <1>1, <1>5
    <3>3. QED BY <3>1, <3>2
  <2>2. CompactUpTo(base, Cycle)
    <3>1. DOMAIN base = 1 .. n
      BY <1>1
    <3>2. \A i \in 1 .. n : base[i].cycle <= Cycle
      BY <1>1, <1>3, <1>6
    <3>3. QED BY <1>7, <1>8, <3>1, <3>2 DEF CompactUpTo
  <2>3. \A c \in Int : c < Cycle => Amount(base, c) = Amount(old, c)
    BY <1>1, <1>9
  <2>4. Amount(base, Cycle) = IF base = <<>> THEN 0 ELSE Last(base).normal + Last(base).dev
    BY <1>1, <1>3, <1>6, AmountOfLast
  <2>5. CASE n = 0
    <3>1. normal = 0 /\ dev = 0
      BY <1>5, <1>10, <2>5 DEF Redundant
    <3>2. base = <<>>
      BY <1>1, <2>5
    <3>3. QED BY <1>1, <1>4, <2>1, <2>2, <2>3, <2>4, <3>1, <3>2
  <2>6. CASE n > 0
    <3>1. full[n].normal = normal /\ full[n].dev = dev
      BY <1>5, <1>10, <2>6 DEF Redundant
    <3>2. Last(base) = full[n] /\ base # <<>>
      BY <1>1, <1>5, <2>6 DEF Last
    <3>3. QED BY <1>1, <1>4, <2>1, <2>2, <2>3, <2>4, <3>1, <3>2
  <2>7. QED BY <1>5, <2>5, <2>6
<1>11. CASE ~ Redundant(full)
  <2>1. Compacted(full) = full
    BY <1>11 DEF Compacted
  <2>2. \A i \in 1 .. n + 1 : full[i].cycle <= Cycle
    BY <1>1, <1>3, <1>5, <1>6
  <2>3. CompactUpTo(full, Cycle)
    <3>1. DOMAIN full = 1 .. n + 1
      BY <1>5
    <3>2. ASSUME NEW i \in 1 .. n + 1, NEW j \in 1 .. n + 1, i < j
          PROVE  full[i].cycle < full[j].cycle
      <4>1. CASE j \in 1 .. n
        BY <1>5, <1>7, <3>2, <4>1
      <4>2. CASE j = n + 1
        BY <1>1, <1>5, <3>2, <4>2
      <4>3. QED BY <1>5, <4>1, <4>2
    <3>3. ASSUME NEW i \in 1 .. n + 1, i > 1
          PROVE  <<full[i - 1].normal, full[i - 1].dev>> # <<full[i].normal, full[i].dev>>
      <4>1. CASE i \in 1 .. n
        BY <1>5, <1>8, <3>3, <4>1
      <4>2. CASE i = n + 1
        BY <1>5, <1>11, <3>3, <4>2 DEF Redundant
      <4>3. i \in 1 .. n \/ i = n + 1
        BY <1>5
      <4>4. QED BY <4>1, <4>2, <4>3
    <3>4. QED BY <2>2, <3>1, <3>2, <3>3 DEF CompactUpTo
  <2>4. \A c \in Int : c < Cycle => Amount(full, c) = Amount(old, c)
    <3>1. Len(full) >= n /\ \A i \in n + 1 .. Len(full) : full[i].cycle >= Cycle
      BY <1>3, <1>5
    <3>2. QED BY <1>5, <1>9, <3>1
  <2>5. Amount(full, Cycle) = normal + dev
    <3>1. full # <<>> /\ Last(full) = r
      BY <1>5 DEF Last
    <3>2. \A i \in 1 .. Len(full) : full[i].cycle <= Cycle
      BY <1>5, <2>2
    <3>3. Amount(full, Cycle) = Last(full).normal + Last(full).dev
      BY <1>3, <1>5, <3>1, <3>2, AmountOfLast
    <3>4. QED BY <3>1, <3>3
  <2>6. QED BY <1>4, <1>5, <2>1, <2>3, <2>4, <2>5
<1>12. QED BY <1>10, <1>11

-----------------------------------------------------------------------------
(* The inductive invariant *)

\* A cycle is at least CycleMinLength long, which bounds their number.
ClockCovers ==
    /\ CycleMinLength * currentCycleIndex <= cycles[currentCycleIndex].start
    /\ cycles[currentCycleIndex].start <= now

\* What is accounted for is held, or paying it would take more than there is.
HeldCovers == \A t \in Tokens : tokenBalances[t] <= held[t]

PoolInv == TypeOK /\ RecordsCompact /\ ClockCovers /\ HeldCovers

CycleRecord == [start : 0 .. MaxTime, totalStaked : Nat, rewards : [Tokens -> Nat]]

\* Division by a positive number.
LEMMA QuotientBound ==
    ASSUME NEW n \in Nat \ {0}, NEW m \in Nat, NEW k \in Nat, n * k <= m
    PROVE  k \in 0 .. m \div n
<1>1. m \div n \in Nat
  OBVIOUS
<1>2. ~ m \div n < k
  <2>1. SUFFICES ASSUME m \div n < k PROVE FALSE
    BY <1>1
  <2>2. m < n * (m \div n) + n
    OBVIOUS
  <2>3. n * (m \div n) + n <= n * k
    BY <1>1, <2>1
  <2>4. QED BY <1>1, <2>2, <2>3
<1>3. QED BY <1>1, <1>2

\* The cycle an operation works in exists, and has begun.
LEMMA CycleBegun ==
    ASSUME TypeOK, ClockCovers
    PROVE  /\ Cycle \in Cycles /\ Opened \in [Cycles -> CycleRecord]
           /\ CycleMinLength * Cycle <= Opened[Cycle].start /\ Opened[Cycle].start <= now
           /\ Cycle \in {currentCycleIndex, currentCycleIndex + 1}
           /\ \A c \in Cycles : c < currentCycleIndex => Opened[c] = cycles[c]
<1> DEFINE cur == currentCycleIndex
<1>1. /\ now \in 0 .. MaxTime /\ cur \in Cycles /\ cur \in Nat /\ Cycles \subseteq Nat
      /\ cycles \in [Cycles -> CycleRecord] /\ totalStaked \in Nat
  BY DEF TypeOK, CycleRecord, Cycles
<1>2. cycles[cur] \in CycleRecord
  BY <1>1
<1>3. CASE ~ CycleOver
  BY <1>1, <1>3 DEF Cycle, Opened, ClockCovers
<1>4. CASE CycleOver
  <2>1. Cycle = cur + 1 /\ cur + 1 \in Nat
    BY <1>1, <1>4 DEF Cycle
  <2>2. CycleMinLength * (cur + 1) <= now
    <3>1. cycles[cur].start \in Nat /\ now \in Nat /\ CycleMinLength \in Nat
      BY <1>1, <1>2, DividendAssumption DEF CycleRecord
    <3>2. cycles[cur].start + CycleMinLength <= now
      BY <1>4, <3>1 DEF CycleOver
    <3>3. CycleMinLength * (cur + 1) = CycleMinLength * cur + CycleMinLength
      BY <1>1, <3>1
    <3>4. CycleMinLength * cur <= cycles[cur].start
      BY DEF ClockCovers
    <3>5. CycleMinLength * cur \in Nat
      BY <1>1, <3>1
    <3>6. QED BY <3>1, <3>2, <3>3, <3>4, <3>5
  <2>3. CycleMinLength * (cur + 1) <= MaxTime
    BY <1>1, <2>1, <2>2, DividendAssumption
  <2>4. Cycle \in Cycles
    BY <2>1, <2>3, QuotientBound, DividendAssumption DEF Cycles
  <2>5. CarriedOver \in [Tokens -> Nat]
    BY <1>2 DEF CarriedOver, NoRewards, CycleRecord
  <2> DEFINE opened == [start |-> now, totalStaked |-> totalStaked, rewards |-> CarriedOver]
  <2>6. opened \in CycleRecord
    BY <1>1, <2>5 DEF CycleRecord
  <2>7. Opened = [cycles EXCEPT ![Cycle] = opened]
    BY <1>4 DEF Opened
  <2>8. Opened[Cycle] = opened /\ Opened \in [Cycles -> CycleRecord]
    BY <1>1, <2>4, <2>6, <2>7
  <2>9. \A c \in Cycles : c < cur => Opened[c] = cycles[c]
    BY <1>1, <2>1, <2>7
  <2>10. QED BY <1>1, <2>1, <2>2, <2>4, <2>8, <2>9
<1>5. QED BY <1>3, <1>4

LEMMA CycleOrder ==
    ASSUME TypeOK, ClockCovers
    PROVE  currentCycleIndex \in Nat /\ Cycle \in Nat /\ currentCycleIndex <= Cycle
<1>1. Cycle \in Cycles /\ Cycle \in {currentCycleIndex, currentCycleIndex + 1}
  BY CycleBegun
<1>2. currentCycleIndex \in Cycles
  BY DEF TypeOK
<1>3. Cycles \subseteq Nat
  BY DEF Cycles
<1>4. QED BY <1>1, <1>2, <1>3

\* A stake and a share are numbers.
LEMMA AmountType ==
    ASSUME NEW list \in Seq(Record), NEW c \in Int
    PROVE  Amount(list, c) \in Nat
<1>1. CASE Standing(list, c) = {}
  BY <1>1 DEF Amount
<1>2. CASE Standing(list, c) # {}
  <2>1. PICK i \in Standing(list, c) : TRUE
    BY <1>2
  <2>2. i \in 1 .. Len(list)
    BY DEF Standing
  <2>3. QED BY <2>1, <2>2, ElementTypes, AmountAt
<1>3. QED BY <1>1, <1>2

LEMMA ShareType ==
    ASSUME TypeOK, NEW u \in Users, NEW c \in Cycles, NEW t \in Tokens
    PROVE  Share(u, c, t) \in Nat
<1>1. ShareBasis(u, c) \in Nat
  <2>1. c - 1 \in Int
    BY DEF Cycles
  <2>2. records[u] \in Seq(Record)
    BY DEF TypeOK, Record
  <2>3. QED BY <2>1, <2>2, AmountType DEF ShareBasis, StakeAmount
<1>2. cycles[c].rewards[t] \in Nat /\ cycles[c].totalStaked \in Nat
  BY DEF TypeOK
<1>3. \A x, y \in Nat : x * y \in Nat
  OBVIOUS
<1>4. \A x \in Nat, y \in Nat \ {0} : x \div y \in Nat
  OBVIOUS
<1>5. QED BY <1>1, <1>2, <1>3, <1>4 DEF Share, Earns

\* The first state.
LEMMA InitInv == Init => PoolInv
<1> SUFFICES ASSUME Init PROVE PoolInv
  OBVIOUS
<1>1. 0 \in Cycles
  BY QuotientBound, DividendAssumption DEF Cycles
<1>2. NoRewards \in [Tokens -> Nat] /\ NoCycle \in CycleRecord
  BY DividendAssumption DEF NoRewards, NoCycle, CycleRecord
<1>3. TypeOK
  <2>1. cycles \in [Cycles -> CycleRecord]
    BY <1>2 DEF Init
  <2>2. records \in [Users -> Seq(Record)]
    BY DEF Init
  <2>3. now \in 0 .. MaxTime
    BY DividendAssumption DEF Init
  <2>4. QED BY <1>1, <1>2, <2>1, <2>2, <2>3 DEF Init, TypeOK, CycleRecord, Record
<1>4. RecordsCompact
  BY DEF Init, RecordsCompact, CompactUpTo
<1>5. ClockCovers
  <2>1. cycles[currentCycleIndex] = NoCycle
    BY <1>1 DEF Init
  <2>2. QED BY <2>1, DividendAssumption DEF Init, ClockCovers, NoCycle
<1>6. HeldCovers
  BY DEF Init, HeldCovers, NoRewards
<1>7. QED BY <1>3, <1>4, <1>5, <1>6 DEF PoolInv

\* The clock and the records, when an operation has found its cycle.
LEMMA CycleFound ==
    ASSUME PoolInv, currentCycleIndex' = Cycle, now' = now,
           cycles'[Cycle].start = Opened[Cycle].start
    PROVE  ClockCovers'
BY CycleBegun DEF PoolInv, ClockCovers

LEMMA RecordsKept ==
    ASSUME PoolInv, currentCycleIndex' \in {currentCycleIndex, Cycle}, records' = records
    PROVE  RecordsCompact'
<1>1. currentCycleIndex \in Nat /\ currentCycleIndex' \in Nat
      /\ currentCycleIndex <= currentCycleIndex'
  BY CycleOrder DEF PoolInv
<1>2. SUFFICES ASSUME NEW u \in Users
               PROVE  CompactUpTo(records[u], currentCycleIndex')
  BY DEF RecordsCompact
<1>3. records[u] \in Seq(Record) /\ CompactUpTo(records[u], currentCycleIndex)
  BY DEF PoolInv, TypeOK, RecordsCompact, Record
<1>4. \A i \in DOMAIN records[u] : records[u][i].cycle <= currentCycleIndex'
  <2>1. \A i \in 1 .. Len(records[u]) : records[u][i].cycle \in Nat
    BY <1>3, ElementTypes
  <2>2. QED BY <1>1, <1>3, <2>1 DEF CompactUpTo
<1>5. QED BY <1>3, <1>4 DEF CompactUpTo

\* A deposit.
LEMMA DepositInv ==
    ASSUME PoolInv, NEW t \in Tokens, NEW n \in Nat, DepositToken(t, n),
           held' \in [Tokens -> Nat],
           \A s \in Tokens : held'[s] >= held[s] + (IF s = t THEN n ELSE 0)
                             \/ held'[s] >= tokenBalances[s] + (IF s = t THEN n ELSE 0)
    PROVE  PoolInv'
<1>1. Cycle \in Cycles /\ Opened \in [Cycles -> CycleRecord]
  BY CycleBegun DEF PoolInv
<1>2. tokenBalances \in [Tokens -> Nat] /\ held \in [Tokens -> Nat]
  BY DEF PoolInv, TypeOK
<1>3. cycles' = [Opened EXCEPT ![Cycle].rewards[t] = @ + n] /\ currentCycleIndex' = Cycle
  BY DEF DepositToken
<1>4. cycles' \in [Cycles -> CycleRecord] /\ cycles'[Cycle].start = Opened[Cycle].start
  BY <1>1, <1>3 DEF CycleRecord
<1>5. tokenBalances' \in [Tokens -> Nat]
      /\ \A s \in Tokens : tokenBalances'[s] = tokenBalances[s] + (IF s = t THEN n ELSE 0)
  BY <1>2 DEF DepositToken
<1>6. TypeOK'
  BY <1>1, <1>3, <1>4, <1>5 DEF PoolInv, TypeOK, DepositToken, CycleRecord, stakeVars, claimVars
<1>7. HeldCovers'
  BY <1>2, <1>5 DEF HeldCovers, PoolInv
<1>8. RecordsCompact'
  BY <1>3, RecordsKept DEF DepositToken, stakeVars
<1>9. ClockCovers'
  BY <1>3, <1>4, CycleFound DEF DepositToken
<1>10. QED BY <1>6, <1>7, <1>8, <1>9 DEF PoolInv

\* A change of a stake.
LEMMA StakeInv ==
    ASSUME PoolInv, NEW u \in Users, NEW normal \in Nat, NEW dev \in Nat,
           SetStake(u, normal, dev)
    PROVE  PoolInv'
<1> DEFINE list == Compacted(Checkpointed(u, normal, dev))
<1>1. Cycle \in Cycles /\ Opened \in [Cycles -> CycleRecord]
  BY CycleBegun DEF PoolInv
<1>2. list \in Seq(Record) /\ CompactUpTo(list, Cycle)
  BY <1>1, StakeRecorded DEF PoolInv
<1>3. currentCycleIndex' = Cycle /\ cycles' = Opened /\ now' = now
      /\ records' = [records EXCEPT ![u] = list]
  BY DEF SetStake
<1>4. records \in [Users -> Seq(Record)]
  BY DEF PoolInv, TypeOK, Record
<1> HIDE DEF list
<1>5. records' \in [Users -> Seq(Record)]
  BY <1>2, <1>3, <1>4
<1>6. totalStaked' \in Nat
  <2>1. Latest(u).normal \in Nat /\ Latest(u).dev \in Nat
    <3>1. CASE records[u] = <<>>
      BY <3>1 DEF Latest
    <3>2. CASE records[u] # <<>>
      <4>1. records[u] \in Seq(Record) /\ Len(records[u]) \in 1 .. Len(records[u])
        BY <1>4, <3>2
      <4>2. QED BY <3>2, <4>1, ElementTypes DEF Latest, Last
    <3>3. QED BY <3>1, <3>2
  <2>2. totalStaked \in Nat
    BY DEF PoolInv, TypeOK
  <2>3. QED BY <2>1, <2>2 DEF SetStake
<1>7. TypeOK'
  BY <1>1, <1>3, <1>5, <1>6
     DEF PoolInv, TypeOK, SetStake, CycleRecord, Record, rewardVars, claimVars
<1>8. RecordsCompact'
  <2>1. SUFFICES ASSUME NEW v \in Users PROVE CompactUpTo(records'[v], Cycle)
    BY <1>3 DEF RecordsCompact
  <2>2. CASE v = u
    BY <1>2, <1>3, <1>4, <2>2
  <2>3. CASE v # u
    <3>1. records'[v] = records[v]
      BY <1>3, <1>4, <2>3
    <3>2. CompactUpTo(records[v], Cycle)
      <4>1. records[v] \in Seq(Record) /\ CompactUpTo(records[v], currentCycleIndex)
        BY <1>4 DEF PoolInv, RecordsCompact
      <4>2. currentCycleIndex \in Nat /\ Cycle \in Nat /\ currentCycleIndex <= Cycle
        BY CycleOrder DEF PoolInv
      <4>3. \A i \in 1 .. Len(records[v]) : records[v][i].cycle \in Nat
        BY <4>1, ElementTypes
      <4>4. \A i \in DOMAIN records[v] : records[v][i].cycle <= Cycle
        BY <4>1, <4>2, <4>3 DEF CompactUpTo
      <4>5. QED BY <4>1, <4>4 DEF CompactUpTo
    <3>3. QED BY <3>1, <3>2
  <2>4. QED BY <2>2, <2>3
<1>9. ClockCovers'
  BY <1>3, CycleFound
<1>10. HeldCovers'
  BY DEF PoolInv, HeldCovers, SetStake, rewardVars
<1>11. QED BY <1>7, <1>8, <1>9, <1>10 DEF PoolInv

\* A withdrawal and its transfers.
LEMMA WithdrawInv ==
    ASSUME PoolInv, NEW u \in Users, NEW cs \in SUBSET Cycles, NEW ts \in SUBSET Tokens,
           WithdrawDividends(u, cs, ts)
    PROVE  PoolInv'
<1>1. claimed' \subseteq Users \X Cycles \X Tokens
  BY DEF WithdrawDividends, PoolInv, TypeOK
<1>2. payout' = NoPayout \/ payout' \in [user : Users, rewards : SUBSET (Cycles \X Tokens)]
  <2>1. {p \in cs \X ts : Share(u, p[1], p[2]) > 0} \in SUBSET (Cycles \X Tokens)
    OBVIOUS
  <2>2. QED BY <2>1 DEF WithdrawDividends
<1>3. UNCHANGED <<now, currentCycleIndex, cycles, stakeVars, rewardVars>>
  BY DEF WithdrawDividends
<1>4. TypeOK'
  BY <1>1, <1>2, <1>3 DEF PoolInv, TypeOK, stakeVars, rewardVars, NoPayout
<1>5. QED
  BY <1>3, <1>4 DEF PoolInv, RecordsCompact, ClockCovers, HeldCovers, stakeVars, rewardVars

LEMMA PayInv ==
    ASSUME PoolInv, NEW c \in Cycles, NEW t \in Tokens, Pay(c, t)
    PROVE  PoolInv'
<1> DEFINE amount == Share(payout.user, c, t)
<1>1. <<c, t>> \in payout.rewards /\ tokenBalances[t] >= amount
  BY DEF Pay
<1>2. payout \in [user : Users, rewards : SUBSET (Cycles \X Tokens)]
  BY <1>1 DEF PoolInv, TypeOK, NoPayout
<1>3. amount \in Nat
  BY <1>2, ShareType DEF PoolInv
<1>4. tokenBalances \in [Tokens -> Nat] /\ held \in [Tokens -> Nat]
  BY DEF PoolInv, TypeOK
<1>5. /\ tokenBalances' = [tokenBalances EXCEPT ![t] = @ - amount]
      /\ held' = [held EXCEPT ![t] = @ - amount]
      /\ UNCHANGED <<now, currentCycleIndex, cycles, stakeVars, claimed>>
  BY DEF Pay
<1>6. payout' = NoPayout \/ payout' \in [user : Users, rewards : SUBSET (Cycles \X Tokens)]
  BY <1>2 DEF Pay
<1> HIDE DEF amount
<1>7. tokenBalances[t] <= held[t]
  BY DEF PoolInv, HeldCovers
<1>8. tokenBalances' \in [Tokens -> Nat] /\ held' \in [Tokens -> Nat]
  BY <1>1, <1>3, <1>4, <1>5, <1>7
<1>9. HeldCovers'
  BY <1>3, <1>4, <1>5 DEF PoolInv, HeldCovers
<1>10. TypeOK'
  BY <1>5, <1>6, <1>8 DEF PoolInv, TypeOK, stakeVars, NoPayout
<1>11. QED
  BY <1>5, <1>9, <1>10 DEF PoolInv, RecordsCompact, ClockCovers, stakeVars

\* The amounts of the four operations on stakes are numbers.
LEMMA LatestType ==
    ASSUME TypeOK, NEW u \in Users
    PROVE  Latest(u).normal \in Nat /\ Latest(u).dev \in Nat
<1>1. CASE records[u] = <<>>
  BY <1>1 DEF Latest
<1>2. CASE records[u] # <<>>
  <2>1. records[u] \in Seq(Record)
    BY DEF TypeOK, Record
  <2>2. Len(records[u]) \in 1 .. Len(records[u])
    BY <1>2, <2>1
  <2>3. QED BY <1>2, <2>1, <2>2, ElementTypes DEF Latest, Last
<1>3. QED BY <1>1, <1>2

\* What a step on the stake of a user is.
StakeOperation(u, n) ==
    StakeNormal(u, n) \/ StakeDev(u, n) \/ UnstakeNormal(u, n) \/ UnstakeDev(u, n)

LEMMA StakeIsSet ==
    ASSUME TypeOK, NEW u \in Users, NEW n \in StakeAmounts, StakeOperation(u, n)
    PROVE  \E normal \in Nat : \E dev \in Nat : SetStake(u, normal, dev)
<1>1. Latest(u).normal \in Nat /\ Latest(u).dev \in Nat /\ n \in Nat
  BY LatestType, DividendAssumption
<1>2. CASE StakeNormal(u, n)
  BY <1>1, <1>2 DEF StakeNormal
<1>3. CASE StakeDev(u, n)
  BY <1>1, <1>3 DEF StakeDev
<1>4. CASE UnstakeNormal(u, n)
  <2>1. Latest(u).normal - n \in Nat
    BY <1>1, <1>4 DEF UnstakeNormal
  <2>2. QED BY <1>1, <1>4, <2>1 DEF UnstakeNormal
<1>5. CASE UnstakeDev(u, n)
  <2>1. Latest(u).dev - n \in Nat
    BY <1>1, <1>5 DEF UnstakeDev
  <2>2. QED BY <1>1, <1>5, <2>1 DEF UnstakeDev
<1>6. QED BY <1>2, <1>3, <1>4, <1>5 DEF StakeOperation

\* Every step keeps the invariant.
LEMMA NextInv == PoolInv /\ [Next]_vars => PoolInv'
<1> SUFFICES ASSUME PoolInv, [Next]_vars PROVE PoolInv'
  OBVIOUS
<1>1. CASE Tick
  <2>1. TypeOK'
    <3>1. now' \in 0 .. MaxTime
      BY <1>1, DividendAssumption DEF PoolInv, Tick, TypeOK
    <3>2. UNCHANGED <<currentCycleIndex, cycles, stakeVars, rewardVars, claimVars>>
      BY <1>1 DEF Tick
    <3>3. QED
      BY <3>1, <3>2 DEF PoolInv, TypeOK, stakeVars, rewardVars, claimVars, NoPayout
  <2>2. RecordsCompact' /\ HeldCovers'
    BY <1>1 DEF PoolInv, Tick, RecordsCompact, HeldCovers, stakeVars, rewardVars
  <2>3. ClockCovers'
    <3>1. cycles[currentCycleIndex].start \in Nat /\ now \in Nat
      BY DEF PoolInv, TypeOK
    <3>2. QED BY <1>1, <3>1 DEF PoolInv, Tick, ClockCovers
  <2>4. QED BY <2>1, <2>2, <2>3 DEF PoolInv
<1>2. CASE TryNewCycle
  <2>1. Cycle \in Cycles /\ Opened \in [Cycles -> CycleRecord]
    BY CycleBegun DEF PoolInv
  <2>2. TypeOK'
    BY <1>2, <2>1
       DEF PoolInv, TryNewCycle, TypeOK, CycleRecord, stakeVars, rewardVars, claimVars, NoPayout
  <2>3. RecordsCompact'
    BY <1>2, RecordsKept DEF TryNewCycle, stakeVars
  <2>4. ClockCovers'
    BY <1>2, CycleFound DEF TryNewCycle
  <2>5. HeldCovers'
    BY <1>2 DEF PoolInv, TryNewCycle, HeldCovers, rewardVars
  <2>6. QED BY <2>2, <2>3, <2>4, <2>5 DEF PoolInv
<1>3. ASSUME NEW t \in Tokens, NEW n \in RewardAmounts, Arrives(t, n), DepositToken(t, n)
      PROVE  PoolInv'
  <2>1. n \in Nat
    BY DividendAssumption
  <2>2. held \in [Tokens -> Nat]
    BY DEF PoolInv, TypeOK
  <2>3. held' \in [Tokens -> Nat]
        /\ \A s \in Tokens : held'[s] >= held[s] + (IF s = t THEN n ELSE 0)
    BY <1>3, <2>1, <2>2 DEF Arrives
  <2>4. QED BY <1>3, <2>1, <2>3, DepositInv
<1>4. ASSUME NEW t \in Tokens, NEW n \in RewardAmounts, TransferIn(t, n)
      PROVE  PoolInv'
  <2>1. n \in Nat
    BY DividendAssumption
  <2>2. held \in [Tokens -> Nat] /\ tokenBalances \in [Tokens -> Nat]
    BY DEF PoolInv, TypeOK
  <2>3. held' \in [Tokens -> Nat] /\ \A s \in Tokens : held'[s] >= held[s]
    BY <1>4, <2>1, <2>2 DEF TransferIn, Arrives
  <2>4. UNCHANGED <<now, currentCycleIndex, cycles, stakeVars, tokenBalances, claimVars>>
    BY <1>4 DEF TransferIn
  <2>5. TypeOK'
    BY <2>3, <2>4 DEF PoolInv, TypeOK, stakeVars, claimVars, NoPayout
  <2>6. HeldCovers'
    BY <2>2, <2>3, <2>4 DEF PoolInv, HeldCovers
  <2>7. QED BY <2>4, <2>5, <2>6 DEF PoolInv, RecordsCompact, ClockCovers, stakeVars
<1>5. ASSUME NEW t \in Tokens, UpdateTokenBalance(t)
      PROVE  PoolInv'
  <2>1. held \in [Tokens -> Nat] /\ tokenBalances \in [Tokens -> Nat]
        /\ \A s \in Tokens : tokenBalances[s] <= held[s]
    BY DEF PoolInv, TypeOK, HeldCovers
  <2>2. Unaccounted(t) \in Nat
    BY <2>1 DEF Unaccounted
  <2>3. held' = held /\ DepositToken(t, Unaccounted(t))
    BY <1>5 DEF UpdateTokenBalance
  <2>4. \A s \in Tokens :
           held'[s] >= tokenBalances[s] + (IF s = t THEN Unaccounted(t) ELSE 0)
    BY <2>1, <2>3 DEF Unaccounted
  <2>5. QED BY <2>1, <2>2, <2>3, <2>4, DepositInv
<1>6. ASSUME NEW u \in Users, NEW n \in StakeAmounts, StakeOperation(u, n)
      PROVE  PoolInv'
  BY <1>6, StakeIsSet, StakeInv DEF PoolInv
<1>7. ASSUME NEW u \in Claimants, NEW cs \in SUBSET Cycles, NEW ts \in SUBSET Tokens,
             WithdrawDividends(u, cs, ts)
      PROVE  PoolInv'
  BY <1>7, WithdrawInv, DividendAssumption
<1>8. ASSUME NEW c \in Cycles, NEW t \in Tokens, Pay(c, t)
      PROVE  PoolInv'
  BY <1>8, PayInv
<1>9. CASE UNCHANGED vars
  BY <1>9 DEF PoolInv, TypeOK, RecordsCompact, ClockCovers, HeldCovers,
              vars, stakeVars, rewardVars, claimVars, NoPayout
<1>10. QED
  <2>1. Native \in Tokens
    BY DEF Tokens
  <2>2. QED
    BY <1>1, <1>2, <1>3, <1>4, <1>5, <1>6, <1>7, <1>8, <1>9, <2>1
       DEF Next, Receive, Deposit, StakeOperation

LEMMA InvHolds == Spec => []PoolInv
BY InitInv, NextInv, PTL DEF Spec

\* Every quantity keeps its type, in particular no total, balance or payment
\* falls below 0, whoever stakes, deposits and claims.
THEOREM TypeCorrect == Spec => []TypeOK
<1>1. PoolInv => TypeOK
  BY DEF PoolInv
<1>2. QED BY <1>1, InvHolds, PTL

\* The checkpoints of every user stay ordered by cycle, with at most one to a
\* cycle and no two neighbours alike.
THEOREM RecordsStayCompact == Spec => []RecordsCompact
<1>1. PoolInv => RecordsCompact
  BY DEF PoolInv
<1>2. QED BY <1>1, InvHolds, PTL

-----------------------------------------------------------------------------
(* History and snapshots *)

\* What any step does to what users have staked in the cycles: nothing in those
\* before the one it works in, and in that one it changes one stake at most.
StakesStep ==
    /\ currentCycleIndex' \in {currentCycleIndex, currentCycleIndex + 1}
    /\ \A u \in Users : \A c \in Int :
          c < currentCycleIndex' => Amount(records'[u], c) = Amount(records[u], c)
    /\ \E u : \A v \in Users \ {u} :
          Amount(records'[v], currentCycleIndex') = Amount(records[v], currentCycleIndex)

\* A stake stands until it is changed.
LEMMA StakeStands ==
    ASSUME PoolInv, NEW u \in Users
    PROVE  Amount(records[u], Cycle) = Amount(records[u], currentCycleIndex)
<1>1. records[u] \in Seq(Record) /\ CompactUpTo(records[u], currentCycleIndex)
  BY DEF PoolInv, TypeOK, Record, RecordsCompact
<1>2. currentCycleIndex \in Nat /\ Cycle \in Nat /\ currentCycleIndex <= Cycle
  BY CycleOrder DEF PoolInv
<1>3. \A i \in 1 .. Len(records[u]) : records[u][i].cycle \in Nat
  BY <1>1, ElementTypes
<1>4. \A i \in 1 .. Len(records[u]) :
         records[u][i].cycle <= currentCycleIndex /\ records[u][i].cycle <= Cycle
  BY <1>1, <1>2, <1>3 DEF CompactUpTo
<1>5. QED BY <1>1, <1>2, <1>4, AmountOfLast

LEMMA StakesKept ==
    ASSUME PoolInv, records' = records, currentCycleIndex' \in {currentCycleIndex, Cycle}
    PROVE  StakesStep
<1>1. currentCycleIndex' \in {currentCycleIndex, currentCycleIndex + 1}
  BY CycleBegun DEF PoolInv
<1>2. \A v \in Users :
         Amount(records'[v], currentCycleIndex') = Amount(records[v], currentCycleIndex)
  BY StakeStands
<1>3. QED BY <1>1, <1>2 DEF StakesStep

LEMMA StakeChanged ==
    ASSUME PoolInv, NEW u \in Users, NEW normal \in Nat, NEW dev \in Nat,
           SetStake(u, normal, dev)
    PROVE  StakesStep
<1> DEFINE list == Compacted(Checkpointed(u, normal, dev))
<1>1. Cycle \in Cycles /\ Cycle \in {currentCycleIndex, currentCycleIndex + 1}
  BY CycleBegun DEF PoolInv
<1>2. \A c \in Int : c < Cycle => Amount(list, c) = Amount(records[u], c)
  BY <1>1, StakeRecorded DEF PoolInv
<1>3. currentCycleIndex' = Cycle /\ records' = [records EXCEPT ![u] = list]
  BY DEF SetStake
<1> HIDE DEF list
<1>4. records \in [Users -> Seq(Record)]
  BY DEF PoolInv, TypeOK, Record
<1>5. records'[u] = list /\ \A v \in Users \ {u} : records'[v] = records[v]
  BY <1>3, <1>4
<1>6. \A v \in Users : \A c \in Int :
         c < currentCycleIndex' => Amount(records'[v], c) = Amount(records[v], c)
  BY <1>2, <1>3, <1>5
<1>7. \A v \in Users \ {u} :
         Amount(records'[v], currentCycleIndex') = Amount(records[v], currentCycleIndex)
  BY <1>3, <1>5, StakeStands
<1>8. QED BY <1>1, <1>3, <1>6, <1>7 DEF StakesStep

LEMMA EveryStakesStep ==
    ASSUME PoolInv, [Next]_vars
    PROVE  StakesStep
<1>1. ASSUME NEW t \in Tokens, NEW n, DepositToken(t, n) PROVE StakesStep
  BY <1>1, StakesKept DEF DepositToken, stakeVars
<1>2. ASSUME NEW u \in Users, NEW n \in StakeAmounts, StakeOperation(u, n)
      PROVE  StakesStep
  BY <1>2, StakeIsSet, StakeChanged DEF PoolInv
<1>3. CASE Tick \/ TryNewCycle \/ UNCHANGED vars
  BY <1>3, StakesKept DEF Tick, TryNewCycle, vars, stakeVars
<1>4. ASSUME NEW t, NEW n, TransferIn(t, n) PROVE StakesStep
  BY <1>4, StakesKept DEF TransferIn, stakeVars
<1>5. ASSUME NEW u, NEW cs, NEW ts, WithdrawDividends(u, cs, ts) PROVE StakesStep
  BY <1>5, StakesKept DEF WithdrawDividends, stakeVars
<1>6. ASSUME NEW c, NEW t, Pay(c, t) PROVE StakesStep
  BY <1>6, StakesKept DEF Pay, stakeVars
<1>7. QED
  <2>1. Native \in Tokens
    BY DEF Tokens
  <2>2. QED
    BY <1>1, <1>2, <1>3, <1>4, <1>5, <1>6, <2>1
       DEF Next, Receive, Deposit, UpdateTokenBalance, StakeOperation

LEMMA EveryCyclesStep ==
    ASSUME PoolInv, [Next]_vars, NEW c \in Cycles, c < currentCycleIndex
    PROVE  cycles'[c] = cycles[c]
<1>1. Opened \in [Cycles -> CycleRecord] /\ Cycle \in Cycles /\ Opened[c] = cycles[c]
  BY CycleBegun DEF PoolInv
<1>2. c # Cycle
  <2>1. c \in Nat
    BY DEF Cycles
  <2>2. QED BY <2>1, CycleOrder DEF PoolInv
<1>3. ASSUME NEW t \in Tokens, NEW n, DepositToken(t, n) PROVE cycles'[c] = cycles[c]
  BY <1>1, <1>2, <1>3 DEF DepositToken
<1>4. ASSUME cycles' = cycles \/ cycles' = Opened PROVE cycles'[c] = cycles[c]
  BY <1>1, <1>4
<1>5. ASSUME NEW u \in Users, NEW n \in StakeAmounts, StakeOperation(u, n)
      PROVE  cycles'[c] = cycles[c]
  BY <1>4, <1>5, StakeIsSet DEF PoolInv, SetStake
<1>6. CASE Tick \/ TryNewCycle \/ UNCHANGED vars
  BY <1>4, <1>6 DEF Tick, TryNewCycle, vars
<1>7. ASSUME NEW t, NEW n, TransferIn(t, n) PROVE cycles'[c] = cycles[c]
  BY <1>4, <1>7 DEF TransferIn
<1>8. ASSUME NEW u, NEW cs, NEW ts, WithdrawDividends(u, cs, ts) PROVE cycles'[c] = cycles[c]
  BY <1>4, <1>8 DEF WithdrawDividends
<1>9. ASSUME NEW k, NEW t, Pay(k, t) PROVE cycles'[c] = cycles[c]
  BY <1>4, <1>9 DEF Pay
<1>10. QED
  <2>1. Native \in Tokens
    BY DEF Tokens
  <2>2. QED
    BY <1>3, <1>5, <1>6, <1>7, <1>8, <1>9, <2>1
       DEF Next, Receive, Deposit, UpdateTokenBalance, StakeOperation

\* What was staked in a cycle that is over, its total and its rewards are final,
\* so that nobody can change what a past cycle pays.
THEOREM HistoryStaysFrozen == Spec => HistoryFrozen
<1>1. ASSUME PoolInv, [Next]_vars, NEW c \in Cycles, c < currentCycleIndex
      PROVE  /\ cycles'[c] = cycles[c]
             /\ \A u \in Users : StakeAmount(u, c)' = StakeAmount(u, c)
  <2>1. c \in Int /\ currentCycleIndex \in Nat
    BY <1>1, CycleOrder DEF PoolInv, Cycles
  <2>2. c < currentCycleIndex'
    BY <1>1, <2>1, EveryStakesStep DEF StakesStep
  <2>3. \A u \in Users : Amount(records'[u], c) = Amount(records[u], c)
    BY <1>1, <2>1, <2>2, EveryStakesStep DEF StakesStep
  <2>4. QED BY <1>1, <2>3, EveryCyclesStep DEF StakeAmount
<1>2. PoolInv /\ [Next]_vars =>
      [\A c \in Cycles : c < currentCycleIndex =>
          /\ cycles'[c] = cycles[c]
          /\ \A u \in Users : StakeAmount(u, c)' = StakeAmount(u, c)]_vars
  BY <1>1
<1>3. QED BY <1>2, InvHolds, PTL DEF Spec, HistoryFrozen

\* What Append is, element by element.
LEMMA AppendIs ==
    ASSUME NEW S, NEW list \in Seq(S), NEW e \in S
    PROVE  Append(list, e)
             = [i \in 1 .. Len(list) + 1 |-> IF i = Len(list) + 1 THEN e ELSE list[i]]
<1> DEFINE longer == [i \in 1 .. Len(list) + 1 |-> IF i = Len(list) + 1 THEN e ELSE list[i]]
<1>1. longer \in Seq(S) /\ Len(longer) = Len(list) + 1
  OBVIOUS
<1>2. Append(list, e) \in Seq(S) /\ Len(Append(list, e)) = Len(list) + 1
  OBVIOUS
<1>3. \A i \in 1 .. Len(list) + 1 : Append(list, e)[i] = longer[i]
  OBVIOUS
<1> HIDE DEF longer
<1>4. Append(list, e) = longer
  BY <1>1, <1>2, <1>3, SeqEqual
<1>5. QED BY <1>4 DEF longer

\* The initial state and every step, seen as snapshots.
LEMMA SnapshotsInit == Init => Snapshots!Init
<1> SUFFICES ASSUME Init PROVE Snapshots!Init
  OBVIOUS
<1>1. stakeNow = [u \in Users |-> 0]
  <2>1. \A u \in Users : StakeAmount(u, currentCycleIndex) = 0
    BY DEF Init, StakeAmount, Amount, Standing
  <2>2. QED BY <2>1 DEF stakeNow
<1>2. weightsNow = <<>>
  BY DEF Init, weightsNow
<1>3. QED BY <1>1, <1>2 DEF Snapshots!Init

LEMMA SnapshotsNext ==
    PoolInv /\ PoolInv' /\ [Next]_vars => [Snapshots!Next]_<<stakeNow, weightsNow>>
<1> SUFFICES ASSUME PoolInv, PoolInv', [Next]_vars PROVE Snapshots!Next
  OBVIOUS
<1> DEFINE cur == currentCycleIndex
           new == currentCycleIndex'
<1>1. /\ new \in {cur, cur + 1}
      /\ \A u \in Users : \A c \in Int : c < new => Amount(records'[u], c) = Amount(records[u], c)
      /\ \E u : \A v \in Users \ {u} : Amount(records'[v], new) = Amount(records[v], cur)
  BY EveryStakesStep DEF StakesStep
<1>2. cur \in Nat
  BY CycleOrder DEF PoolInv
<1>3. stakeNow' = [u \in Users |-> Amount(records'[u], new)]
  BY DEF stakeNow, StakeAmount
<1>4. stakeNow = [u \in Users |-> Amount(records[u], cur)]
  BY DEF stakeNow, StakeAmount
<1>5. weightsNow' = [c \in 1 .. new |-> [u \in Users |-> Amount(records'[u], c - 1)]]
  BY DEF weightsNow, ShareBasis, StakeAmount
<1>6. weightsNow = [c \in 1 .. cur |-> [u \in Users |-> Amount(records[u], c - 1)]]
  BY DEF weightsNow, ShareBasis, StakeAmount
<1>7. \A c \in 1 .. new :
         [u \in Users |-> Amount(records'[u], c - 1)] = [u \in Users |-> Amount(records[u], c - 1)]
  <2>1. \A c \in 1 .. new : c - 1 \in Int /\ c - 1 < new
    BY <1>1, <1>2
  <2>2. QED BY <1>1, <2>1
<1>8. weightsNow' \in {weightsNow, Append(weightsNow, stakeNow)}
  <2>1. CASE new = cur
    BY <1>5, <1>6, <1>7, <2>1
  <2>2. CASE new = cur + 1
    <3>1. weightsNow \in Seq([Users -> Nat]) /\ Len(weightsNow) = cur
      <4>1. \A c \in 1 .. cur, u \in Users : Amount(records[u], c - 1) \in Nat
        <5>1. \A u \in Users : records[u] \in Seq(Record)
          BY DEF PoolInv, TypeOK, Record
        <5>2. \A c \in 1 .. cur : c - 1 \in Int
          OBVIOUS
        <5>3. QED BY <5>1, <5>2, AmountType
      <4>2. QED BY <1>2, <1>6, <4>1
    <3>2. Append(weightsNow, stakeNow)
            = [c \in 1 .. cur + 1 |-> IF c = cur + 1 THEN stakeNow ELSE weightsNow[c]]
      <4>1. stakeNow \in [Users -> Nat]
        <5>1. \A u \in Users : records[u] \in Seq(Record)
          BY DEF PoolInv, TypeOK, Record
        <5>2. \A u \in Users : Amount(records[u], cur) \in Nat
          BY <1>2, <5>1, AmountType
        <5>3. QED BY <1>4, <5>2
      <4>2. QED
        <5> DEFINE W == [Users -> Nat]
        <5>1. weightsNow \in Seq(W) /\ stakeNow \in W
          BY <3>1, <4>1
        <5> HIDE DEF W
        <5>2. Append(weightsNow, stakeNow)
                = [c \in 1 .. Len(weightsNow) + 1 |->
                      IF c = Len(weightsNow) + 1 THEN stakeNow ELSE weightsNow[c]]
          BY <5>1, AppendIs
        <5>3. QED BY <3>1, <5>2
    <3>3. \A c \in 1 .. cur + 1 :
             [u \in Users |-> Amount(records'[u], c - 1)]
               = IF c = cur + 1 THEN stakeNow ELSE weightsNow[c]
      <4> TAKE c \in 1 .. cur + 1
      <4>1. [u \in Users |-> Amount(records'[u], c - 1)] = [u \in Users |-> Amount(records[u], c - 1)]
        BY <1>7, <2>2
      <4>2. CASE c = cur + 1
        <5>1. c - 1 = cur
          BY <1>2, <4>2
        <5>2. QED BY <1>4, <4>1, <4>2, <5>1
      <4>3. CASE c # cur + 1
        <5>1. c \in 1 .. cur
          BY <1>2, <4>3
        <5>2. QED BY <1>6, <4>1, <4>3, <5>1
      <4>4. QED BY <4>2, <4>3
    <3>4. QED BY <1>5, <2>2, <3>2, <3>3
  <2>3. QED BY <1>1, <2>1, <2>2
<1>9. stakeNow' = stakeNow
      \/ \E u \in Users : stakeNow'[u] \in Nat
                          /\ stakeNow' = [stakeNow EXCEPT ![u] = stakeNow'[u]]
  <2>1. PICK u : \A v \in Users \ {u} : Amount(records'[v], new) = Amount(records[v], cur)
    BY <1>1
  <2>2. CASE u \notin Users
    BY <1>3, <1>4, <2>1, <2>2
  <2>3. CASE u \in Users
    <3>1. Amount(records'[u], new) \in Nat
      <4>1. records'[u] \in Seq(Record)
        BY <2>3 DEF PoolInv, TypeOK, Record
      <4>2. QED BY <1>1, <1>2, <4>1, AmountType
    <3>2. stakeNow' = [stakeNow EXCEPT ![u] = stakeNow'[u]]
      BY <1>3, <1>4, <2>1, <2>3
    <3>3. QED BY <1>3, <2>3, <3>1, <3>2
  <2>4. QED BY <2>2, <2>3
<1>10. QED BY <1>8, <1>9 DEF Snapshots!Next

\* The checkpoints, found by a search from the newest and compacted, implement a
\* record of everybody's stake at the beginning of every cycle.
THEOREM SnapshotsImplemented == Spec => ImplementsSnapshots
<1>1. Init => Snapshots!Init
  BY SnapshotsInit
<1>2. PoolInv /\ PoolInv' /\ [Next]_vars => [Snapshots!Next]_<<stakeNow, weightsNow>>
  BY SnapshotsNext
<1>3. QED BY <1>1, <1>2, InvHolds, PTL DEF Spec, ImplementsSnapshots, Snapshots!Spec

-----------------------------------------------------------------------------
(* Totals *)

\* What any step is: one that leaves what is accounted for alone, the opening of
\* a cycle, a deposit, a change of a stake, a withdrawal or one of its transfers.
Accounted == <<currentCycleIndex, cycles, totalStaked, records, tokenBalances, claimed, payout>>

StepKinds ==
    \/ UNCHANGED Accounted
    \/ TryNewCycle
    \/ \E t \in Tokens : \E n \in Nat : DepositToken(t, n)
    \/ \E u \in Users : \E normal \in Nat : \E dev \in Nat : SetStake(u, normal, dev)
    \/ \E u \in Users : \E cs \in SUBSET Cycles : \E ts \in SUBSET Tokens : WithdrawDividends(u, cs, ts)
    \/ \E c \in Cycles : \E t \in Tokens : Pay(c, t)

LEMMA EveryStepsKind ==
    ASSUME PoolInv, [Next]_vars
    PROVE  StepKinds
<1>1. CASE Tick \/ UNCHANGED vars
  <2>1. UNCHANGED Accounted
    BY <1>1 DEF Accounted, Tick, vars, stakeVars, rewardVars, claimVars
  <2> QED BY <2>1 DEF StepKinds
<1>2. CASE TryNewCycle
  BY <1>2 DEF StepKinds
<1>3. ASSUME NEW t \in Tokens, NEW n \in RewardAmounts, DepositToken(t, n) PROVE StepKinds
  <2>1. n \in Nat
    BY DividendAssumption
  <2> QED BY <1>3, <2>1 DEF StepKinds
<1>4. ASSUME NEW t \in Tokens, NEW n \in RewardAmounts, TransferIn(t, n) PROVE StepKinds
  <2>1. UNCHANGED Accounted
    BY <1>4 DEF Accounted, TransferIn, stakeVars, claimVars
  <2> QED BY <2>1 DEF StepKinds
<1>5. ASSUME NEW t \in Tokens, UpdateTokenBalance(t) PROVE StepKinds
  <2>1. held[t] \in Nat /\ tokenBalances[t] \in Nat /\ tokenBalances[t] <= held[t]
    BY DEF PoolInv, TypeOK, HeldCovers
  <2>2. Unaccounted(t) \in Nat
    BY <2>1 DEF Unaccounted
  <2> QED BY <1>5, <2>2 DEF UpdateTokenBalance, StepKinds
<1>6. ASSUME NEW u \in Users, NEW n \in StakeAmounts, StakeOperation(u, n) PROVE StepKinds
  <2>1. \E normal \in Nat : \E dev \in Nat : SetStake(u, normal, dev)
    BY <1>6, StakeIsSet DEF PoolInv
  <2> QED BY <2>1 DEF StepKinds
<1>7. ASSUME NEW u \in Claimants, NEW cs \in SUBSET Cycles, NEW ts \in SUBSET Tokens,
             WithdrawDividends(u, cs, ts)
      PROVE  StepKinds
  <2>1. u \in Users
    BY DividendAssumption
  <2> QED BY <1>7, <2>1 DEF StepKinds
<1>8. ASSUME NEW c \in Cycles, NEW t \in Tokens, Pay(c, t) PROVE StepKinds
  BY <1>8 DEF StepKinds
<1>9. QED
  <2>1. Native \in Tokens
    BY DEF Tokens
  <2> QED
    BY <1>1, <1>2, <1>3, <1>4, <1>5, <1>6, <1>7, <1>8, <2>1
       DEF Next, Receive, Deposit, StakeOperation

Stakes(list, c) == [u \in Users |-> Amount(list[u], c)]

LEMMA StakesCount ==
    ASSUME TypeOK, NEW c \in Int
    PROVE  Counts(Stakes(records, c), Users)
<1>1. \A u \in Users : Amount(records[u], c) \in Nat
  BY AmountType DEF TypeOK, Record
<1> QED BY <1>1, DividendAssumption DEF Stakes, Counts

\* The property, in the terms of the lemmas.
LEMMA TotalsAre ==
    TotalsMatchRecords <=>
      /\ \A c \in 1 .. currentCycleIndex :
            cycles[c].totalStaked = SumFunctionOnSet(Stakes(records, c - 1), Users)
      /\ totalStaked = SumFunctionOnSet(Stakes(records, currentCycleIndex), Users)
  BY DEF TotalsMatchRecords, SumFunction, Stakes, StakeAmount

\* What the next record of a user is measured against is the stake of the cycle.
LEMMA LatestAmount ==
    ASSUME PoolInv, NEW u \in Users
    PROVE  Latest(u).normal + Latest(u).dev = Amount(records[u], currentCycleIndex)
<1>1. records[u] \in Seq(Record) /\ CompactUpTo(records[u], currentCycleIndex)
  BY DEF PoolInv, TypeOK, Record, RecordsCompact
<1>2. currentCycleIndex \in Int
  BY CycleOrder DEF PoolInv
<1>3. Amount(records[u], currentCycleIndex)
        = IF records[u] = <<>> THEN 0 ELSE Last(records[u]).normal + Last(records[u]).dev
  BY <1>1, <1>2, AmountOfLast DEF CompactUpTo
<1> QED BY <1>3 DEF Latest

\* What a step does to the totals of the cycles: a new one takes the running total.
LEMMA CycleTotals ==
    ASSUME PoolInv, StepKinds
    PROVE  \A c \in Cycles : c <= currentCycleIndex' =>
              cycles'[c].totalStaked = IF c <= currentCycleIndex THEN cycles[c].totalStaked
                                                                 ELSE totalStaked
<1> SUFFICES ASSUME NEW c \in Cycles, c <= currentCycleIndex'
             PROVE  cycles'[c].totalStaked = IF c <= currentCycleIndex THEN cycles[c].totalStaked
                                                                       ELSE totalStaked
  OBVIOUS
<1>1. /\ currentCycleIndex \in Nat /\ Cycle \in Cycles /\ c \in Nat /\ Cycle \in Nat
      /\ Cycle = IF CycleOver THEN currentCycleIndex + 1 ELSE currentCycleIndex
      /\ cycles \in [Cycles -> CycleRecord] /\ Opened \in [Cycles -> CycleRecord]
  <2>1. Cycles \subseteq Nat
    BY DEF Cycles
  <2>2. currentCycleIndex \in Nat /\ Cycle \in Cycles /\ Opened \in [Cycles -> CycleRecord]
    BY CycleBegun, CycleOrder DEF PoolInv
  <2>3. cycles \in [Cycles -> CycleRecord]
    BY DEF PoolInv, TypeOK, CycleRecord
  <2> QED BY <2>1, <2>2, <2>3 DEF Cycle
<1>2. c <= Cycle => Opened[c].totalStaked = IF c <= currentCycleIndex THEN cycles[c].totalStaked
                                                                      ELSE totalStaked
  <2>1. CASE CycleOver
    <3>1. Opened = [cycles EXCEPT ![Cycle] = [start |-> now, totalStaked |-> totalStaked,
                                              rewards |-> CarriedOver]]
      BY <2>1 DEF Opened
    <3>2. CASE c = Cycle
      BY <1>1, <2>1, <3>1, <3>2
    <3>3. CASE c # Cycle
      BY <1>1, <2>1, <3>1, <3>3
    <3> QED BY <3>2, <3>3
  <2>2. CASE ~ CycleOver
    BY <1>1, <2>2 DEF Opened
  <2> QED BY <2>1, <2>2
<1>3. CASE cycles' = cycles /\ currentCycleIndex' = currentCycleIndex
  BY <1>3
<1>4. CASE cycles' = Opened /\ currentCycleIndex' = Cycle
  BY <1>2, <1>4
<1>5. ASSUME NEW t \in Tokens, NEW n \in Nat, DepositToken(t, n)
      PROVE  cycles'[c].totalStaked = IF c <= currentCycleIndex THEN cycles[c].totalStaked
                                                                ELSE totalStaked
  <2>1. currentCycleIndex' = Cycle /\ cycles' = [Opened EXCEPT ![Cycle].rewards[t] = @ + n]
    BY <1>5 DEF DepositToken
  <2>2. PICK r : r = [Opened[Cycle].rewards EXCEPT ![t] = @ + n]
    OBVIOUS
  <2>3. cycles' = [Opened EXCEPT ![Cycle].rewards = r]
    BY <2>1, <2>2
  <2>4. cycles'[c].totalStaked = Opened[c].totalStaked
    BY <1>1, <2>3 DEF CycleRecord
  <2> QED BY <1>2, <2>1, <2>4
<1>6. CASE UNCHANGED Accounted
  BY <1>3, <1>6 DEF Accounted
<1>7. CASE TryNewCycle
  BY <1>4, <1>7 DEF TryNewCycle
<1>8. ASSUME NEW u, NEW normal, NEW dev, SetStake(u, normal, dev)
      PROVE  cycles' = Opened /\ currentCycleIndex' = Cycle
  BY <1>8 DEF SetStake
<1>9. ASSUME NEW u, NEW cs, NEW ts, WithdrawDividends(u, cs, ts)
      PROVE  cycles' = cycles /\ currentCycleIndex' = currentCycleIndex
  BY <1>9 DEF WithdrawDividends
<1>10. ASSUME NEW k, NEW t, Pay(k, t)
      PROVE  cycles' = cycles /\ currentCycleIndex' = currentCycleIndex
  BY <1>10 DEF Pay
<1> QED BY <1>3, <1>4, <1>5, <1>6, <1>7, <1>8, <1>9, <1>10 DEF StepKinds

LEMMA RunningTotal ==
    ASSUME PoolInv, TotalsMatchRecords, StepKinds
    PROVE  totalStaked' = SumFunctionOnSet(Stakes(records', currentCycleIndex'), Users)
<1>1. currentCycleIndex \in Int /\ Cycle \in Int
  BY CycleOrder DEF PoolInv
<1>2. /\ totalStaked = SumFunctionOnSet(Stakes(records, currentCycleIndex), Users)
      /\ Counts(Stakes(records, currentCycleIndex), Users)
  BY <1>1, TotalsAre, StakesCount DEF PoolInv
<1>3. CASE totalStaked' = totalStaked /\ records' = records
           /\ currentCycleIndex' \in {currentCycleIndex, Cycle}
  <2>1. Stakes(records', currentCycleIndex') = Stakes(records, currentCycleIndex)
    BY <1>3, StakeStands DEF Stakes
  <2> QED BY <1>2, <1>3, <2>1
<1>4. ASSUME NEW u \in Users, NEW normal \in Nat, NEW dev \in Nat, SetStake(u, normal, dev)
      PROVE  totalStaked' = SumFunctionOnSet(Stakes(records', currentCycleIndex'), Users)
  <2> DEFINE list == Compacted(Checkpointed(u, normal, dev))
  <2>1. list \in Seq(Record) /\ Amount(list, Cycle) = normal + dev /\ Cycle \in Cycles
    BY CycleBegun, StakeRecorded DEF PoolInv
  <2>2. /\ currentCycleIndex' = Cycle /\ records' = [records EXCEPT ![u] = list]
        /\ totalStaked' = totalStaked + normal + dev - Latest(u).normal - Latest(u).dev
    BY <1>4 DEF SetStake
  <2> HIDE DEF list
  <2>3. records \in [Users -> Seq(Record)]
    BY DEF PoolInv, TypeOK, Record
  <2>4. records' \in [Users -> Seq(Record)]
    BY <2>1, <2>2, <2>3
  <2> DEFINE old == Stakes(records, currentCycleIndex)
             new == Stakes(records', Cycle)
  <2>5. \A v \in Users : v # u => old[v] = new[v]
    BY <2>2, <2>3, StakeStands DEF Stakes
  <2>6. new[u] = normal + dev /\ old[u] = Latest(u).normal + Latest(u).dev
    BY <2>1, <2>2, <2>3, LatestAmount DEF Stakes
  <2>7. Counts(new, Users)
    <3>1. \A v \in Users : Amount(records'[v], Cycle) \in Nat
      BY <1>1, <2>4, AmountType
    <3> QED BY <3>1, DividendAssumption DEF Stakes, Counts
  <2> HIDE DEF old, new
  <2>8. SumFunctionOnSet(new, Users) + old[u] = SumFunctionOnSet(old, Users) + new[u]
    BY <1>2, <2>5, <2>7, SumChanged DEF old
  <2>9. PICK a, b : a = Latest(u).normal /\ b = Latest(u).dev
    OBVIOUS
  <2>10. a \in Nat /\ b \in Nat
    BY <2>9, LatestType DEF PoolInv
  <2>11. PICK s : s = SumFunctionOnSet(new, Users)
    OBVIOUS
  <2>12. s \in Nat /\ totalStaked \in Nat
    BY <2>7, <2>11, SumType DEF PoolInv, TypeOK
  <2>13. s + (a + b) = totalStaked + (normal + dev)
    BY <1>2, <2>6, <2>8, <2>9, <2>11 DEF old
  <2>14. totalStaked' = totalStaked + normal + dev - a - b
    BY <2>2, <2>9
  <2>15. s = totalStaked + normal + dev - a - b
    BY <2>10, <2>12, <2>13
  <2> QED BY <2>2, <2>11, <2>14, <2>15 DEF new
<1> DEFINE Same == /\ totalStaked' = totalStaked /\ records' = records
                    /\ currentCycleIndex' \in {currentCycleIndex, Cycle}
<1>5. UNCHANGED Accounted \/ TryNewCycle => Same
  BY DEF Accounted, TryNewCycle, stakeVars
<1>6. ASSUME NEW t, NEW n, DepositToken(t, n) PROVE Same
  BY <1>6 DEF DepositToken, stakeVars
<1>7. ASSUME NEW u, NEW cs, NEW ts, WithdrawDividends(u, cs, ts) PROVE Same
  BY <1>7 DEF WithdrawDividends, stakeVars
<1>8. ASSUME NEW k, NEW t, Pay(k, t) PROVE Same
  BY <1>8 DEF Pay, stakeVars
<1> QED BY <1>3, <1>4, <1>5, <1>6, <1>7, <1>8 DEF StepKinds

LEMMA TotalsStep ==
    ASSUME PoolInv, TotalsMatchRecords, [Next]_vars
    PROVE  TotalsMatchRecords'
<1>1. StepKinds /\ StakesStep
  BY EveryStepsKind, EveryStakesStep
<1>2. totalStaked' = SumFunctionOnSet(Stakes(records', currentCycleIndex'), Users)
  BY <1>1, RunningTotal
<1>3. ASSUME NEW c \in 1 .. currentCycleIndex'
      PROVE  cycles'[c].totalStaked = SumFunctionOnSet(Stakes(records', c - 1), Users)
  <2>1. /\ currentCycleIndex \in Nat /\ currentCycleIndex' \in {currentCycleIndex, currentCycleIndex + 1}
        /\ currentCycleIndex' \in Cycles
    BY <1>1, CycleOrder, NextInv DEF StakesStep, PoolInv, TypeOK
  <2>2. c \in Nat /\ c - 1 \in Int /\ c - 1 < currentCycleIndex' /\ c <= currentCycleIndex'
    BY <2>1
  <2>3. c \in Cycles
    BY <2>1, <2>2, DividendAssumption DEF Cycles
  <2>4. Stakes(records', c - 1) = Stakes(records, c - 1)
    BY <1>1, <2>2 DEF StakesStep, Stakes
  <2>5. cycles'[c].totalStaked = IF c <= currentCycleIndex THEN cycles[c].totalStaked ELSE totalStaked
    BY <1>1, <2>2, <2>3, CycleTotals
  <2>6. CASE c <= currentCycleIndex
    BY <2>2, <2>4, <2>5, <2>6, TotalsAre
  <2>7. CASE ~ c <= currentCycleIndex
    <3>1. c - 1 = currentCycleIndex
      BY <2>1, <2>2, <2>7
    <3> QED BY <2>4, <2>5, <2>7, <3>1, TotalsAre
  <2> QED BY <2>6, <2>7
<1> QED BY <1>2, <1>3 DEF TotalsMatchRecords, SumFunction, Stakes, StakeAmount

LEMMA TotalsInit == ASSUME Init PROVE TotalsMatchRecords
<1>1. PoolInv
  BY InitInv
<1>2. currentCycleIndex = 0 /\ totalStaked = 0 /\ \A u \in Users : records[u] = <<>>
  BY DEF Init
<1>3. \A u \in Users : Stakes(records, 0)[u] = 0
  BY <1>2, AmountOfLast DEF Stakes, Amount, Standing
<1>4. SumFunctionOnSet(Stakes(records, 0), Users) = 0
  BY <1>3, SumZero, DividendAssumption
<1> QED BY <1>2, <1>4, TotalsAre

\* The total that the rewards of a cycle are divided by is the sum of the stakes its
\* claims are measured by, for any number of users, whatever they staked, unstaked
\* and had compacted since; and the running total is what is staked now.
THEOREM TotalsAlwaysMatch == Spec => []TotalsMatchRecords
<1>1. Init => PoolInv /\ TotalsMatchRecords
  BY InitInv, TotalsInit
<1>2. PoolInv /\ TotalsMatchRecords /\ [Next]_vars => (PoolInv /\ TotalsMatchRecords)'
  BY NextInv, TotalsStep
<1> QED BY <1>1, <1>2, PTL DEF Spec

-----------------------------------------------------------------------------
(* Solvency *)

\* What is claimed, or being paid, is of cycles that are over, and nobody earned
\* anything in the first cycle.
PaidPast ==
    /\ \A u \in Users, c \in Cycles, t \in Tokens : <<u, c, t>> \in claimed => c < currentCycleIndex
    /\ \A p \in payout.rewards : p[1] < currentCycleIndex
    /\ cycles[0].totalStaked = 0

\* What is accounted for and not owed is no more than remainders of divisions.
BooksBalance ==
    \A t \in Tokens : Owed(t) <= tokenBalances[t] /\ tokenBalances[t] - Owed(t) <= Remainders

\* The inductive invariant.
BookInv == PoolInv /\ TotalsMatchRecords /\ PaidPast /\ BooksBalance

Claims == Users \X Cycles
Lines(t) == [p \in Claims |->
    IF p[2] < currentCycleIndex /\ <<p[1], p[2], t>> \notin claimed THEN Share(p[1], p[2], t) ELSE 0]
Dues(t) == [c \in Cycles |->
    IF <<c, t>> \in payout.rewards THEN Share(payout.user, c, t) ELSE 0]
Losses == [c \in Cycles |->
    IF c \in 1 .. currentCycleIndex - 1 /\ cycles[c].totalStaked > 0
    THEN Cardinality(Stakers(c)) - 1 ELSE 0]

LEMMA OwedIs ==
    /\ \A t : Owed(t) = SumFunctionOnSet(Lines(t), Claims) + SumFunctionOnSet(Dues(t), Cycles)
                        + cycles[currentCycleIndex].rewards[t]
    /\ Remainders = SumFunctionOnSet(Losses, Cycles)
  BY DEF Owed, Unclaimed, Pending, Remainders, SumFunction, Lines, Dues, Losses, Claims

LEMMA CyclesFinite == IsFiniteSet(Cycles) /\ IsFiniteSet(Claims) /\ Cycles \subseteq Nat /\ 0 \in Cycles
<1>1. MaxTime \div CycleMinLength \in Nat
  BY DividendAssumption
<1>2. IsFiniteSet(Cycles) /\ Cycles \subseteq Nat /\ 0 \in Cycles
  BY <1>1, FS_Interval DEF Cycles
<1> QED BY <1>2, FS_Product, DividendAssumption DEF Claims

LEMMA LinesCount ==
    ASSUME TypeOK, NEW t \in Tokens
    PROVE  Counts(Lines(t), Claims)
<1>1. \A p \in Claims : Lines(t)[p] \in Nat
  BY ShareType DEF Lines, Claims
<1> QED BY <1>1, CyclesFinite DEF Counts

LEMMA DuesCount ==
    ASSUME TypeOK, NEW t \in Tokens
    PROVE  Counts(Dues(t), Cycles)
<1>1. payout.rewards = {} \/ payout.user \in Users
  BY DEF TypeOK, NoPayout
<1>2. \A c \in Cycles : Dues(t)[c] \in Nat
  BY <1>1, ShareType DEF Dues
<1> QED BY <1>2, CyclesFinite DEF Counts

\* A cycle with a total has somebody who staked for it.
LEMMA StakersSome ==
    ASSUME TypeOK, TotalsMatchRecords, NEW c \in 1 .. currentCycleIndex, cycles[c].totalStaked > 0
    PROVE  /\ IsFiniteSet(Stakers(c)) /\ Cardinality(Stakers(c)) \in Nat \ {0}
           /\ Stakers(c) = {u \in Users : Stakes(records, c - 1)[u] > 0}
<1>1. c - 1 \in Int
  BY CyclesFinite DEF TypeOK
<1>2. Counts(Stakes(records, c - 1), Users)
  BY <1>1, StakesCount
<1>3. cycles[c].totalStaked = SumFunctionOnSet(Stakes(records, c - 1), Users)
  BY TotalsAre
<1>4. Stakers(c) = {u \in Users : Stakes(records, c - 1)[u] > 0}
  BY DEF Stakers, Stakes, StakeAmount
<1>5. IsFiniteSet(Stakers(c)) /\ Cardinality(Stakers(c)) \in Nat
  BY FS_Subset, FS_CardinalityType, DividendAssumption DEF Stakers
<1>6. Stakers(c) # {}
  <2> SUFFICES ASSUME Stakers(c) = {} PROVE FALSE
    OBVIOUS
  <2>1. \A u \in Users : Stakes(records, c - 1)[u] = 0
    BY <1>2, <1>4 DEF Counts
  <2>2. SumFunctionOnSet(Stakes(records, c - 1), Users) = 0
    BY <2>1, SumZero, DividendAssumption
  <2>3. cycles[c].totalStaked = 0
    BY <1>3, <2>2
  <2> QED BY <2>3
<1> QED BY <1>4, <1>5, <1>6, FS_EmptySet

LEMMA LossesCount ==
    ASSUME TypeOK, TotalsMatchRecords
    PROVE  Counts(Losses, Cycles)
<1>1. ASSUME NEW c \in Cycles PROVE Losses[c] \in Nat
  <2>1. CASE c \in 1 .. currentCycleIndex - 1 /\ cycles[c].totalStaked > 0
    <3>1. currentCycleIndex \in Nat
      BY CyclesFinite DEF TypeOK
    <3>2. c \in 1 .. currentCycleIndex
      BY <2>1, <3>1
    <3>3. Cardinality(Stakers(c)) \in Nat \ {0}
      BY <2>1, <3>2, StakersSome
    <3>4. PICK k : k = Cardinality(Stakers(c))
      OBVIOUS
    <3> QED BY <2>1, <3>3, <3>4 DEF Losses
  <2>2. CASE ~ (c \in 1 .. currentCycleIndex - 1 /\ cycles[c].totalStaked > 0)
    BY <2>2 DEF Losses
  <2> QED BY <2>1, <2>2
<1> QED BY <1>1, CyclesFinite DEF Counts

\* The parts of what is owed are numbers.
LEMMA OwedTypes ==
    ASSUME TypeOK, TotalsMatchRecords, NEW t \in Tokens
    PROVE  /\ SumFunctionOnSet(Lines(t), Claims) \in Nat
           /\ SumFunctionOnSet(Dues(t), Cycles) \in Nat
           /\ cycles[currentCycleIndex].rewards[t] \in Nat
           /\ tokenBalances[t] \in Nat /\ SumFunctionOnSet(Losses, Cycles) \in Nat
<1>1. cycles[currentCycleIndex].rewards[t] \in Nat /\ tokenBalances[t] \in Nat
  BY DEF TypeOK
<1> QED BY <1>1, LinesCount, DuesCount, LossesCount, SumType

\* The shares of a cycle that is ending are no more than its rewards, and less
\* remains of these than there are stakers.
LEMMA SharesOfCycle ==
    ASSUME PoolInv, TotalsMatchRecords, PaidPast, NEW t \in Tokens,
           NEW c \in Cycles, c = currentCycleIndex,
           NEW shares, shares = [u \in Users |-> Share(u, c, t)]
    PROVE  /\ Counts(shares, Users)
           /\ cycles[c].totalStaked = 0 => SumFunctionOnSet(shares, Users) = 0
           /\ cycles[c].totalStaked > 0 =>
                 /\ SumFunctionOnSet(shares, Users) <= cycles[c].rewards[t]
                 /\ cycles[c].rewards[t] - SumFunctionOnSet(shares, Users)
                       <= Cardinality(Stakers(c)) - 1
<1>1. Counts(shares, Users)
  BY ShareType, DividendAssumption DEF PoolInv, Counts
<1>2. cycles[c].totalStaked = 0 => SumFunctionOnSet(shares, Users) = 0
  <2>1. cycles[c].totalStaked = 0 => \A u \in Users : shares[u] = 0
    BY DEF Share, Earns
  <2> QED BY <2>1, SumZero, DividendAssumption
<1>3. ASSUME cycles[c].totalStaked > 0
      PROVE  /\ SumFunctionOnSet(shares, Users) <= cycles[c].rewards[t]
             /\ cycles[c].rewards[t] - SumFunctionOnSet(shares, Users)
                   <= Cardinality(Stakers(c)) - 1
  <2>1. c # 0 /\ c \in Nat
    BY <1>3, CyclesFinite DEF PaidPast
  <2>2. c \in 1 .. currentCycleIndex /\ c - 1 \in Int
    BY <2>1
  <2> DEFINE part == Stakes(records, c - 1)
  <2>3. Counts(part, Users)
    BY <2>2, StakesCount DEF PoolInv
  <2>4. PICK total : total = cycles[c].totalStaked
    OBVIOUS
  <2>5. total = SumFunctionOnSet(part, Users) /\ total # 0 /\ total \in Nat
    BY <1>3, <2>2, <2>4, TotalsAre DEF PoolInv, TypeOK
  <2>6. PICK amount : amount = cycles[c].rewards[t]
    OBVIOUS
  <2>7. amount \in Nat
    BY <2>6 DEF PoolInv, TypeOK
  <2>8. \A u \in Users : shares[u] = (amount * part[u]) \div total
    <3> SUFFICES ASSUME NEW u \in Users
                 PROVE  Share(u, c, t) = (amount * part[u]) \div total
      OBVIOUS
    <3>1. ShareBasis(u, c) = part[u] /\ part[u] \in Nat
      BY <2>3 DEF ShareBasis, StakeAmount, Stakes, Counts
    <3>2. CASE part[u] = 0
      <4>1. amount * 0 = 0 /\ 0 \div total = 0
        BY <2>5, <2>7
      <4> QED BY <3>1, <3>2, <4>1 DEF Share, Earns
    <3>3. CASE part[u] # 0
      BY <2>1, <2>4, <2>5, <2>6, <3>1, <3>3 DEF Share, Earns
    <3> QED BY <3>2, <3>3
  <2>9. Stakers(c) = {u \in Users : part[u] > 0}
    BY <1>3, <2>2, StakersSome DEF PoolInv
  <2> HIDE DEF part
  <2>10. /\ SumFunctionOnSet(shares, Users) <= amount
         /\ amount - SumFunctionOnSet(shares, Users) <= Cardinality({u \in Users : part[u] > 0}) - 1
    BY <2>3, <2>5, <2>7, <2>8, SharesOfTotal
  <2> QED BY <2>6, <2>9, <2>10
<1> QED BY <1>1, <1>2, <1>3

\* What the operations that work in a cycle do to the books: they may end a cycle
\* and open the next, to which the rewards of an unstaked one are carried over, and
\* they deposit n[t] of each token t.
Advances(n) ==
    /\ currentCycleIndex' \in {currentCycleIndex, currentCycleIndex + 1}
    /\ claimed' = claimed /\ payout' = payout
    /\ \A t \in Tokens : tokenBalances'[t] = tokenBalances[t] + n[t]
    /\ \A c \in Cycles : c < currentCycleIndex' => cycles'[c] = cycles[c]
    /\ \A t \in Tokens :
          cycles'[currentCycleIndex'].rewards[t] =
              (IF currentCycleIndex' = currentCycleIndex THEN cycles[currentCycleIndex].rewards[t]
                                                         ELSE CarriedOver[t]) + n[t]

LEMMA OpenedAdvances ==
    ASSUME PoolInv, currentCycleIndex' = Cycle, cycles' = Opened,
           UNCHANGED <<claimed, payout, tokenBalances>>
    PROVE  Advances([t \in Tokens |-> 0])
<1>1. /\ currentCycleIndex \in Nat /\ currentCycleIndex \in Cycles /\ Cycles \subseteq Nat
      /\ cycles \in [Cycles -> CycleRecord] /\ tokenBalances \in [Tokens -> Nat]
      /\ Cycle \in Cycles /\ Cycle \in {currentCycleIndex, currentCycleIndex + 1}
  BY CycleOrder, CycleBegun, CyclesFinite DEF PoolInv, TypeOK, CycleRecord
<1>2. CarriedOver \in [Tokens -> Nat] /\ cycles[currentCycleIndex].rewards \in [Tokens -> Nat]
  BY <1>1 DEF CarriedOver, NoRewards, CycleRecord
<1>3. \A c \in Cycles : c < Cycle => Opened[c] = cycles[c]
  BY <1>1 DEF Opened, Cycle
<1>4. ASSUME NEW t \in Tokens
      PROVE  Opened[Cycle].rewards[t] =
                (IF Cycle = currentCycleIndex THEN cycles[currentCycleIndex].rewards[t]
                                              ELSE CarriedOver[t]) + 0
  <2>1. CASE CycleOver
    <3>1. Opened[Cycle].rewards = CarriedOver /\ Cycle # currentCycleIndex
      BY <1>1, <2>1 DEF Opened, Cycle
    <3> QED BY <1>2, <3>1
  <2>2. CASE ~ CycleOver
    <3>1. Opened[Cycle].rewards = cycles[currentCycleIndex].rewards /\ Cycle = currentCycleIndex
      BY <2>2 DEF Opened, Cycle
    <3> QED BY <1>2, <3>1
  <2> QED BY <2>1, <2>2
<1>5. PICK n : n = [t \in Tokens |-> 0]
  OBVIOUS
<1>6. \A t \in Tokens : n[t] = 0 /\ tokenBalances'[t] = tokenBalances[t] + n[t]
  BY <1>1, <1>5
<1>7. Advances(n)
  BY <1>1, <1>3, <1>4, <1>6 DEF Advances
<1> QED BY <1>5, <1>7

LEMMA DepositAdvances ==
    ASSUME PoolInv, NEW s \in Tokens, NEW n \in Nat, DepositToken(s, n)
    PROVE  Advances([t \in Tokens |-> IF t = s THEN n ELSE 0])
<1>1. /\ currentCycleIndex \in Nat /\ currentCycleIndex \in Cycles /\ Cycles \subseteq Nat
      /\ cycles \in [Cycles -> CycleRecord] /\ tokenBalances \in [Tokens -> Nat]
      /\ Cycle \in Cycles /\ Cycle \in {currentCycleIndex, currentCycleIndex + 1}
      /\ Opened \in [Cycles -> CycleRecord]
  BY CycleOrder, CycleBegun, CyclesFinite DEF PoolInv, TypeOK, CycleRecord
<1>2. CarriedOver \in [Tokens -> Nat] /\ cycles[currentCycleIndex].rewards \in [Tokens -> Nat]
  BY <1>1 DEF CarriedOver, NoRewards, CycleRecord
<1>3. /\ currentCycleIndex' = Cycle /\ cycles' = [Opened EXCEPT ![Cycle].rewards[s] = @ + n]
      /\ tokenBalances' = [tokenBalances EXCEPT ![s] = @ + n] /\ claimed' = claimed /\ payout' = payout
  BY DEF DepositToken, claimVars
<1>4. PICK r : r = [Opened[Cycle].rewards EXCEPT ![s] = @ + n]
  OBVIOUS
<1>5. cycles' = [Opened EXCEPT ![Cycle].rewards = r]
  BY <1>3, <1>4
<1>6. Opened[Cycle].rewards \in [Tokens -> Nat]
  BY <1>1 DEF CycleRecord
<1>7. \A t \in Tokens : r[t] = Opened[Cycle].rewards[t] + (IF t = s THEN n ELSE 0)
  BY <1>4, <1>6
<1>8. cycles'[Cycle].rewards = r
  BY <1>1, <1>5 DEF CycleRecord
<1>9. \A c \in Cycles : c < Cycle => cycles'[c] = cycles[c]
  <2>1. \A c \in Cycles : c < Cycle => cycles'[c] = Opened[c]
    BY <1>1, <1>5
  <2>2. \A c \in Cycles : c < Cycle => Opened[c] = cycles[c]
    BY <1>1 DEF Opened, Cycle
  <2> QED BY <2>1, <2>2
<1>10. ASSUME NEW t \in Tokens
       PROVE  Opened[Cycle].rewards[t] =
                (IF Cycle = currentCycleIndex THEN cycles[currentCycleIndex].rewards[t]
                                              ELSE CarriedOver[t])
  <2>1. CASE CycleOver
    BY <1>1, <2>1 DEF Opened, Cycle
  <2>2. CASE ~ CycleOver
    BY <2>2 DEF Opened, Cycle
  <2> QED BY <2>1, <2>2
<1>11. \A t \in Tokens : tokenBalances'[t] = tokenBalances[t] + (IF t = s THEN n ELSE 0)
  BY <1>1, <1>3
<1> QED BY <1>1, <1>3, <1>7, <1>8, <1>9, <1>10, <1>11 DEF Advances

\* The shares of cycles that are over stay what they are.
LEMMA SharesStay ==
    ASSUME PoolInv, StakesStep, NEW c \in Cycles, c < currentCycleIndex', cycles'[c] = cycles[c],
           NEW u
    PROVE  u \in Users => \A t : Share(u, c, t)' = Share(u, c, t)
<1> SUFFICES ASSUME u \in Users, NEW t PROVE Share(u, c, t)' = Share(u, c, t)
  OBVIOUS
<1>1. c - 1 \in Int /\ c - 1 < currentCycleIndex'
  BY CyclesFinite DEF StakesStep, PoolInv, TypeOK
<1>2. Amount(records'[u], c - 1) = Amount(records[u], c - 1)
  BY <1>1 DEF StakesStep
<1> QED BY <1>2 DEF Share, Earns, ShareBasis, StakeAmount

LEMMA StakersStay ==
    ASSUME PoolInv, StakesStep, NEW c \in Cycles, c < currentCycleIndex'
    PROVE  Stakers(c)' = Stakers(c)
<1>1. c - 1 \in Int /\ c - 1 < currentCycleIndex'
  BY CyclesFinite DEF StakesStep, PoolInv, TypeOK
<1>2. \A u \in Users : Amount(records'[u], c - 1) = Amount(records[u], c - 1)
  BY <1>1 DEF StakesStep
<1> QED BY <1>2 DEF Stakers, StakeAmount

\* What is being paid, when its shares stay.
LEMMA DuesStay ==
    ASSUME PoolInv, PaidPast, StakesStep, NEW n, Advances(n), NEW t \in Tokens
    PROVE  Dues(t)' = Dues(t)
<1>1. /\ currentCycleIndex \in Nat /\ Cycles \subseteq Nat /\ payout' = payout
      /\ currentCycleIndex' \in {currentCycleIndex, currentCycleIndex + 1}
  BY CycleOrder, CyclesFinite DEF PoolInv, Advances
<1>2. ASSUME NEW c \in Cycles, <<c, t>> \in payout.rewards
      PROVE  Share(payout.user, c, t)' = Share(payout.user, c, t)
  <2>1. c < currentCycleIndex
    BY <1>2 DEF PaidPast
  <2>2. c < currentCycleIndex' /\ cycles'[c] = cycles[c]
    BY <1>1, <2>1 DEF Advances
  <2>3. payout.user \in Users
    BY <1>2 DEF PoolInv, TypeOK, NoPayout
  <2>4. PICK u \in Users : u = payout.user
    BY <2>3
  <2>5. Share(u, c, t)' = Share(u, c, t)
    BY <2>2, SharesStay
  <2>6. payout.user' = u
    BY <1>1, <2>4
  <2> QED BY <2>4, <2>5, <2>6 DEF Share, Earns, ShareBasis, StakeAmount
<1> QED BY <1>1, <1>2 DEF Dues

\* An operation that stays in its cycle leaves the claims of earlier ones alone.
LEMMA CycleGoesOn ==
    ASSUME PoolInv, StakesStep, StepKinds, NEW n, Advances(n), currentCycleIndex' = currentCycleIndex
    PROVE  (\A t \in Tokens : Lines(t)' = Lines(t)) /\ Losses' = Losses
<1>1. currentCycleIndex \in Nat /\ Cycles \subseteq Nat
  BY CycleOrder, CyclesFinite DEF PoolInv
<1>2. ASSUME NEW t \in Tokens PROVE Lines(t)' = Lines(t)
  <2>1. ASSUME NEW p \in Claims, p[2] < currentCycleIndex
        PROVE  Share(p[1], p[2], t)' = Share(p[1], p[2], t)
    <3>1. p[1] \in Users /\ p[2] \in Cycles /\ cycles'[p[2]] = cycles[p[2]]
      BY <2>1 DEF Advances, Claims
    <3> QED BY <2>1, <3>1, SharesStay
  <2> QED BY <2>1 DEF Lines, Advances
<1>3. ASSUME NEW c \in Cycles, c \in 1 .. currentCycleIndex - 1
      PROVE  cycles'[c].totalStaked = cycles[c].totalStaked /\ Stakers(c)' = Stakers(c)
  <2>1. c < currentCycleIndex' /\ c <= currentCycleIndex
    BY <1>1, <1>3
  <2> QED BY <2>1, StakersStay DEF Advances
<1> QED BY <1>2, <1>3 DEF Losses

\* When a cycle ends, the shares of it can be claimed,
LEMMA CycleEndsLines ==
    ASSUME PoolInv, TypeOK', PaidPast, StakesStep, NEW n, Advances(n),
           currentCycleIndex' = currentCycleIndex + 1, NEW t \in Tokens,
           NEW shares, shares = [u \in Users |-> Share(u, currentCycleIndex, t)]
    PROVE  SumFunctionOnSet(Lines(t)', Claims)
             = SumFunctionOnSet(Lines(t), Claims) + SumFunctionOnSet(shares, Users)
<1> DEFINE new == [p \in Claims |-> IF p[2] = currentCycleIndex THEN Share(p[1], p[2], t) ELSE 0]
<1>1. /\ currentCycleIndex \in Nat /\ currentCycleIndex \in Cycles /\ Cycles \subseteq Nat
      /\ IsFiniteSet(Claims) /\ IsFiniteSet(Users)
  BY CycleOrder, CyclesFinite, DividendAssumption DEF PoolInv, TypeOK
<1>2. ASSUME NEW p \in Claims PROVE Lines(t)'[p] = Lines(t)[p] + new[p]
  <2>1. p[1] \in Users /\ p[2] \in Cycles /\ p[2] \in Nat /\ p = <<p[1], p[2]>>
    BY <1>1 DEF Claims
  <2>2. Share(p[1], p[2], t) \in Nat
    BY <2>1, ShareType DEF PoolInv
  <2>3. p[2] < currentCycleIndex' => Share(p[1], p[2], t)' = Share(p[1], p[2], t)
    BY <2>1, SharesStay DEF Advances
  <2>4. CASE p[2] < currentCycleIndex
    <3>1. p[2] < currentCycleIndex' /\ p[2] # currentCycleIndex
      BY <1>1, <2>1, <2>4
    <3> QED BY <2>2, <2>3, <2>4, <3>1 DEF Lines, Advances
  <2>5. CASE p[2] = currentCycleIndex
    <3>1. p[2] < currentCycleIndex' /\ ~ p[2] < currentCycleIndex
      BY <1>1, <2>5
    <3>2. <<p[1], p[2], t>> \notin claimed
      BY <2>1, <3>1 DEF PaidPast
    <3> QED BY <2>2, <2>3, <2>5, <3>1, <3>2 DEF Lines, Advances
  <2>6. CASE ~ p[2] <= currentCycleIndex
    <3>1. ~ p[2] < currentCycleIndex' /\ ~ p[2] < currentCycleIndex /\ p[2] # currentCycleIndex
      BY <1>1, <2>1, <2>6
    <3> QED BY <3>1 DEF Lines
  <2> QED BY <1>1, <2>1, <2>4, <2>5, <2>6
<1>3. Counts(Lines(t), Claims)
  BY LinesCount DEF PoolInv
<1>4. \A p \in Claims : new[p] \in Nat
  BY ShareType DEF PoolInv, Claims
<1>5. Counts(new, Claims)
  BY <1>1, <1>4 DEF Counts
<1>6. /\ \A p \in Users \X Cycles : p[2] # currentCycleIndex => new[p] = 0
      /\ \A u \in Users : shares[u] = new[<<u, currentCycleIndex>>]
  BY <1>1 DEF Claims
<1> HIDE DEF new
<1>7. SumFunctionOnSet(Lines(t)', Claims)
        = SumFunctionOnSet(Lines(t), Claims) + SumFunctionOnSet(new, Claims)
  BY <1>2, <1>3, <1>5, SumBoth
<1>8. SumFunctionOnSet(new, Users \X Cycles) = SumFunctionOnSet(shares, Users)
  BY <1>1, <1>5, <1>6, SumOfColumn DEF Claims
<1> QED BY <1>7, <1>8 DEF Claims

\* and what its division may leave is added to the remainders.
LEMMA CycleEndsLosses ==
    ASSUME PoolInv, TotalsMatchRecords, TypeOK', TotalsMatchRecords', PaidPast, StakesStep, StepKinds,
           NEW n, Advances(n), currentCycleIndex' = currentCycleIndex + 1
    PROVE  SumFunctionOnSet(Losses', Cycles) = SumFunctionOnSet(Losses, Cycles)
             + (IF cycles[currentCycleIndex].totalStaked > 0
                THEN Cardinality(Stakers(currentCycleIndex)) - 1 ELSE 0)
<1> DEFINE m == currentCycleIndex
           lost == IF cycles[m].totalStaked > 0 THEN Cardinality(Stakers(m)) - 1 ELSE 0
<1>1. /\ m \in Nat /\ m \in Cycles /\ Cycles \subseteq Nat /\ currentCycleIndex' \in Nat
  BY CycleOrder, CyclesFinite DEF PoolInv, TypeOK
<1>2. \A c \in Cycles : c <= m => cycles'[c].totalStaked = cycles[c].totalStaked
  BY <1>1, CycleTotals
<1>3. \A c \in Cycles : c <= m => Stakers(c)' = Stakers(c)
  BY <1>1, StakersStay
<1>4. \A c \in Cycles : c # m => Losses[c] = Losses'[c]
  BY <1>1, <1>2, <1>3 DEF Losses
<1>5. Losses[m] = 0
  BY <1>1 DEF Losses
<1>6. Losses'[m] = lost
  <2>1. CASE m = 0
    <3>1. cycles[m].totalStaked = 0
      BY <2>1 DEF PaidPast
    <3> QED BY <1>1, <2>1, <3>1 DEF Losses
  <2>2. CASE m # 0
    <3>1. m \in 1 .. currentCycleIndex' - 1
      BY <1>1, <2>2
    <3> QED BY <1>1, <1>2, <1>3, <3>1 DEF Losses
  <2> QED BY <2>1, <2>2
<1>7. Counts(Losses, Cycles)
  BY LossesCount DEF PoolInv
<1>8. lost \in Nat
  <2>1. CASE cycles[m].totalStaked > 0
    <3>1. m # 0
      BY <2>1 DEF PaidPast
    <3>2. m \in 1 .. currentCycleIndex
      BY <1>1, <3>1
    <3>3. Cardinality(Stakers(m)) \in Nat \ {0}
      BY <2>1, <3>2, StakersSome DEF PoolInv
    <3>4. PICK k : k = Cardinality(Stakers(m))
      OBVIOUS
    <3> QED BY <2>1, <3>3, <3>4
  <2>2. CASE ~ cycles[m].totalStaked > 0
    BY <2>2
  <2> QED BY <2>1, <2>2
<1> HIDE DEF m, lost
<1>9. Counts(Losses', Cycles)
  BY <1>4, <1>6, <1>7, <1>8 DEF Counts
<1>10. PICK f, g : f = Losses /\ g = Losses'
  OBVIOUS
<1>11. SumFunctionOnSet(g, Cycles) + f[m] = SumFunctionOnSet(f, Cycles) + g[m]
  <2>1. /\ Counts(f, Cycles) /\ Counts(g, Cycles) /\ m \in Cycles
        /\ \A c \in Cycles : c # m => f[c] = g[c]
    BY <1>1, <1>4, <1>7, <1>9, <1>10
  <2> HIDE <1>10
  <2> QED BY <2>1, SumChanged
<1>12. PICK a, b : a = SumFunctionOnSet(Losses', Cycles) /\ b = SumFunctionOnSet(Losses, Cycles)
  OBVIOUS
<1>13. a \in Nat /\ b \in Nat /\ lost \in Nat
  BY <1>7, <1>8, <1>9, <1>12, SumType
<1>14. a = b + lost
  BY <1>5, <1>6, <1>12, <1>13, <1>10, <1>11
<1> QED BY <1>12, <1>14 DEF m, lost

\* The books balance when a cycle goes on or ends and something is deposited.
LEMMA AdvanceBalances ==
    ASSUME BookInv, TypeOK', TotalsMatchRecords', StakesStep, StepKinds,
           NEW n, \A t \in Tokens : n[t] \in Nat, Advances(n)
    PROVE  BooksBalance'
<1> DEFINE m == currentCycleIndex
           lost == IF cycles[m].totalStaked > 0 THEN Cardinality(Stakers(m)) - 1 ELSE 0
<1>1. /\ m \in Nat /\ m \in Cycles /\ Cycles \subseteq Nat
      /\ currentCycleIndex' \in {m, m + 1}
  BY CycleOrder, CyclesFinite DEF BookInv, PoolInv, TypeOK, Advances
<1> SUFFICES ASSUME NEW t \in Tokens
             PROVE  /\ Owed(t)' <= tokenBalances'[t]
                    /\ tokenBalances'[t] - Owed(t)' <= Remainders'
  BY DEF BooksBalance
<1>2. PICK l, d, r, b, w :
         /\ l = SumFunctionOnSet(Lines(t), Claims) /\ d = SumFunctionOnSet(Dues(t), Cycles)
         /\ r = cycles[m].rewards[t] /\ b = tokenBalances[t]
         /\ w = SumFunctionOnSet(Losses, Cycles)
  OBVIOUS
<1>3. l \in Nat /\ d \in Nat /\ r \in Nat /\ b \in Nat /\ w \in Nat
  BY <1>2, OwedTypes DEF BookInv, PoolInv
<1>4. l + d + r <= b /\ b - (l + d + r) <= w
  BY <1>2, OwedIs DEF BookInv, BooksBalance
<1>5. Dues(t)' = Dues(t)
  BY DuesStay DEF BookInv
<1>6. PICK k \in Nat : k = n[t]
  OBVIOUS
<1>7. tokenBalances'[t] = b + k
  BY <1>2, <1>6 DEF Advances
<1>8. /\ Owed(t)' = SumFunctionOnSet(Lines(t)', Claims) + d + cycles'[currentCycleIndex'].rewards[t]
      /\ Remainders' = SumFunctionOnSet(Losses', Cycles)
  <2>1. Owed(t)' = SumFunctionOnSet(Lines(t)', Claims) + SumFunctionOnSet(Dues(t)', Cycles)
                     + cycles'[currentCycleIndex'].rewards[t]
    BY DEF Owed, Unclaimed, Pending, SumFunction, Lines, Dues, Claims
  <2>2. Remainders' = SumFunctionOnSet(Losses', Cycles)
    BY DEF Remainders, SumFunction, Losses
  <2> QED BY <1>2, <1>5, <2>1, <2>2
<1>9. CASE currentCycleIndex' = m
  <2>1. Lines(t)' = Lines(t) /\ Losses' = Losses
    BY <1>9, CycleGoesOn DEF BookInv
  <2>2. cycles'[currentCycleIndex'].rewards[t] = r + k
    BY <1>2, <1>6, <1>9 DEF Advances
  <2>3. Owed(t)' = l + d + (r + k) /\ Remainders' = w
    BY <1>2, <1>8, <2>1, <2>2
  <2>4. l + d + (r + k) <= b + k /\ (b + k) - (l + d + (r + k)) <= w
    BY <1>3, <1>4
  <2> QED BY <1>7, <2>3, <2>4
<1>10. CASE currentCycleIndex' = m + 1
  <2>1. PICK shares : shares = [u \in Users |-> Share(u, m, t)]
    OBVIOUS
  <2>2. PICK q : q = SumFunctionOnSet(shares, Users)
    OBVIOUS
  <2>3. q \in Nat
    BY <1>1, <2>1, <2>2, SharesOfCycle, SumType DEF BookInv
  <2>4. SumFunctionOnSet(Lines(t)', Claims) = l + q
    BY <1>2, <1>10, <2>1, <2>2, CycleEndsLines DEF BookInv
  <2>5. SumFunctionOnSet(Losses', Cycles) = w + lost
    BY <1>2, <1>10, CycleEndsLosses DEF BookInv
  <2>6. cycles'[currentCycleIndex'].rewards[t] = CarriedOver[t] + k
    BY <1>1, <1>6, <1>10 DEF Advances
  <2>7. CASE cycles[m].totalStaked = 0
    <3>1. CarriedOver[t] = r /\ lost = 0
      BY <1>2, <2>7 DEF CarriedOver
    <3>2. q = 0
      BY <1>1, <2>1, <2>2, <2>7, SharesOfCycle DEF BookInv
    <3>3. Owed(t)' = (l + 0) + d + (r + k) /\ Remainders' = w + 0
      BY <1>8, <2>4, <2>5, <2>6, <3>1, <3>2
    <3>4. (l + 0) + d + (r + k) <= b + k /\ (b + k) - ((l + 0) + d + (r + k)) <= w + 0
      BY <1>3, <1>4
    <3> QED BY <1>7, <3>3, <3>4
  <2>8. CASE cycles[m].totalStaked # 0
    <3>1. cycles[m].totalStaked > 0
      <4>1. cycles[m].totalStaked \in Nat
        BY <1>1 DEF BookInv, PoolInv, TypeOK
      <4> QED BY <2>8, <4>1
    <3>2. CarriedOver[t] = 0
      BY <2>8 DEF CarriedOver, NoRewards
    <3>3. PICK s : s = Cardinality(Stakers(m))
      OBVIOUS
    <3>4. q <= r /\ r - q <= s - 1 /\ lost = s - 1
      BY <1>1, <1>2, <2>1, <2>2, <3>1, <3>3, SharesOfCycle DEF BookInv
    <3>5. s \in Nat
      <4>1. m # 0
        BY <2>8 DEF BookInv, PaidPast
      <4>2. m \in 1 .. currentCycleIndex
        BY <1>1, <4>1
      <4> QED BY <3>1, <3>3, <4>2, StakersSome DEF BookInv, PoolInv
    <3>6. Owed(t)' = (l + q) + d + (0 + k) /\ Remainders' = w + (s - 1)
      BY <1>8, <2>4, <2>5, <2>6, <3>2, <3>4
    <3>7. (l + q) + d + (0 + k) <= b + k /\ (b + k) - ((l + q) + d + (0 + k)) <= w + (s - 1)
      BY <1>3, <1>4, <2>3, <3>4, <3>5
    <3> QED BY <1>7, <3>6, <3>7
  <2> QED BY <2>7, <2>8
<1> QED BY <1>1, <1>9, <1>10

\* A step that changes neither stakes nor cycles changes no share.
LEMMA SharesUnchanged ==
    ASSUME UNCHANGED <<currentCycleIndex, cycles, records>>
    PROVE  /\ \A u, c, t : Share(u, c, t)' = Share(u, c, t)
           /\ Losses' = Losses /\ \A u, c : Earns(u, c)' = Earns(u, c)
  BY DEF Share, Earns, ShareBasis, StakeAmount, Losses, Stakers

\* A withdrawal moves the shares it claims to those being paid.
LEMMA WithdrawBalances ==
    ASSUME BookInv, TypeOK', NEW u \in Users, NEW cs \in SUBSET Cycles, NEW ts \in SUBSET Tokens,
           WithdrawDividends(u, cs, ts)
    PROVE  BooksBalance'
<1> SUFFICES ASSUME NEW t \in Tokens
             PROVE  /\ Owed(t)' <= tokenBalances'[t]
                    /\ tokenBalances'[t] - Owed(t)' <= Remainders'
  BY DEF BooksBalance
<1>1. /\ UNCHANGED <<currentCycleIndex, cycles, records, tokenBalances>>
      /\ Unguarded /\ \A c \in cs : c < currentCycleIndex
      /\ \A c \in cs \ {0} : \A s \in ts : NotClaimed(u, c, s)
      /\ claimed' = claimed \cup {<<u, c, s>> : c \in {k \in cs : Earns(u, k)}, s \in ts}
      /\ payout' = IF \E c \in cs, s \in ts : Share(u, c, s) > 0
                   THEN [user |-> u, rewards |-> {p \in cs \X ts : Share(u, p[1], p[2]) > 0}]
                   ELSE NoPayout
  BY DEF WithdrawDividends, stakeVars, rewardVars
<1>2. /\ \A v, c, s : Share(v, c, s)' = Share(v, c, s)
      /\ Losses' = Losses
  BY <1>1, SharesUnchanged
<1> DEFINE part(c) == c \in cs /\ t \in ts
           taken == [p \in Claims |-> IF p[1] = u /\ part(p[2]) THEN Share(u, p[2], t) ELSE 0]
           due   == [c \in Cycles |-> IF part(c) THEN Share(u, c, t) ELSE 0]
<1>3. ASSUME NEW p \in Claims PROVE Lines(t)[p] = Lines(t)'[p] + taken[p]
  <2>1. p[1] \in Users /\ p[2] \in Cycles /\ p = <<p[1], p[2]>>
    BY DEF Claims
  <2>2. Share(p[1], p[2], t) \in Nat /\ Share(p[1], p[2], t)' = Share(p[1], p[2], t)
    BY <1>2, <2>1, ShareType DEF BookInv, PoolInv
  <2>3. CASE p[1] = u /\ part(p[2]) /\ Earns(u, p[2])
    <3>1. p[2] # 0
      BY <2>3 DEF Earns
    <3>2. <<p[1], p[2], t>> \notin claimed /\ <<p[1], p[2], t>> \in claimed' /\ p[2] < currentCycleIndex
      BY <1>1, <2>3, <3>1 DEF NotClaimed
    <3> QED BY <2>2, <2>3, <3>2 DEF Lines
  <2>4. CASE p[1] = u /\ part(p[2]) /\ ~ Earns(u, p[2])
    <3>1. Share(p[1], p[2], t) = 0
      BY <2>4 DEF Share
    <3> QED BY <2>2, <2>4, <3>1 DEF Lines
  <2>5. CASE ~ (p[1] = u /\ part(p[2]))
    <3>1. <<p[1], p[2], t>> \in claimed' <=> <<p[1], p[2], t>> \in claimed
      BY <1>1, <2>5
    <3> QED BY <1>1, <2>2, <2>5, <3>1 DEF Lines
  <2> QED BY <2>3, <2>4, <2>5
<1>4. \A c \in Cycles : Dues(t)'[c] = due[c] /\ due[c] \in Nat
  <2> SUFFICES ASSUME NEW c \in Cycles PROVE Dues(t)'[c] = due[c] /\ due[c] \in Nat
    OBVIOUS
  <2>1. Share(u, c, t) \in Nat
    BY ShareType DEF BookInv, PoolInv
  <2>2. CASE part(c) /\ Share(u, c, t) > 0
    <3>1. payout' = [user |-> u, rewards |-> {p \in cs \X ts : Share(u, p[1], p[2]) > 0}]
      BY <1>1, <2>2
    <3>2. <<c, t>> \in payout'.rewards /\ payout'.user = u
      BY <2>2, <3>1
    <3> QED BY <1>2, <2>1, <2>2, <3>2 DEF Dues
  <2>3. CASE ~ (part(c) /\ Share(u, c, t) > 0)
    <3>1. <<c, t>> \notin payout'.rewards
      BY <1>1, <2>3 DEF NoPayout
    <3>2. due[c] = 0
      BY <2>1, <2>3
    <3> QED BY <3>1, <3>2 DEF Dues
  <2> QED BY <2>2, <2>3
<1>5. SumFunctionOnSet(Dues(t), Cycles) = 0
  <2>1. \A c \in Cycles : Dues(t)[c] = 0
    BY <1>1 DEF Dues, Unguarded, NoPayout
  <2> QED BY <2>1, SumZero, CyclesFinite
<1>6. Counts(Lines(t), Claims)
  BY LinesCount DEF BookInv, PoolInv
<1>7. \A p \in Claims : Lines(t)'[p] \in Nat
  <2>1. \A p \in Claims : Share(p[1], p[2], t)' \in Nat
    BY <1>2, ShareType DEF Claims, BookInv, PoolInv
  <2> QED BY <2>1 DEF Lines
<1>8. \A p \in Claims : taken[p] \in Nat
  BY ShareType DEF Claims, BookInv, PoolInv
<1>9. Counts(Lines(t)', Claims) /\ Counts(taken, Claims) /\ Counts(due, Cycles)
  BY <1>4, <1>7, <1>8, CyclesFinite DEF Counts
<1>10. /\ \A p \in Users \X Cycles : p[1] # u => taken[p] = 0
       /\ \A c \in Cycles : due[c] = taken[<<u, c>>]
  BY DEF Claims
<1> HIDE DEF taken, due
<1>11. SumFunctionOnSet(Lines(t), Claims)
         = SumFunctionOnSet(Lines(t)', Claims) + SumFunctionOnSet(taken, Claims)
  BY <1>3, <1>9, SumBoth
<1>12. SumFunctionOnSet(taken, Users \X Cycles) = SumFunctionOnSet(due, Cycles)
  BY <1>9, <1>10, SumOfRow, CyclesFinite DEF Claims
<1>13. SumFunctionOnSet(Dues(t)', Cycles) = SumFunctionOnSet(due, Cycles)
  BY <1>4, SumSame, CyclesFinite
<1>14. PICK l, l2, d : l = SumFunctionOnSet(Lines(t), Claims) /\ l2 = SumFunctionOnSet(Lines(t)', Claims)
                        /\ d = SumFunctionOnSet(due, Cycles)
  OBVIOUS
<1>15. l \in Nat /\ l2 \in Nat /\ d \in Nat /\ l = l2 + d
  BY <1>6, <1>9, <1>11, <1>12, <1>14, SumType DEF Claims
<1>16. PICK r, b, w : r = cycles[currentCycleIndex].rewards[t] /\ b = tokenBalances[t] /\ w = Remainders
  OBVIOUS
<1>17. r \in Nat
  BY <1>16, OwedTypes DEF BookInv, PoolInv
<1>18. Owed(t) = l + 0 + r /\ Remainders' = w
  BY <1>2, <1>5, <1>14, <1>16, OwedIs DEF Remainders, Losses
<1>19. Owed(t)' = l2 + d + r
  BY <1>1, <1>13, <1>14, <1>16 DEF Owed, Unclaimed, Pending, SumFunction, Lines, Dues, Claims
<1>20. Owed(t)' = Owed(t)
  BY <1>15, <1>17, <1>18, <1>19
<1>21. Owed(t) <= b /\ b - Owed(t) <= w
  BY <1>16 DEF BookInv, BooksBalance
<1> QED BY <1>1, <1>16, <1>18, <1>20, <1>21

\* A transfer takes from what is being paid what it takes from what is there.
LEMMA PayBalances ==
    ASSUME BookInv, TypeOK', NEW c \in Cycles, NEW s \in Tokens, Pay(c, s)
    PROVE  BooksBalance'
<1> SUFFICES ASSUME NEW t \in Tokens
             PROVE  /\ Owed(t)' <= tokenBalances'[t]
                    /\ tokenBalances'[t] - Owed(t)' <= Remainders'
  BY DEF BooksBalance
<1>1. PICK u, amount : u = payout.user /\ amount = Share(payout.user, c, s)
  OBVIOUS
<1>2. /\ UNCHANGED <<currentCycleIndex, cycles, records, claimed>>
      /\ <<c, s>> \in payout.rewards /\ tokenBalances' = [tokenBalances EXCEPT ![s] = @ - amount]
      /\ payout' = IF payout.rewards \ {<<c, s>>} = {} THEN NoPayout
                   ELSE [payout EXCEPT !.rewards = payout.rewards \ {<<c, s>>}]
  BY <1>1 DEF Pay, stakeVars
<1>3. payout \in [user : Users, rewards : SUBSET (Cycles \X Tokens)]
  BY <1>2 DEF BookInv, PoolInv, TypeOK, NoPayout
<1>4. u \in Users /\ amount = Share(u, c, s) /\ amount \in Nat
  BY <1>1, <1>3, ShareType DEF BookInv, PoolInv
<1>5. /\ \A v, k, x : Share(v, k, x)' = Share(v, k, x)
      /\ Losses' = Losses
  BY <1>2, SharesUnchanged
<1>6. ASSUME NEW k \in Cycles, <<k, t>> \in payout'.rewards
      PROVE  Share(payout.user, k, t)' = Share(u, k, t)
  <2>1. payout'.user = u
    BY <1>1, <1>2, <1>3, <1>6 DEF NoPayout
  <2>2. Share(u, k, t)' = Share(u, k, t)
    BY <1>5
  <2> QED BY <2>1, <2>2 DEF Share, Earns, ShareBasis, StakeAmount
<1>7. \A k \in Cycles : <<k, t>> \in payout'.rewards <=>
         <<k, t>> \in payout.rewards /\ <<k, t>> # <<c, s>>
  BY <1>2, <1>3 DEF NoPayout
<1>8. PICK f, g : f = Dues(t) /\ g = Dues(t)'
  OBVIOUS
<1>9. \A k \in Cycles : /\ <<k, t>> \in payout.rewards => f[k] = Share(u, k, t)
                        /\ <<k, t>> \notin payout.rewards => f[k] = 0
  BY <1>1, <1>8 DEF Dues
<1>10. \A k \in Cycles : /\ <<k, t>> \in payout'.rewards => g[k] = Share(u, k, t)
                         /\ <<k, t>> \notin payout'.rewards => g[k] = 0
  BY <1>6, <1>8 DEF Dues
<1>11. Lines(t)' = Lines(t)
  BY <1>2, <1>5 DEF Lines
<1>12. Counts(f, Cycles)
  BY <1>8, DuesCount DEF BookInv, PoolInv
<1>13. Counts(g, Cycles)
  <2>1. \A k \in Cycles : Share(u, k, t) \in Nat
    BY <1>4, ShareType DEF BookInv, PoolInv
  <2>2. ASSUME NEW k \in Cycles PROVE g[k] \in Nat
    <3>1. g[k] = Share(u, k, t) \/ g[k] = 0
      BY <1>10
    <3> QED BY <2>1, <3>1
  <2> QED BY <2>2, CyclesFinite DEF Counts
<1>14. PICK l, d, e, r, b, w :
         /\ l = SumFunctionOnSet(Lines(t), Claims)
         /\ d = SumFunctionOnSet(f, Cycles) /\ e = SumFunctionOnSet(g, Cycles)
         /\ r = cycles[currentCycleIndex].rewards[t] /\ b = tokenBalances[t] /\ w = Remainders
  OBVIOUS
<1>15. l \in Nat /\ d \in Nat /\ r \in Nat /\ b \in Nat
  BY <1>8, <1>14, OwedTypes DEF BookInv, PoolInv
<1>16. e \in Nat
  BY <1>13, <1>14, SumType
<1>17. l + d + r <= b /\ b - (l + d + r) <= w
  BY <1>8, <1>14, OwedIs DEF BookInv, BooksBalance
<1>18. Owed(t)' = l + e + r /\ Remainders' = w
  BY <1>2, <1>5, <1>8, <1>11, <1>14 DEF Owed, Unclaimed, Pending, Remainders, SumFunction, Lines,
                                      Dues, Losses, Claims
<1>19. w \in Nat
  BY <1>14, OwedIs, OwedTypes DEF BookInv, PoolInv
<1>20. CASE t = s
  <2>1. \A k \in Cycles : k # c => f[k] = g[k]
    BY <1>7, <1>9, <1>10
  <2>2. f[c] = amount /\ g[c] = 0
    BY <1>2, <1>4, <1>7, <1>9, <1>10, <1>20
  <2>3. SumFunctionOnSet(g, Cycles) + f[c] = SumFunctionOnSet(f, Cycles) + g[c]
    <3> HIDE <1>8
    <3> QED BY <1>12, <1>13, <2>1, SumChanged
  <2>4. e + amount = d
    BY <1>14, <1>15, <2>2, <2>3
  <2>5. tokenBalances'[t] = b - amount
    BY <1>2, <1>14, <1>20 DEF BookInv, PoolInv, TypeOK
  <2>6. l + e + r <= b - amount /\ (b - amount) - (l + e + r) <= w
    BY <1>4, <1>15, <1>16, <1>17, <1>19, <2>4
  <2> QED BY <1>18, <2>5, <2>6
<1>21. CASE t # s
  <2>1. \A k \in Cycles : g[k] = f[k]
    BY <1>7, <1>9, <1>10, <1>21
  <2>2. e = d
    BY <1>14, <2>1, SumSame, CyclesFinite
  <2>3. tokenBalances'[t] = b
    BY <1>2, <1>14, <1>21 DEF BookInv, PoolInv, TypeOK
  <2> QED BY <1>17, <1>18, <2>2, <2>3
<1> QED BY <1>20, <1>21

LEMMA BooksStep ==
    ASSUME BookInv, [Next]_vars
    PROVE  BooksBalance'
<1>1. TypeOK' /\ TotalsMatchRecords' /\ StepKinds /\ StakesStep
  BY NextInv, TotalsStep, EveryStepsKind, EveryStakesStep DEF BookInv, PoolInv
<1>2. CASE UNCHANGED Accounted
  <2>1. \A t \in Tokens : Owed(t)' = Owed(t)
    BY <1>2 DEF Owed, Unclaimed, Pending, Share, Earns, ShareBasis, StakeAmount, Accounted
  <2>2. Remainders' = Remainders
    BY <1>2 DEF Remainders, Stakers, StakeAmount, Accounted
  <2> QED BY <1>2, <2>1, <2>2 DEF BookInv, BooksBalance, Accounted
<1>3. ASSUME currentCycleIndex' = Cycle, cycles' = Opened, UNCHANGED <<claimed, payout, tokenBalances>>
      PROVE  BooksBalance'
  <2>1. PICK n : n = [t \in Tokens |-> 0]
    OBVIOUS
  <2>2. Advances(n)
    BY <1>3, <2>1, OpenedAdvances DEF BookInv
  <2>3. \A t \in Tokens : n[t] \in Nat
    BY <2>1
  <2> QED BY <1>1, <2>2, <2>3, AdvanceBalances
<1>4. ASSUME NEW s \in Tokens, NEW k \in Nat, DepositToken(s, k)
      PROVE  BooksBalance'
  <2>1. PICK n : n = [t \in Tokens |-> IF t = s THEN k ELSE 0]
    OBVIOUS
  <2>2. Advances(n)
    BY <1>4, <2>1, DepositAdvances DEF BookInv
  <2>3. \A t \in Tokens : n[t] \in Nat
    BY <2>1
  <2> QED BY <1>1, <2>2, <2>3, AdvanceBalances
<1>5. CASE TryNewCycle
  BY <1>3, <1>5 DEF TryNewCycle, rewardVars, claimVars
<1>6. ASSUME NEW u, NEW normal, NEW dev, SetStake(u, normal, dev) PROVE BooksBalance'
  BY <1>3, <1>6 DEF SetStake, rewardVars, claimVars
<1>7. ASSUME NEW u \in Users, NEW cs \in SUBSET Cycles, NEW ts \in SUBSET Tokens,
             WithdrawDividends(u, cs, ts)
      PROVE  BooksBalance'
  BY <1>1, <1>7, WithdrawBalances
<1>8. ASSUME NEW c \in Cycles, NEW t \in Tokens, Pay(c, t) PROVE BooksBalance'
  BY <1>1, <1>8, PayBalances
<1> QED BY <1>1, <1>2, <1>4, <1>5, <1>6, <1>7, <1>8 DEF StepKinds

LEMMA PaidPastStep ==
    ASSUME BookInv, [Next]_vars
    PROVE  PaidPast'
<1>1. StepKinds /\ StakesStep /\ TypeOK'
  BY EveryStepsKind, EveryStakesStep, NextInv DEF BookInv, PoolInv
<1>2. /\ currentCycleIndex \in Nat /\ currentCycleIndex' \in {currentCycleIndex, currentCycleIndex + 1}
      /\ Cycles \subseteq Nat /\ 0 \in Cycles
  BY <1>1, CycleOrder, CyclesFinite DEF StakesStep, BookInv, PoolInv
<1>3. cycles'[0].totalStaked = 0
  <2>1. 0 <= currentCycleIndex'
    BY <1>2
  <2>2. cycles'[0].totalStaked = cycles[0].totalStaked
    BY <1>1, <1>2, <2>1, CycleTotals DEF BookInv
  <2> QED BY <2>2 DEF BookInv, PaidPast
<1>4. payout.rewards \in SUBSET (Cycles \X Tokens)
  BY DEF BookInv, PoolInv, TypeOK, NoPayout
<1> DEFINE Past == /\ \A u \in Users, c \in Cycles, t \in Tokens :
                         <<u, c, t>> \in claimed' => c < currentCycleIndex'
                   /\ \A p \in payout'.rewards : p[1] < currentCycleIndex'
<1>5. ASSUME claimed' = claimed, payout'.rewards \subseteq payout.rewards PROVE Past
  <2>1. \A c \in Cycles : c < currentCycleIndex => c < currentCycleIndex'
    BY <1>2
  <2>2. \A p \in payout.rewards : p[1] \in Cycles
    BY <1>4
  <2> QED BY <1>5, <2>1, <2>2 DEF BookInv, PaidPast
<1>6. ASSUME UNCHANGED Accounted PROVE Past
  BY <1>5, <1>6 DEF Accounted
<1>7. ASSUME TryNewCycle PROVE Past
  BY <1>5, <1>7 DEF TryNewCycle, claimVars
<1>8. ASSUME NEW t, NEW n, DepositToken(t, n) PROVE Past
  BY <1>5, <1>8 DEF DepositToken, claimVars
<1>9. ASSUME NEW u, NEW normal, NEW dev, SetStake(u, normal, dev) PROVE Past
  BY <1>5, <1>9 DEF SetStake, claimVars
<1>10. ASSUME NEW u \in Users, NEW cs \in SUBSET Cycles, NEW ts \in SUBSET Tokens,
              WithdrawDividends(u, cs, ts)
       PROVE  Past
  <2>1. \A c \in cs : c < currentCycleIndex
    BY <1>10 DEF WithdrawDividends
  <2>2. \A v, c, t : <<v, c, t>> \in claimed' => <<v, c, t>> \in claimed \/ c \in cs
    BY <1>10 DEF WithdrawDividends
  <2>3. \A p \in payout'.rewards : p[1] \in cs
    BY <1>10 DEF WithdrawDividends, NoPayout
  <2>4. currentCycleIndex' = currentCycleIndex
    BY <1>10 DEF WithdrawDividends
  <2> QED BY <2>1, <2>2, <2>3, <2>4 DEF BookInv, PaidPast
<1>11. ASSUME NEW c \in Cycles, NEW t \in Tokens, Pay(c, t) PROVE Past
  <2>1. payout \in [user : Users, rewards : SUBSET (Cycles \X Tokens)]
    BY <1>11 DEF Pay, BookInv, PoolInv, TypeOK, NoPayout
  <2>2. payout'.rewards \subseteq payout.rewards
    BY <1>11, <2>1 DEF Pay, NoPayout
  <2> QED BY <1>5, <1>11, <2>2 DEF Pay
<1>12. Past
  BY <1>1, <1>6, <1>7, <1>8, <1>9, <1>10, <1>11 DEF StepKinds
<1> QED BY <1>3, <1>12 DEF PaidPast

LEMMA BooksInit == ASSUME Init PROVE PaidPast /\ BooksBalance
<1>1. PoolInv /\ TotalsMatchRecords
  BY InitInv, TotalsInit
<1>2. /\ currentCycleIndex = 0 /\ cycles = [c \in Cycles |-> NoCycle] /\ claimed = {}
      /\ payout = NoPayout /\ tokenBalances = NoRewards
  BY DEF Init
<1>3. PaidPast
  BY <1>2, CyclesFinite DEF PaidPast, NoPayout, NoCycle
<1>4. ASSUME NEW t \in Tokens PROVE Owed(t) = 0 /\ tokenBalances[t] = 0
  <2>1. \A p \in Claims : Lines(t)[p] = 0
    <3>1. \A p \in Claims : p[2] \in Nat
      BY CyclesFinite DEF Claims
    <3>2. \A p \in Claims : ~ p[2] < currentCycleIndex
      BY <1>2, <3>1
    <3> QED BY <3>2 DEF Lines
  <2>2. \A c \in Cycles : Dues(t)[c] = 0
    BY <1>2 DEF Dues, NoPayout
  <2>3. SumFunctionOnSet(Lines(t), Claims) = 0 /\ SumFunctionOnSet(Dues(t), Cycles) = 0
    BY <2>1, <2>2, SumZero, CyclesFinite
  <2>4. cycles[currentCycleIndex].rewards[t] = 0
    BY <1>2, CyclesFinite DEF NoCycle, NoRewards
  <2>5. Owed(t) = 0 + 0 + 0
    BY <2>3, <2>4, OwedIs
  <2> QED BY <1>2, <2>5 DEF NoRewards
<1>5. Remainders \in Nat
  <2>1. Native \in Tokens
    BY DEF Tokens
  <2>2. SumFunctionOnSet(Losses, Cycles) \in Nat
    BY <1>1, <2>1, OwedTypes DEF PoolInv
  <2> QED BY <2>2, OwedIs
<1>6. BooksBalance
  <2>1. PICK w \in Nat : w = Remainders
    BY <1>5
  <2> QED BY <1>4, <2>1 DEF BooksBalance
<1> QED BY <1>3, <1>6

LEMMA BooksHold == Spec => []BookInv
<1>1. Init => BookInv
  BY InitInv, TotalsInit, BooksInit DEF BookInv
<1>2. BookInv /\ [Next]_vars => BookInv'
  BY NextInv, TotalsStep, PaidPastStep, BooksStep DEF BookInv
<1> QED BY <1>1, <1>2, PTL DEF Spec

\* Whatever is owed of a token is there, for any number of users, cycles and
\* tokens: no claim fails for want of tokens, whoever claimed before, in whatever
\* order and from inside which callback.
THEOREM AlwaysSolvent == Spec => []Solvent
<1>1. BookInv => Solvent
  BY DEF BookInv, PoolInv, HeldCovers, BooksBalance, Solvent
<1> QED BY <1>1, BooksHold, PTL

\* And no more is left in the contract than the divisions of the cycles leave, less
\* than one unit for each staker of each of them.
THEOREM NothingIsStranded == Spec => []NothingStranded
<1>1. BookInv => NothingStranded
  BY DEF BookInv, BooksBalance, NothingStranded
<1> QED BY <1>1, BooksHold, PTL
=============================================================================
