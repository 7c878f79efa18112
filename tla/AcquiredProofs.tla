--------------------------- MODULE AcquiredProofs ---------------------------
(***************************************************************************)
(* Proofs about the rounds of the acquired contract: that the balances     *)
(* they share cover them all, that nobody pays too little or buys what is  *)
(* reserved for somebody else.  They hold for every number of rounds, list *)
(* and price, among people who do as they like (ContractSpec) and so on    *)
(* the local stack with its seed (SeedScript), which implements it.        *)
(***************************************************************************)
EXTENDS SeedScript, SequenceTheorems, SumTheorems

PartLists == UNION {[S -> Nat] : S \in SUBSET Accounts}

RoundType ==
    [investor : Accounts, token : SaleTokens, total : Nat, ratio : Nat \X Nat,
     percents : PartLists, bought : PartLists, canEndEarly : BOOLEAN, step1End : Nat,
     step2End : Nat, investedAmount : Nat, daoTokenAmount : Nat, end : BOOLEAN]

\* No more is sold than was offered, and what is sold is what was bought, and paid.
Paid(r) == r.investedAmount * r.ratio[2] * Scale[r.token] <= r.daoTokenAmount * r.ratio[1]

Sound(r) ==
    /\ r \in RoundType /\ r.ratio[2] > 0
    /\ DOMAIN r.bought = DOMAIN r.percents /\ Percents(r.percents) <= Whole
    /\ r.investedAmount = SumFunction(r.bought) /\ r.investedAmount <= r.total
    /\ Paid(r)

\* In step 1 nobody has more than a part.
Within(r, time) ==
    time < r.step1End => \A who \in DOMAIN r.percents : r.bought[who] <= Limit(r, who)

SoundRounds ==
    /\ investments = [i \in Rounds |-> investments[i]] /\ investmentCount \in Nat
    /\ \A i \in Rounds : \/ investments[i] = NoRound
                         \/ /\ i < investmentCount
                            /\ Sound(investments[i]) /\ Within(investments[i], now)

\* What all rounds owe together.
TokensOwed(all, t) == SumFunctionOnSet([i \in Rounds |-> OwedTokens(all[i], t)], Rounds)
NormalOwed(all)    == SumFunctionOnSet([i \in Rounds |-> OwedNormal(all[i])], Rounds)

Backed ==
    /\ stock \in [SaleTokens -> Nat] /\ \A t \in SaleTokens : stock[t] >= TokensOwed(investments, t)
    /\ DOMAIN normal = Holders /\ normal[AcquiredAddress] \in Nat
    /\ normal[AcquiredAddress] >= NormalOwed(investments)

MarketInv == now \in Nat /\ SoundRounds /\ Backed

-----------------------------------------------------------------------------
(* The contract, whatever happens around it *)

\* Anybody starts, buys in and ends any rounds.
RoundsStep ==
    \/ \E sender \in Accounts : \E offer : IsOffer(offer) /\ StartInvestment(sender, offer)
    \/ \E who, i : \E amount \in Nat : Invest(who, i, amount)
    \/ \E sender, i : EndInvestment(sender, i)

\* Time goes on, and tokens are minted and change hands; nobody but the contract
\* itself takes some out of its accounts.
Elsewhere ==
    /\ UNCHANGED <<investmentCount, investments>> /\ now' \in Nat /\ now' >= now
    /\ stock' \in [SaleTokens -> Nat] /\ \A t \in SaleTokens : stock'[t] >= stock[t]
    /\ DOMAIN normal' = Holders /\ normal'[AcquiredAddress] \in Nat
    /\ normal'[AcquiredAddress] >= normal[AcquiredAddress]

ContractInit == /\ AcquiredInit /\ now \in Nat
                /\ DOMAIN normal = Holders /\ normal[AcquiredAddress] \in Nat

ContractVars == <<now, normal, acquiredVars>>

ContractSpec == ContractInit /\ [][RoundsStep \/ Elsewhere]_ContractVars

-----------------------------------------------------------------------------
(* Lists and parts *)

LEMMA RoundsFinite == IsFiniteSet(Rounds)
BY AcquiredAssumption, FS_Interval DEF Rounds

LEMMA ListCounts ==
    ASSUME NEW list \in PartLists
    PROVE  /\ DOMAIN list \in SUBSET Accounts /\ list \in [DOMAIN list -> Nat]
           /\ Counts(list, DOMAIN list)
<1>1. PICK S \in SUBSET Accounts : list \in [S -> Nat]
  BY DEF PartLists
<1>2. IsFiniteSet(S)
  BY ChainAssumption, FS_Subset
<1>3. QED BY <1>1, <1>2 DEF Counts

LEMMA LimitType ==
    ASSUME NEW r \in RoundType, NEW who \in DOMAIN r.percents
    PROVE  /\ r.total * r.percents[who] \in Nat /\ Limit(r, who) \in Nat
           /\ Whole * Limit(r, who) <= r.total * r.percents[who]
<1>1. r.total \in Nat /\ r.percents \in PartLists
  BY DEF RoundType
<1>2. r.percents[who] \in Nat
  BY <1>1, ListCounts DEF Counts
<1>3. PICK n : n = r.total * r.percents[who]
  OBVIOUS
<1>4. n \in Nat
  BY <1>1, <1>2, <1>3, ProductType
<1>5. Whole \in Nat \ {0}
  BY DEF Whole
<1>6. n \div Whole \in Nat /\ n - Whole * (n \div Whole) \in 0 .. Whole - 1
  BY <1>4, <1>5, DivisionRest
<1>7. PICK q : q = n \div Whole
  OBVIOUS
<1>8. Whole * q \in Nat
  BY <1>5, <1>6, <1>7, ProductType
<1>9. Whole * q <= n
  BY <1>4, <1>5, <1>6, <1>7, <1>8
<1>10. QED BY <1>3, <1>4, <1>6, <1>7, <1>9 DEF Limit

\* All the parts together are no more than the whole.
LEMMA LimitsFit ==
    ASSUME NEW r \in RoundType, Percents(r.percents) <= Whole,
           NEW limit, \A who \in DOMAIN r.percents : limit[who] = Limit(r, who)
    PROVE  /\ Counts(limit, DOMAIN r.percents)
           /\ SumFunctionOnSet(limit, DOMAIN r.percents) <= r.total
<1> DEFINE S == DOMAIN r.percents
           whole == [who \in S |-> Whole * limit[who]]
           part  == [who \in S |-> r.total * r.percents[who]]
<1>1. Counts(r.percents, S) /\ IsFiniteSet(S) /\ r.total \in Nat
  <2>1. r.percents \in PartLists /\ r.total \in Nat
    BY DEF RoundType
  <2>2. QED BY <2>1, ListCounts DEF Counts
<1>2. \A who \in S : limit[who] \in Nat /\ whole[who] \in Nat /\ part[who] \in Nat
                     /\ whole[who] <= part[who]
  <2> SUFFICES ASSUME NEW who \in S
               PROVE  limit[who] \in Nat /\ whole[who] \in Nat /\ part[who] \in Nat
                      /\ whole[who] <= part[who]
    OBVIOUS
  <2>1. /\ r.total * r.percents[who] \in Nat /\ Limit(r, who) \in Nat
        /\ Whole * Limit(r, who) <= r.total * r.percents[who]
    BY LimitType
  <2>2. Whole \in Nat
    BY DEF Whole
  <2>3. Whole * Limit(r, who) \in Nat
    BY <2>1, <2>2, ProductType
  <2>4. QED BY <2>1, <2>3
<1>3. Counts(limit, S) /\ Counts(whole, S) /\ Counts(part, S)
  BY <1>1, <1>2 DEF Counts
<1>4. \A who \in S : whole[who] = Whole * limit[who] /\ part[who] = r.total * r.percents[who]
  OBVIOUS
<1> HIDE DEF whole, part
<1>5. Whole \in Nat \ {0}
  BY DEF Whole
<1>6. SumFunctionOnSet(whole, S) = Whole * SumFunctionOnSet(limit, S)
  BY <1>3, <1>4, <1>5, SumTimes
<1>7. SumFunctionOnSet(part, S) = r.total * SumFunctionOnSet(r.percents, S)
  BY <1>1, <1>4, SumTimes
<1>8. SumFunctionOnSet(whole, S) <= SumFunctionOnSet(part, S)
  BY <1>2, <1>3, SumAtMost
<1>9. PICK q, p : q = SumFunctionOnSet(limit, S) /\ p = SumFunctionOnSet(r.percents, S)
  OBVIOUS
<1>10. q \in Nat /\ p \in Nat
  BY <1>1, <1>3, <1>9, SumType
<1>11. p <= Whole
  BY <1>9 DEF Percents, SumFunction
<1>12. r.total * p <= r.total * Whole
  <2>1. PICK k \in Nat : Whole = p + k
    <3>1. Whole - p \in Nat /\ Whole = p + (Whole - p)
      BY <1>5, <1>10, <1>11
    <3>2. QED BY <3>1
  <2>2. r.total * Whole = r.total * p + r.total * k
    BY <1>1, <1>10, <2>1
  <2>3. r.total * p \in Nat /\ r.total * k \in Nat
    BY <1>1, <1>10, <2>1, ProductType
  <2>4. QED BY <2>2, <2>3
<1>13. Whole * q <= Whole * r.total
  <2>1. r.total * Whole = Whole * r.total /\ r.total * p \in Nat /\ Whole * q \in Nat
        /\ r.total * Whole \in Nat
    BY <1>1, <1>5, <1>10, ProductType
  <2>2. Whole * q <= r.total * p
    BY <1>6, <1>7, <1>8, <1>9
  <2>3. QED BY <1>12, <2>1, <2>2
<1>14. q <= r.total
  BY <1>1, <1>5, <1>10, <1>13, ProductOrder
<1>15. QED BY <1>3, <1>9, <1>14

-----------------------------------------------------------------------------
(* What rounds owe *)

LEMMA OwedType ==
    ASSUME NEW r, r = NoRound \/ Sound(r), NEW t
    PROVE  /\ OwedTokens(r, t) \in Nat /\ OwedNormal(r) \in Nat
           /\ r = NoRound => OwedTokens(r, t) = 0 /\ OwedNormal(r) = 0
<1>1. CASE r = NoRound
  BY <1>1 DEF NoRound, OwedTokens, OwedNormal, Unsold
<1>2. CASE Sound(r)
  <2>1. r.total \in Nat /\ r.investedAmount \in Nat /\ r.daoTokenAmount \in Nat
        /\ r.investedAmount <= r.total /\ r.investor \in Accounts
    BY <1>2 DEF Sound, RoundType
  <2>2. r # NoRound
    BY <2>1, AcquiredAssumption DEF NoRound
  <2>3. QED BY <2>1, <2>2 DEF OwedTokens, OwedNormal, Unsold
<1>3. QED BY <1>1, <1>2

\* The sums change by what the one round changes that a transaction is about.
LEMMA OneRoundOwes ==
    ASSUME MarketInv, NEW i \in Rounds, NEW nr, Sound(nr),
           investments' = [investments EXCEPT ![i] = nr]
    PROVE  /\ \A t \in SaleTokens :
                 /\ TokensOwed(investments, t) \in Nat /\ TokensOwed(investments', t) \in Nat
                 /\ TokensOwed(investments', t) + OwedTokens(investments[i], t)
                    = TokensOwed(investments, t) + OwedTokens(nr, t)
           /\ NormalOwed(investments) \in Nat /\ NormalOwed(investments') \in Nat
           /\ NormalOwed(investments') + OwedNormal(investments[i])
              = NormalOwed(investments) + OwedNormal(nr)
<1>1. /\ investments'[i] = nr /\ \A j \in Rounds : j # i => investments'[j] = investments[j]
      /\ \A j \in Rounds : investments[j] = NoRound \/ Sound(investments[j])
  BY DEF MarketInv, SoundRounds
<1>2. \A j \in Rounds : investments'[j] = NoRound \/ Sound(investments'[j])
  BY <1>1
<1>3. ASSUME NEW t \in SaleTokens
      PROVE  /\ TokensOwed(investments, t) \in Nat /\ TokensOwed(investments', t) \in Nat
             /\ TokensOwed(investments', t) + OwedTokens(investments[i], t)
                = TokensOwed(investments, t) + OwedTokens(nr, t)
  <2> DEFINE f == [j \in Rounds |-> OwedTokens(investments[j], t)]
             g == [j \in Rounds |-> OwedTokens(investments'[j], t)]
  <2>1. Counts(f, Rounds) /\ Counts(g, Rounds)
    BY <1>1, <1>2, RoundsFinite, OwedType DEF Counts
  <2>2. /\ \A j \in Rounds : j # i => f[j] = g[j]
        /\ f[i] = OwedTokens(investments[i], t) /\ g[i] = OwedTokens(nr, t)
    BY <1>1
  <2>3. TokensOwed(investments, t) = SumFunctionOnSet(f, Rounds)
        /\ TokensOwed(investments', t) = SumFunctionOnSet(g, Rounds)
    BY DEF TokensOwed
  <2> HIDE DEF f, g
  <2>4. SumFunctionOnSet(g, Rounds) + f[i] = SumFunctionOnSet(f, Rounds) + g[i]
    BY <2>1, <2>2, SumChanged
  <2>5. SumFunctionOnSet(g, Rounds) \in Nat /\ SumFunctionOnSet(f, Rounds) \in Nat
    BY <2>1, SumType
  <2>6. QED BY <2>2, <2>3, <2>4, <2>5
<1>4. /\ NormalOwed(investments) \in Nat /\ NormalOwed(investments') \in Nat
      /\ NormalOwed(investments') + OwedNormal(investments[i])
         = NormalOwed(investments) + OwedNormal(nr)
  <2> DEFINE f == [j \in Rounds |-> OwedNormal(investments[j])]
             g == [j \in Rounds |-> OwedNormal(investments'[j])]
  <2>1. Counts(f, Rounds) /\ Counts(g, Rounds)
    BY <1>1, <1>2, RoundsFinite, OwedType DEF Counts
  <2>2. /\ \A j \in Rounds : j # i => f[j] = g[j]
        /\ f[i] = OwedNormal(investments[i]) /\ g[i] = OwedNormal(nr)
    BY <1>1
  <2>3. NormalOwed(investments) = SumFunctionOnSet(f, Rounds)
        /\ NormalOwed(investments') = SumFunctionOnSet(g, Rounds)
    BY DEF NormalOwed
  <2> HIDE DEF f, g
  <2>4. SumFunctionOnSet(g, Rounds) + f[i] = SumFunctionOnSet(f, Rounds) + g[i]
    BY <2>1, <2>2, SumChanged
  <2>5. SumFunctionOnSet(g, Rounds) \in Nat /\ SumFunctionOnSet(f, Rounds) \in Nat
    BY <2>1, SumType
  <2>6. QED BY <2>2, <2>3, <2>4, <2>5
<1>5. QED BY <1>3, <1>4

\* What is open is sound.
LEMMA OpenSound ==
    ASSUME MarketInv, NEW i, i \in Open
    PROVE  /\ i \in Rounds /\ Sound(investments[i]) /\ Within(investments[i], now)
           /\ i < investmentCount
<1>1. i \in Rounds /\ investments[i] # NoRound
  BY DEF Open, NoRound
<1>2. QED BY <1>1 DEF MarketInv, SoundRounds

\* A transaction that writes one round keeps the others.
LEMMA OneRoundSound ==
    ASSUME MarketInv, NEW i \in Rounds, NEW nr, Sound(nr), Within(nr, now'),
           now' = now, investments' = [investments EXCEPT ![i] = nr],
           investmentCount' \in Nat, investmentCount' >= investmentCount, i < investmentCount'
    PROVE  SoundRounds'
<1>1. investments = [j \in Rounds |-> investments[j]]
  BY DEF MarketInv, SoundRounds
<1>2. investments' = [j \in Rounds |-> investments'[j]]
  BY <1>1
<1>3. ASSUME NEW j \in Rounds
      PROVE  \/ investments'[j] = NoRound
             \/ /\ j < investmentCount'
                /\ Sound(investments'[j]) /\ Within(investments'[j], now')
  <2>1. CASE j = i
    BY <1>1, <2>1
  <2>2. CASE j # i
    <3>1. investments'[j] = investments[j]
      BY <2>2, <1>1
    <3>2. \/ investments[j] = NoRound
          \/ j < investmentCount /\ Sound(investments[j]) /\ Within(investments[j], now)
      BY DEF MarketInv, SoundRounds
    <3>3. j \in Nat /\ investmentCount \in Nat
      BY AcquiredAssumption DEF MarketInv, SoundRounds, Rounds
    <3>4. QED BY <3>1, <3>2, <3>3
  <2>3. QED BY <2>1, <2>2
<1>4. QED BY <1>2, <1>3 DEF SoundRounds

-----------------------------------------------------------------------------
(* A round is started *)

\* The round made of an offer; it owes what is offered.
NewRound(sender, offer) ==
    [NoRound EXCEPT !.investor = sender, !.token = offer.token, !.total = offer.total,
                    !.ratio = offer.ratio, !.percents = offer.percents,
                    !.bought = [who \in DOMAIN offer.percents |-> 0],
                    !.canEndEarly = offer.canEndEarly,
                    !.step1End = now + offer.step1,
                    !.step2End = now + offer.step1 + offer.step2]

LEMMA NewRoundSound ==
    ASSUME now \in Nat, NEW sender \in Accounts, NEW offer, IsOffer(offer),
           Percents(offer.percents) <= Whole, offer.ratio[2] > 0,
           NEW nr, nr = NewRound(sender, offer)
    PROVE  /\ Sound(nr) /\ Within(nr, now)
           /\ \A t : OwedTokens(nr, t) = IF t = offer.token THEN offer.total ELSE 0
           /\ OwedNormal(nr) = 0
<1>1. PICK S \in SUBSET Accounts : offer.percents \in [S -> Nat]
  BY DEF IsOffer
<1>2. DOMAIN offer.percents = S /\ offer.percents \in PartLists
  BY <1>1 DEF PartLists
<1>3. PICK bought : bought = [who \in S |-> 0]
  OBVIOUS
<1>4. bought \in [S -> Nat] /\ bought \in PartLists /\ DOMAIN bought = S
  BY <1>3 DEF PartLists
<1>5. IsFiniteSet(S)
  BY ChainAssumption, FS_Subset
<1>6. SumFunction(bought) = 0
  <2>1. SumFunctionOnSet(bought, S) = 0
    BY <1>3, <1>5, SumZero
  <2>2. QED BY <1>4, <2>1 DEF SumFunction
<1>7. /\ offer.token \in SaleTokens /\ offer.total \in Nat /\ offer.ratio \in Nat \X Nat
      /\ offer.step1 \in Nat /\ offer.step2 \in Nat /\ offer.canEndEarly \in BOOLEAN
  BY DEF IsOffer
<1>8. nr = [investor |-> sender, token |-> offer.token, total |-> offer.total,
            ratio |-> offer.ratio, percents |-> offer.percents, bought |-> bought,
            canEndEarly |-> offer.canEndEarly, step1End |-> now + offer.step1,
            step2End |-> now + offer.step1 + offer.step2, investedAmount |-> 0,
            daoTokenAmount |-> 0, end |-> FALSE]
  BY <1>2, <1>3 DEF NewRound, NoRound
<1>9. /\ nr.token = offer.token /\ nr.total = offer.total /\ nr.ratio = offer.ratio
      /\ nr.percents = offer.percents /\ nr.bought = bought /\ nr.investedAmount = 0
      /\ nr.daoTokenAmount = 0 /\ nr.end = FALSE
  BY <1>8
<1>10. nr \in RoundType
  BY <1>2, <1>4, <1>7, <1>8 DEF RoundType
<1>11. Paid(nr)
  <2>1. Scale[offer.token] \in Nat /\ offer.ratio[1] \in Nat /\ offer.ratio[2] \in Nat
    BY <1>7, AcquiredAssumption
  <2>2. 0 * offer.ratio[2] * Scale[offer.token] = 0 /\ 0 * offer.ratio[1] = 0
    BY <2>1
  <2>3. QED BY <1>9, <2>2 DEF Paid
<1>12. Within(nr, now)
  <2>1. ASSUME NEW who \in S PROVE nr.bought[who] <= Limit(nr, who)
    <3>1. Limit(nr, who) \in Nat
      BY <1>2, <1>9, <1>10, LimitType
    <3>2. nr.bought[who] = 0
      BY <1>3, <1>9
    <3>3. QED BY <3>1, <3>2
  <2>2. QED BY <1>2, <1>9, <2>1 DEF Within
<1>13. Sound(nr)
  BY <1>2, <1>4, <1>6, <1>7, <1>9, <1>10, <1>11 DEF Sound
<1>14. OwedNormal(nr) = 0 /\ \A t : OwedTokens(nr, t) = IF t = offer.token THEN offer.total ELSE 0
  BY <1>7, <1>9 DEF OwedTokens, OwedNormal, Unsold
<1>15. QED BY <1>12, <1>13, <1>14

LEMMA StartKeeps ==
    ASSUME MarketInv, NEW sender \in Accounts, NEW offer, IsOffer(offer),
           StartInvestment(sender, offer)
    PROVE  MarketInv'
<1> DEFINE i == investmentCount
<1>1. PICK nr : nr = NewRound(sender, offer)
  OBVIOUS
<1>2. /\ i \in Rounds /\ Percents(offer.percents) <= Whole /\ offer.ratio[2] > 0
      /\ stock' = [stock EXCEPT ![offer.token] = @ + offer.total]
      /\ now' = now /\ normal' = normal /\ investmentCount' = i + 1
  BY DEF StartInvestment
<1>3. investments' = [investments EXCEPT ![i] = nr]
  BY <1>1 DEF StartInvestment, NewRound
<1>4. /\ Sound(nr) /\ Within(nr, now) /\ OwedNormal(nr) = 0
      /\ \A t : OwedTokens(nr, t) = IF t = offer.token THEN offer.total ELSE 0
  BY <1>1, <1>2, NewRoundSound DEF MarketInv
<1>5. i \in Nat /\ investments[i] = NoRound
  BY <1>2 DEF MarketInv, SoundRounds
<1>6. SoundRounds'
  <2>1. investmentCount' \in Nat /\ investmentCount' >= investmentCount /\ i < investmentCount'
    BY <1>2, <1>5
  <2>2. QED BY <1>2, <1>3, <1>4, <2>1, OneRoundSound
<1>7. OwedNormal(investments[i]) = 0 /\ \A t : OwedTokens(investments[i], t) = 0
  BY <1>5, OwedType
<1>8. offer.token \in SaleTokens /\ offer.total \in Nat
  BY DEF IsOffer
<1>9. /\ \A t \in SaleTokens :
            /\ TokensOwed(investments, t) \in Nat /\ TokensOwed(investments', t) \in Nat
            /\ TokensOwed(investments', t) + OwedTokens(investments[i], t)
               = TokensOwed(investments, t) + OwedTokens(nr, t)
      /\ NormalOwed(investments) \in Nat /\ NormalOwed(investments') \in Nat
      /\ NormalOwed(investments') + OwedNormal(investments[i])
         = NormalOwed(investments) + OwedNormal(nr)
  BY <1>2, <1>3, <1>4, OneRoundOwes
<1>10. stock \in [SaleTokens -> Nat] /\ \A t \in SaleTokens : stock[t] >= TokensOwed(investments, t)
  BY DEF MarketInv, Backed
<1>11. stock' \in [SaleTokens -> Nat] /\ \A t \in SaleTokens : stock'[t] >= TokensOwed(investments', t)
  <2>1. stock' \in [SaleTokens -> Nat]
    BY <1>2, <1>8, <1>10
  <2>2. ASSUME NEW t \in SaleTokens PROVE stock'[t] >= TokensOwed(investments', t)
    <3>1. TokensOwed(investments', t) = TokensOwed(investments, t) + OwedTokens(nr, t)
      BY <1>7, <1>9
    <3>2. stock'[t] = stock[t] + IF t = offer.token THEN offer.total ELSE 0
      BY <1>2, <1>8, <1>10
    <3>3. stock[t] \in Nat /\ stock[t] >= TokensOwed(investments, t)
          /\ TokensOwed(investments, t) \in Nat
      BY <1>9, <1>10
    <3>4. QED BY <1>4, <1>8, <3>1, <3>2, <3>3
  <2>3. QED BY <2>1, <2>2
<1>12. NormalOwed(investments') = NormalOwed(investments)
  BY <1>4, <1>7, <1>9
<1>13. Backed'
  BY <1>2, <1>11, <1>12 DEF MarketInv, Backed
<1>14. QED BY <1>2, <1>6, <1>13 DEF MarketInv

-----------------------------------------------------------------------------
(* A round is ended *)

LEMMA EndedSound ==
    ASSUME NEW r, Sound(r), NEW nr, nr = [r EXCEPT !.end = TRUE], NEW time, Within(r, time)
    PROVE  /\ Sound(nr) /\ Within(nr, time) /\ OwedNormal(nr) = 0
           /\ \A t : OwedTokens(nr, t) = 0
<1>1. r \in RoundType
  BY DEF Sound
<1>2. /\ nr \in RoundType /\ nr.end = TRUE
      /\ nr.token = r.token /\ nr.total = r.total /\ nr.ratio = r.ratio
      /\ nr.percents = r.percents /\ nr.bought = r.bought /\ nr.step1End = r.step1End
      /\ nr.investedAmount = r.investedAmount /\ nr.daoTokenAmount = r.daoTokenAmount
  BY <1>1 DEF RoundType
<1>3. Sound(nr)
  BY <1>2 DEF Sound, Paid
<1>4. \A who : Limit(nr, who) = Limit(r, who)
  BY <1>2 DEF Limit
<1>5. Within(nr, time)
  BY <1>2, <1>4 DEF Within
<1>6. QED BY <1>2, <1>3, <1>5 DEF OwedTokens, OwedNormal

LEMMA EndKeeps ==
    ASSUME MarketInv, NEW sender, NEW i, EndInvestment(sender, i)
    PROVE  MarketInv'
<1> DEFINE r == investments[i]
<1>1. PICK nr : nr = [r EXCEPT !.end = TRUE]
  OBVIOUS
<1>2. /\ i \in Open /\ sender = r.investor /\ ~ r.end
      /\ Transfer(AcquiredAddress, sender, r.daoTokenAmount)
      /\ stock[r.token] >= Unsold(r) /\ stock' = [stock EXCEPT ![r.token] = @ - Unsold(r)]
      /\ now' = now /\ investmentCount' = investmentCount
  BY DEF EndInvestment
<1>3. i \in Rounds /\ Sound(r) /\ Within(r, now) /\ i < investmentCount
  BY <1>2, OpenSound
<1>4. investments' = [investments EXCEPT ![i] = nr]
  BY <1>1 DEF EndInvestment
<1>5. Sound(nr) /\ Within(nr, now) /\ OwedNormal(nr) = 0 /\ \A t : OwedTokens(nr, t) = 0
  BY <1>1, <1>3, EndedSound
<1>6. /\ r.investor \in Accounts /\ r.token \in SaleTokens /\ r.daoTokenAmount \in Nat
      /\ r.total \in Nat /\ r.investedAmount \in Nat /\ r.investedAmount <= r.total
  BY <1>3 DEF Sound, RoundType
<1>7. /\ Unsold(r) \in Nat /\ OwedNormal(r) = r.daoTokenAmount
      /\ \A t : OwedTokens(r, t) = IF t = r.token THEN Unsold(r) ELSE 0
  BY <1>2, <1>6 DEF Unsold, OwedTokens, OwedNormal
<1>8. SoundRounds'
  <2>1. investmentCount \in Nat
    BY DEF MarketInv, SoundRounds
  <2>2. investmentCount' \in Nat /\ investmentCount' >= investmentCount /\ i < investmentCount'
    BY <1>2, <1>3, <2>1
  <2>3. QED BY <1>2, <1>3, <1>4, <1>5, <2>2, OneRoundSound
<1>9. /\ \A t \in SaleTokens :
            /\ TokensOwed(investments, t) \in Nat /\ TokensOwed(investments', t) \in Nat
            /\ TokensOwed(investments', t) + OwedTokens(r, t)
               = TokensOwed(investments, t) + OwedTokens(nr, t)
      /\ NormalOwed(investments) \in Nat /\ NormalOwed(investments') \in Nat
      /\ NormalOwed(investments') + OwedNormal(r) = NormalOwed(investments) + OwedNormal(nr)
  BY <1>3, <1>4, <1>5, OneRoundOwes
<1>10. /\ stock \in [SaleTokens -> Nat] /\ \A t \in SaleTokens : stock[t] >= TokensOwed(investments, t)
       /\ DOMAIN normal = Holders /\ normal[AcquiredAddress] \in Nat
       /\ normal[AcquiredAddress] >= NormalOwed(investments)
  BY DEF MarketInv, Backed
<1> HIDE DEF r
<1>11. stock' \in [SaleTokens -> Nat] /\ \A t \in SaleTokens : stock'[t] >= TokensOwed(investments', t)
  <2>1. stock[r.token] - Unsold(r) \in Nat
    BY <1>2, <1>6, <1>7, <1>10
  <2>2. stock' \in [SaleTokens -> Nat]
    BY <1>2, <1>10, <2>1
  <2>3. ASSUME NEW t \in SaleTokens PROVE stock'[t] >= TokensOwed(investments', t)
    <3>1. TokensOwed(investments', t) + OwedTokens(r, t) = TokensOwed(investments, t)
      BY <1>5, <1>9
    <3>2. stock'[t] = stock[t] - IF t = r.token THEN Unsold(r) ELSE 0
      BY <1>2, <1>10
    <3>3. stock[t] \in Nat /\ stock[t] >= TokensOwed(investments, t)
          /\ TokensOwed(investments, t) \in Nat /\ TokensOwed(investments', t) \in Nat
      BY <1>9, <1>10
    <3>4. QED BY <1>7, <3>1, <3>2, <3>3
  <2>4. QED BY <2>2, <2>3
<1>12. /\ DOMAIN normal' = Holders
       /\ normal'[AcquiredAddress] = normal[AcquiredAddress] - r.daoTokenAmount
       /\ normal[AcquiredAddress] >= r.daoTokenAmount
  BY <1>2, <1>6, <1>10, ChainAssumption DEF Transfer, Holders
<1>13. normal'[AcquiredAddress] \in Nat /\ normal'[AcquiredAddress] >= NormalOwed(investments')
  <2>1. NormalOwed(investments') + r.daoTokenAmount = NormalOwed(investments)
    BY <1>5, <1>7, <1>9
  <2>2. QED BY <1>6, <1>9, <1>10, <1>12, <2>1
<1>14. Backed'
  BY <1>11, <1>12, <1>13 DEF Backed
<1>15. QED BY <1>2, <1>8, <1>14 DEF MarketInv

-----------------------------------------------------------------------------
(* Somebody buys *)

\* What tokens are given for an amount is paid for, in spite of two roundings.
LEMMA PricePaid ==
    ASSUME NEW a \in Nat, NEW b \in Nat \ {0}, NEW c \in Nat \ {0}, NEW amount \in Nat,
           NEW tokens, tokens = ((amount * a) \div b) \div c
    PROVE  tokens \in Nat /\ tokens * b * c <= amount * a
<1>1. PICK n : n = amount * a
  OBVIOUS
<1>2. n \in Nat
  BY <1>1, ProductType
<1>3. n \div b \in Nat /\ n - b * (n \div b) \in 0 .. b - 1
  BY <1>2, DivisionRest
<1>4. PICK q : q = n \div b
  OBVIOUS
<1>5. q \in Nat /\ b * q \in Nat
  BY <1>3, <1>4, ProductType
<1>6. b * q <= n
  BY <1>2, <1>3, <1>4, <1>5
<1>7. q \div c \in Nat /\ q - c * (q \div c) \in 0 .. c - 1
  BY <1>5, DivisionRest
<1>8. tokens = q \div c
  BY <1>1, <1>4
<1>9. tokens \in Nat /\ c * tokens \in Nat
  BY <1>7, <1>8, ProductType
<1>10. c * tokens <= q
  BY <1>5, <1>7, <1>8, <1>9
<1>11. PICK k \in Nat : q = c * tokens + k
  <2>1. q - c * tokens \in Nat /\ q = c * tokens + (q - c * tokens)
    BY <1>5, <1>9, <1>10
  <2>2. QED BY <2>1
<1>12. PICK m : m = c * tokens
  OBVIOUS
<1>13. b * q = b * m + b * k /\ b * m \in Nat /\ b * k \in Nat
  BY <1>9, <1>11, <1>12
<1>14. tokens * b * c = b * m
  BY <1>9, <1>12
<1>15. QED BY <1>1, <1>2, <1>5, <1>6, <1>9, <1>13, <1>14

\* A price that was paid before and is paid for more is paid for all.
LEMMA PricesAdd ==
    ASSUME NEW a \in Nat, NEW b \in Nat, NEW c \in Nat,
           NEW n \in Nat, NEW d \in Nat, NEW tokens \in Nat, NEW amount \in Nat,
           n * b * c <= d * a, tokens * b * c <= amount * a
    PROVE  (n + tokens) * b * c <= (d + amount) * a
<1>1. PICK e : e = b * c
  OBVIOUS
<1>2. e \in Nat
  BY <1>1, ProductType
<1>3. n * b * c = n * e /\ tokens * b * c = tokens * e /\ (n + tokens) * b * c = (n + tokens) * e
  BY <1>1
<1>4. (n + tokens) * e = n * e + tokens * e /\ (d + amount) * a = d * a + amount * a
  BY <1>2
<1>5. n * e \in Nat /\ tokens * e \in Nat /\ d * a \in Nat /\ amount * a \in Nat
  BY <1>2, ProductType
<1>6. QED BY <1>3, <1>4, <1>5

\* The round after a purchase; it owes as many tokens less, and what was paid.
BoughtRound(r, who, tokens, amount) ==
    [r EXCEPT !.bought[who] = @ + tokens, !.investedAmount = @ + tokens,
              !.daoTokenAmount = @ + amount]

LEMMA BoughtSound ==
    ASSUME NEW r, Sound(r), ~ r.end, Within(r, now),
           NEW who, who \in DOMAIN r.percents, NEW amount \in Nat,
           NEW tokens, tokens = TokensFor(r, amount),
           Unsold(r) >= tokens, WithinLimit(r, who, tokens),
           NEW nr, nr = BoughtRound(r, who, tokens, amount)
    PROVE  /\ Sound(nr) /\ Within(nr, now) /\ tokens \in Nat /\ r.token \in SaleTokens
           /\ \A t : /\ OwedTokens(r, t) = IF t = r.token THEN Unsold(r) ELSE 0
                     /\ OwedTokens(nr, t) = IF t = r.token THEN Unsold(r) - tokens ELSE 0
           /\ OwedNormal(nr) = OwedNormal(r) + amount /\ OwedNormal(r) \in Nat
           /\ Unsold(r) \in Nat
<1> DEFINE S == DOMAIN r.percents
<1>1. /\ r \in RoundType /\ r.ratio[2] > 0 /\ DOMAIN r.bought = S
      /\ Percents(r.percents) <= Whole /\ r.investedAmount = SumFunction(r.bought)
      /\ r.investedAmount <= r.total /\ Paid(r)
  BY DEF Sound
<1>2. /\ r.token \in SaleTokens /\ r.total \in Nat /\ r.ratio \in Nat \X Nat
      /\ r.percents \in PartLists /\ r.bought \in PartLists
      /\ r.investedAmount \in Nat /\ r.daoTokenAmount \in Nat /\ r.step1End \in Nat
  BY <1>1 DEF RoundType
<1>3. r.ratio[1] \in Nat /\ r.ratio[2] \in Nat \ {0} /\ Scale[r.token] \in Nat \ {0}
  BY <1>1, <1>2, AcquiredAssumption
<1>4. /\ tokens \in Nat
      /\ tokens * r.ratio[2] * Scale[r.token] <= amount * r.ratio[1]
  <2>1. PICK a, b, c : a = r.ratio[1] /\ b = r.ratio[2] /\ c = Scale[r.token]
    OBVIOUS
  <2>2. tokens = ((amount * a) \div b) \div c
    BY <2>1 DEF TokensFor
  <2>3. a \in Nat /\ b \in Nat \ {0} /\ c \in Nat \ {0}
    BY <1>3, <2>1
  <2>4. QED BY <2>1, <2>2, <2>3, PricePaid
<1>5. PICK bought : bought = [r.bought EXCEPT ![who] = @ + tokens]
  OBVIOUS
<1>6. S \in SUBSET Accounts /\ r.bought \in [S -> Nat] /\ Counts(r.bought, S)
  BY <1>1, <1>2, ListCounts
<1>7. /\ bought \in [S -> Nat] /\ DOMAIN bought = S /\ bought \in PartLists
      /\ bought[who] = r.bought[who] + tokens
      /\ \A x \in S : x # who => bought[x] = r.bought[x]
  <2>1. r.bought[who] \in Nat /\ r.bought[who] + tokens \in Nat
    BY <1>4, <1>6
  <2>2. bought \in [S -> Nat]
    BY <1>5, <1>6, <2>1
  <2>3. QED BY <1>5, <1>6, <2>2 DEF PartLists
<1>8. Counts(bought, S)
  BY <1>6, <1>7 DEF Counts
<1>9. SumFunction(bought) = SumFunction(r.bought) + tokens
  <2>1. SumFunctionOnSet(bought, S) + r.bought[who] = SumFunctionOnSet(r.bought, S) + bought[who]
    BY <1>6, <1>7, <1>8, SumChanged
  <2>2. SumFunctionOnSet(bought, S) \in Nat /\ SumFunctionOnSet(r.bought, S) \in Nat
    BY <1>6, <1>8, SumType
  <2>3. r.bought[who] \in Nat /\ bought[who] = r.bought[who] + tokens
    BY <1>6, <1>7
  <2>4. SumFunctionOnSet(bought, S) = SumFunctionOnSet(r.bought, S) + tokens
    BY <1>4, <2>1, <2>2, <2>3
  <2>5. QED BY <1>1, <1>7, <2>4 DEF SumFunction
<1>10. nr = [r EXCEPT !.bought = bought, !.investedAmount = @ + tokens,
                      !.daoTokenAmount = @ + amount]
  BY <1>1, <1>5 DEF BoughtRound, RoundType
<1>11. PICK invested, paid : invested = r.investedAmount + tokens /\ paid = r.daoTokenAmount + amount
  OBVIOUS
<1>12. invested \in Nat /\ paid \in Nat
  BY <1>2, <1>4, <1>11
<1>13. nr = [r EXCEPT !.bought = bought, !.investedAmount = invested, !.daoTokenAmount = paid]
  BY <1>10, <1>11
<1>14. /\ nr \in RoundType /\ nr.bought = bought /\ nr.investedAmount = invested
       /\ nr.daoTokenAmount = paid /\ nr.token = r.token /\ nr.total = r.total
       /\ nr.ratio = r.ratio /\ nr.percents = r.percents /\ nr.step1End = r.step1End
       /\ nr.end = r.end
  BY <1>1, <1>7, <1>12, <1>13 DEF RoundType
<1>15. invested <= r.total /\ Unsold(r) \in Nat /\ r.total - invested = Unsold(r) - tokens
  BY <1>1, <1>2, <1>4, <1>11 DEF Unsold
<1>16. Paid(nr)
  <2>1. r.investedAmount * r.ratio[2] * Scale[r.token] <= r.daoTokenAmount * r.ratio[1]
    BY <1>1 DEF Paid
  <2>2. (r.investedAmount + tokens) * r.ratio[2] * Scale[r.token]
        <= (r.daoTokenAmount + amount) * r.ratio[1]
    BY <1>2, <1>3, <1>4, <2>1, PricesAdd
  <2>3. QED BY <1>11, <1>14, <2>2 DEF Paid
<1>17. Sound(nr)
  BY <1>1, <1>7, <1>9, <1>11, <1>14, <1>15, <1>16 DEF Sound
<1>18. Within(nr, now)
  <2>1. SUFFICES ASSUME now < r.step1End, NEW x \in S
                 PROVE  bought[x] <= Limit(r, x)
    BY <1>14 DEF Within, Limit
  <2>2. r.bought[x] <= Limit(r, x)
    BY <2>1 DEF Within
  <2>3. CASE x = who
    <3>1. Limit(r, who) - r.bought[who] >= tokens
      BY <2>1 DEF WithinLimit
    <3>2. Limit(r, who) \in Nat /\ r.bought[who] \in Nat
      BY <1>1, <1>6, LimitType
    <3>3. QED BY <1>4, <1>7, <2>3, <3>1, <3>2
  <2>4. CASE x # who
    BY <1>7, <2>2, <2>4
  <2>5. QED BY <2>3, <2>4
<1>19. \A t : /\ OwedTokens(r, t) = IF t = r.token THEN Unsold(r) ELSE 0
              /\ OwedTokens(nr, t) = IF t = r.token THEN Unsold(r) - tokens ELSE 0
  <2>1. Unsold(nr) = Unsold(r) - tokens
    BY <1>14, <1>15 DEF Unsold
  <2>2. QED BY <1>14, <2>1 DEF OwedTokens
<1>20. OwedNormal(nr) = OwedNormal(r) + amount /\ OwedNormal(r) \in Nat
  BY <1>2, <1>11, <1>14 DEF OwedNormal
<1>21. QED BY <1>2, <1>4, <1>15, <1>17, <1>18, <1>19, <1>20

LEMMA InvestKeeps ==
    ASSUME MarketInv, NEW who, NEW i, NEW amount \in Nat, Invest(who, i, amount)
    PROVE  MarketInv'
<1> DEFINE r == investments[i]
           tokens == TokensFor(r, amount)
<1>1. PICK nr : nr = BoughtRound(r, who, tokens, amount)
  OBVIOUS
<1>2. /\ i \in Open /\ who \in DOMAIN r.percents /\ ~ r.end
      /\ Unsold(r) >= tokens /\ WithinLimit(r, who, tokens)
      /\ Transfer(who, AcquiredAddress, amount)
      /\ stock[r.token] >= tokens /\ stock' = [stock EXCEPT ![r.token] = @ - tokens]
      /\ now' = now /\ investmentCount' = investmentCount
  BY DEF Invest, Selling
<1>3. investments' = [investments EXCEPT ![i] = nr]
  BY <1>1, Zenon DEF Invest, BoughtRound
<1>4. i \in Rounds /\ Sound(r) /\ Within(r, now) /\ i < investmentCount
  BY <1>2, OpenSound
<1>5. /\ Sound(nr) /\ Within(nr, now) /\ tokens \in Nat /\ r.token \in SaleTokens
      /\ \A t : /\ OwedTokens(r, t) = IF t = r.token THEN Unsold(r) ELSE 0
                /\ OwedTokens(nr, t) = IF t = r.token THEN Unsold(r) - tokens ELSE 0
      /\ OwedNormal(nr) = OwedNormal(r) + amount /\ OwedNormal(r) \in Nat
      /\ Unsold(r) \in Nat
  BY <1>1, <1>2, <1>4, BoughtSound
<1>6. who \in Accounts
  <2>1. r.percents \in PartLists
    BY <1>4 DEF Sound, RoundType
  <2>2. QED BY <1>2, <2>1, ListCounts
<1>7. SoundRounds'
  <2>1. investmentCount \in Nat
    BY DEF MarketInv, SoundRounds
  <2>2. investmentCount' \in Nat /\ investmentCount' >= investmentCount /\ i < investmentCount'
    BY <1>2, <1>4, <2>1
  <2>3. QED BY <1>2, <1>3, <1>4, <1>5, <2>2, OneRoundSound
<1>8. /\ \A t \in SaleTokens :
            /\ TokensOwed(investments, t) \in Nat /\ TokensOwed(investments', t) \in Nat
            /\ TokensOwed(investments', t) + OwedTokens(r, t)
               = TokensOwed(investments, t) + OwedTokens(nr, t)
      /\ NormalOwed(investments) \in Nat /\ NormalOwed(investments') \in Nat
      /\ NormalOwed(investments') + OwedNormal(r) = NormalOwed(investments) + OwedNormal(nr)
  BY <1>3, <1>4, <1>5, OneRoundOwes
<1>9. /\ stock \in [SaleTokens -> Nat] /\ \A t \in SaleTokens : stock[t] >= TokensOwed(investments, t)
      /\ DOMAIN normal = Holders /\ normal[AcquiredAddress] \in Nat
      /\ normal[AcquiredAddress] >= NormalOwed(investments)
  BY DEF MarketInv, Backed
<1> HIDE DEF r, tokens
<1>10. stock' \in [SaleTokens -> Nat] /\ \A t \in SaleTokens : stock'[t] >= TokensOwed(investments', t)
  <2>1. stock[r.token] - tokens \in Nat
    BY <1>2, <1>5, <1>9
  <2>2. stock' \in [SaleTokens -> Nat]
    BY <1>2, <1>9, <2>1
  <2>3. ASSUME NEW t \in SaleTokens PROVE stock'[t] >= TokensOwed(investments', t)
    <3>1. TokensOwed(investments', t) + OwedTokens(r, t)
          = TokensOwed(investments, t) + OwedTokens(nr, t)
      BY <1>8
    <3>2. stock'[t] = stock[t] - IF t = r.token THEN tokens ELSE 0
      BY <1>2, <1>9
    <3>3. stock[t] \in Nat /\ stock[t] >= TokensOwed(investments, t)
          /\ TokensOwed(investments, t) \in Nat /\ TokensOwed(investments', t) \in Nat
      BY <1>8, <1>9
    <3>4. CASE t = r.token
      <4>1. OwedTokens(r, t) = Unsold(r) /\ OwedTokens(nr, t) = Unsold(r) - tokens
        BY <1>5, <3>4
      <4>2. QED BY <1>2, <1>5, <3>1, <3>2, <3>3, <3>4, <4>1
    <3>5. CASE t # r.token
      <4>1. OwedTokens(r, t) = 0 /\ OwedTokens(nr, t) = 0
        BY <1>5, <3>5
      <4>2. QED BY <3>1, <3>2, <3>3, <3>5, <4>1
    <3>6. QED BY <3>4, <3>5
  <2>4. QED BY <2>2, <2>3
<1>11. DOMAIN normal' = Holders /\ normal'[AcquiredAddress] = normal[AcquiredAddress] + amount
  BY <1>2, <1>6, <1>9, ChainAssumption DEF Transfer, Holders
<1>12. normal'[AcquiredAddress] \in Nat /\ normal'[AcquiredAddress] >= NormalOwed(investments')
  <2>1. NormalOwed(investments') + OwedNormal(r) = NormalOwed(investments) + OwedNormal(r) + amount
    BY <1>5, <1>8
  <2>2. QED BY <1>5, <1>8, <1>9, <1>11, <2>1
<1>13. Backed'
  BY <1>10, <1>11, <1>12 DEF Backed
<1>14. QED BY <1>2, <1>7, <1>13 DEF MarketInv

-----------------------------------------------------------------------------
(* Everything else *)

LEMMA StockSame ==
    ASSUME MarketInv, UNCHANGED acquiredVars
    PROVE  stock' \in [SaleTokens -> Nat] /\ \A t \in SaleTokens : stock'[t] >= stock[t]
<1>1. stock' = stock /\ stock \in [SaleTokens -> Nat]
  BY DEF MarketInv, Backed, acquiredVars
<1>2. \A t \in SaleTokens : stock[t] \in Nat
  BY <1>1
<1>3. QED BY <1>1, <1>2

LEMMA ElsewhereKeeps == ASSUME MarketInv, Elsewhere PROVE MarketInv'
<1>1. /\ investmentCount' = investmentCount /\ investments' = investments
      /\ stock' \in [SaleTokens -> Nat] /\ (\A t \in SaleTokens : stock'[t] >= stock[t])
      /\ now' \in Nat /\ now' >= now /\ DOMAIN normal' = Holders
      /\ normal'[AcquiredAddress] \in Nat /\ normal'[AcquiredAddress] >= normal[AcquiredAddress]
  BY DEF Elsewhere
<1>2. SoundRounds'
  <2>1. ASSUME NEW i \in Rounds
        PROVE  \/ investments'[i] = NoRound
               \/ /\ i < investmentCount'
                  /\ Sound(investments'[i]) /\ Within(investments'[i], now')
    <3>1. CASE investments[i] = NoRound
      BY <1>1, <3>1
    <3>2. CASE i < investmentCount /\ Sound(investments[i]) /\ Within(investments[i], now)
      <4>1. investments[i].step1End \in Nat
        BY <3>2 DEF Sound, RoundType
      <4>2. now' < investments[i].step1End => now < investments[i].step1End
        BY <1>1, <4>1 DEF MarketInv
      <4>3. Within(investments[i], now')
        BY <3>2, <4>2 DEF Within
      <4>4. QED BY <1>1, <3>2, <4>3
    <3>3. QED BY <3>1, <3>2 DEF MarketInv, SoundRounds
  <2>2. investments' = [i \in Rounds |-> investments'[i]] /\ investmentCount' \in Nat
    BY <1>1 DEF MarketInv, SoundRounds
  <2>3. QED BY <2>1, <2>2 DEF SoundRounds
<1>3. NormalOwed(investments) \in Nat
  <2> DEFINE f == [i \in Rounds |-> OwedNormal(investments[i])]
  <2>1. \A i \in Rounds : investments[i] = NoRound \/ Sound(investments[i])
    BY DEF MarketInv, SoundRounds
  <2>2. Counts(f, Rounds)
    BY <2>1, RoundsFinite, OwedType DEF Counts
  <2>3. QED BY <2>2, SumType DEF NormalOwed
<1>4. ASSUME NEW t \in SaleTokens PROVE TokensOwed(investments, t) \in Nat
  <2> DEFINE f == [i \in Rounds |-> OwedTokens(investments[i], t)]
  <2>1. \A i \in Rounds : investments[i] = NoRound \/ Sound(investments[i])
    BY DEF MarketInv, SoundRounds
  <2>2. Counts(f, Rounds)
    BY <2>1, RoundsFinite, OwedType DEF Counts
  <2>3. QED BY <2>2, SumType DEF TokensOwed
<1>5. Backed'
  <2>1. /\ stock \in [SaleTokens -> Nat]
        /\ \A t \in SaleTokens : stock[t] >= TokensOwed(investments, t)
        /\ normal[AcquiredAddress] \in Nat /\ normal[AcquiredAddress] >= NormalOwed(investments)
    BY DEF MarketInv, Backed
  <2>2. normal'[AcquiredAddress] >= NormalOwed(investments)
    BY <1>1, <1>3, <2>1
  <2>3. ASSUME NEW t \in SaleTokens PROVE stock'[t] >= TokensOwed(investments, t)
    <3>1. stock[t] \in Nat /\ stock'[t] \in Nat /\ stock'[t] >= stock[t]
      BY <1>1, <2>1
    <3>2. stock[t] >= TokensOwed(investments, t)
      BY <2>1
    <3>3. QED BY <1>4, <3>1, <3>2
  <2>4. QED BY <1>1, <2>2, <2>3 DEF Backed
<1>6. QED BY <1>1, <1>2, <1>5 DEF MarketInv

-----------------------------------------------------------------------------
(* What the invariant says *)

LEMMA MarketCovers == ASSUME MarketInv PROVE OwedCovered
<1>1. \A t \in SaleTokens :
          stock[t] >= SumFunction([i \in Rounds |-> OwedTokens(investments[i], t)])
  <2> SUFFICES ASSUME NEW t \in SaleTokens
               PROVE  stock[t] >= SumFunction([i \in Rounds |-> OwedTokens(investments[i], t)])
    OBVIOUS
  <2>1. stock[t] >= TokensOwed(investments, t)
    BY DEF MarketInv, Backed
  <2>2. PICK f : f = [i \in Rounds |-> OwedTokens(investments[i], t)]
    OBVIOUS
  <2>3. DOMAIN f = Rounds
    BY <2>2
  <2>4. SumFunction(f) = SumFunctionOnSet(f, Rounds)
    BY <2>3 DEF SumFunction
  <2>5. QED BY <2>1, <2>2, <2>4 DEF TokensOwed
<1>2. normal[AcquiredAddress] >= SumFunction([i \in Rounds |-> OwedNormal(investments[i])])
  <2>1. normal[AcquiredAddress] >= NormalOwed(investments)
    BY DEF MarketInv, Backed
  <2>2. PICK f : f = [i \in Rounds |-> OwedNormal(investments[i])]
    OBVIOUS
  <2>3. DOMAIN f = Rounds
    BY <2>2
  <2>4. SumFunction(f) = SumFunctionOnSet(f, Rounds)
    BY <2>3 DEF SumFunction
  <2>5. QED BY <2>1, <2>2, <2>4 DEF NormalOwed
<1>3. QED BY <1>1, <1>2 DEF OwedCovered

LEMMA SoundIsPaid == ASSUME NEW r, Sound(r) PROVE SoldIsPaid(r)
BY DEF Sound, Paid, SoldIsPaid

LEMMA PartsLimited ==
    ASSUME NEW r, Sound(r), Within(r, now), now < r.step1End, NEW who \in DOMAIN r.percents
    PROVE  r.bought[who] * Whole <= r.total * r.percents[who]
<1>1. r \in RoundType /\ DOMAIN r.bought = DOMAIN r.percents /\ r.bought \in PartLists
  BY DEF Sound, RoundType
<1>2. r.bought[who] \in Nat
  BY <1>1, ListCounts
<1>3. /\ r.total * r.percents[who] \in Nat /\ Limit(r, who) \in Nat
      /\ Whole * Limit(r, who) <= r.total * r.percents[who]
  BY <1>1, LimitType
<1>4. r.bought[who] <= Limit(r, who)
  BY DEF Within
<1>5. r.bought[who] * Whole <= Whole * Limit(r, who)
  BY <1>2, <1>3, <1>4 DEF Whole
<1>6. r.bought[who] * Whole \in Nat /\ Whole * Limit(r, who) \in Nat
  BY <1>2, <1>3 DEF Whole
<1>7. QED BY <1>3, <1>5, <1>6

LEMMA LeftReserved ==
    ASSUME now \in Nat, NEW r, Sound(r), Within(r, now)
    PROVE  Unsold(r) >= SumFunction([who \in DOMAIN r.percents |-> LeftAmount(r, who)])
<1> DEFINE S == DOMAIN r.percents
<1>1. Sound(r) /\ Within(r, now)
  OBVIOUS
<1>2. /\ r \in RoundType /\ DOMAIN r.bought = S /\ Percents(r.percents) <= Whole
      /\ r.investedAmount = SumFunction(r.bought) /\ r.investedAmount <= r.total
  BY <1>1 DEF Sound
<1>3. /\ r.total \in Nat /\ r.investedAmount \in Nat /\ r.percents \in PartLists
      /\ r.bought \in PartLists
  BY <1>2 DEF RoundType
<1>4. Counts(r.bought, S) /\ IsFiniteSet(S)
  BY <1>2, <1>3, ListCounts DEF Counts
<1>5. PICK left : left = [who \in S |-> LeftAmount(r, who)]
  OBVIOUS
<1>6. DOMAIN left = S /\ \A who \in S : left[who] = LeftAmount(r, who)
  BY <1>5
<1>7. SumFunction(left) = SumFunctionOnSet(left, S)
  BY <1>6 DEF SumFunction
<1>8. CASE now < r.step1End
  <2>1. PICK limit : limit = [who \in S |-> Limit(r, who)]
    OBVIOUS
  <2>2. \A who \in S : limit[who] = Limit(r, who)
    BY <2>1
  <2>3. Counts(limit, S) /\ SumFunctionOnSet(limit, S) <= r.total
    BY <1>2, <2>2, LimitsFit
  <2>4. ASSUME NEW who \in S
        PROVE  left[who] \in Nat /\ limit[who] = left[who] + r.bought[who]
    <3>1. r.step1End \in Nat /\ now \in Nat
      BY <1>2 DEF RoundType
    <3>2. left[who] = Limit(r, who) - r.bought[who]
      BY <1>6, <1>8, <3>1 DEF LeftAmount
    <3>3. r.bought[who] <= Limit(r, who)
      BY <1>1, <1>8 DEF Within
    <3>4. Limit(r, who) \in Nat /\ r.bought[who] \in Nat
      BY <1>2, <1>4, LimitType DEF Counts
    <3>5. QED BY <2>2, <3>2, <3>3, <3>4
  <2>5. Counts(left, S)
    BY <1>4, <2>4 DEF Counts
  <2>6. SumFunctionOnSet(limit, S) = SumFunctionOnSet(left, S) + SumFunctionOnSet(r.bought, S)
    BY <1>4, <2>4, <2>5, SumBoth
  <2>7. SumFunctionOnSet(r.bought, S) = r.investedAmount
    BY <1>2 DEF SumFunction
  <2>8. SumFunctionOnSet(left, S) \in Nat
    BY <2>5, SumType
  <2>9. QED BY <1>3, <1>5, <1>7, <2>3, <2>6, <2>7, <2>8 DEF Unsold
<1>9. CASE ~ (now < r.step1End)
  <2>1. r.step1End \in Nat /\ now \in Nat
    BY <1>2 DEF RoundType
  <2>2. \A who \in S : left[who] = 0
    BY <1>6, <1>9, <2>1 DEF LeftAmount
  <2>3. SumFunctionOnSet(left, S) = 0
    BY <1>4, <2>2, SumZero
  <2>4. QED BY <1>2, <1>3, <1>5, <1>7, <2>3 DEF Unsold
<1>10. QED BY <1>8, <1>9

\* The invariant implies the property.
LEMMA MarketHonoured == ASSUME MarketInv PROVE RoundsHonoured
<1>1. ASSUME NEW i \in Open
      PROVE  SoldIsPaid(investments[i]) /\ PartsKept(investments[i])
  <2>1. Sound(investments[i]) /\ Within(investments[i], now)
    BY OpenSound
  <2>2. now \in Nat
    BY DEF MarketInv
  <2>3. PartsKept(investments[i])
    BY <2>1, <2>2, PartsLimited, LeftReserved DEF PartsKept
  <2>4. QED BY <2>1, <2>3, SoundIsPaid
<1>2. QED BY <1>1, MarketCovers DEF RoundsHonoured

-----------------------------------------------------------------------------
(* Any people, any surroundings *)

\* No round was started, so nothing is owed.
LEMMA ContractStarts == ASSUME ContractInit PROVE MarketInv
<1>0. /\ AcquiredInit /\ now \in Nat /\ DOMAIN normal = Holders
      /\ normal[AcquiredAddress] \in Nat
  BY DEF ContractInit
<1>1. \A i \in Rounds : investments[i] = NoRound
  BY <1>0 DEF AcquiredInit
<1>2. SoundRounds
  BY <1>0 DEF AcquiredInit, SoundRounds
<1>3. ASSUME NEW t \in SaleTokens PROVE TokensOwed(investments, t) = 0
  <2> DEFINE f == [i \in Rounds |-> OwedTokens(investments[i], t)]
  <2>1. \A i \in Rounds : f[i] = 0
    BY <1>1, OwedType
  <2>2. TokensOwed(investments, t) = SumFunctionOnSet(f, Rounds)
    BY DEF TokensOwed
  <2> HIDE DEF f
  <2>3. QED BY <2>1, <2>2, RoundsFinite, SumZero
<1>4. NormalOwed(investments) = 0
  <2> DEFINE f == [i \in Rounds |-> OwedNormal(investments[i])]
  <2>1. \A i \in Rounds : f[i] = 0
    BY <1>1, OwedType
  <2>2. NormalOwed(investments) = SumFunctionOnSet(f, Rounds)
    BY DEF NormalOwed
  <2> HIDE DEF f
  <2>3. QED BY <2>1, <2>2, RoundsFinite, SumZero
<1>5. stock \in [SaleTokens -> Nat] /\ \A t \in SaleTokens : stock[t] = 0
  BY <1>0 DEF AcquiredInit
<1>6. Backed
  BY <1>0, <1>3, <1>4, <1>5 DEF Backed
<1>7. QED BY <1>0, <1>2, <1>6 DEF MarketInv

LEMMA ContractKeeps == MarketInv /\ [RoundsStep \/ Elsewhere]_ContractVars => MarketInv'
<1> SUFFICES ASSUME MarketInv, [RoundsStep \/ Elsewhere]_ContractVars PROVE MarketInv'
  OBVIOUS
<1>1. CASE RoundsStep
  BY <1>1, StartKeeps, InvestKeeps, EndKeeps, Zenon DEF RoundsStep
<1>2. CASE Elsewhere
  BY <1>2, ElsewhereKeeps
<1>3. CASE UNCHANGED ContractVars
  <2>1. UNCHANGED acquiredVars /\ normal' = normal /\ now' = now
    BY <1>3 DEF ContractVars, acquiredVars
  <2>2. now \in Nat /\ DOMAIN normal = Holders /\ normal[AcquiredAddress] \in Nat
    BY DEF MarketInv, Backed
  <2>3. Elsewhere
    BY <2>1, <2>2, StockSame DEF Elsewhere, acquiredVars
  <2>4. QED BY <2>3, ElsewhereKeeps
<1>4. QED BY <1>1, <1>2, <1>3

\* Among any people and offers, whatever else happens on the chain, the contract
\* can hand out and pay back what every open round is owed (endInvestment and
\* invest of Acquired.sol), every token sold was paid for, and what
\* getAddressLeftAmount promises to all on a list is there for all of them.
THEOREM ContractHonoured == ContractSpec => []RoundsHonoured
<1>1. MarketInv => RoundsHonoured
  BY MarketHonoured
<1>2. ContractInit => MarketInv
  BY ContractStarts
<1>3. QED BY <1>1, <1>2, ContractKeeps, PTL DEF ContractSpec

-----------------------------------------------------------------------------
(* The steps of the script *)

\* The steps the rounds and the clock depend on say what these can do with.
GoodStep(s) ==
    /\ s[1] = "wait" => s[2] \in Nat
    /\ s[1] = "start" => s[3] \in Accounts /\ IsOffer(s[4])
    /\ s[1] = "invest" => s[4] \in Nat

\* A list of such steps, of at least one.
Steps(list) ==
    /\ \E S : list \in Seq(S) /\ \A s \in S : GoodStep(s)
    /\ list # <<>>

LEMMA StepsOne == ASSUME NEW a, GoodStep(a) PROVE Steps(<<a>>)
<1>1. PICK S, list : S = {a} /\ list = <<a>>
  OBVIOUS
<1>2. list \in Seq(S) /\ list # <<>> /\ \A s \in S : GoodStep(s)
  BY <1>1
<1>3. Steps(list)
  BY <1>2, Zenon DEF Steps
<1>4. QED BY <1>1, <1>3

LEMMA StepsTwo == ASSUME NEW a, NEW b, GoodStep(a), GoodStep(b) PROVE Steps(<<a, b>>)
<1>1. PICK S, list : S = {a, b} /\ list = <<a, b>>
  OBVIOUS
<1>2. list \in Seq(S) /\ list # <<>> /\ \A s \in S : GoodStep(s)
  BY <1>1
<1>3. Steps(list)
  BY <1>2, Zenon DEF Steps
<1>4. QED BY <1>1, <1>3

LEMMA StepsJoined ==
    ASSUME NEW a, NEW b, Steps(a), Steps(b)
    PROVE  Steps(a \o b)
<1>1. PICK S : a \in Seq(S) /\ \A s \in S : GoodStep(s)
  BY DEF Steps
<1>2. PICK T : b \in Seq(T) /\ \A s \in T : GoodStep(s)
  BY DEF Steps
<1>3. a \in Seq(S \cup T) /\ b \in Seq(S \cup T)
  BY <1>1, <1>2
<1>4. a \o b \in Seq(S \cup T)
  BY <1>3, ConcatProperties
<1>5. a \o b # <<>>
  <2>1. Len(a) # 0
    BY <1>1, EmptySeq DEF Steps
  <2>2. Len(a \o b) = Len(a) + Len(b) /\ Len(a) \in Nat /\ Len(b) \in Nat
    BY <1>3, ConcatProperties, LenProperties
  <2>3. Len(a \o b) # 0
    BY <2>1, <2>2
  <2>4. QED BY <2>3
<1>6. QED BY <1>1, <1>2, <1>4, <1>5 DEF Steps

LEMMA StepsAt ==
    ASSUME NEW list, Steps(list)
    PROVE  Len(list) \in Nat \ {0} /\ \A k \in 1 .. Len(list) : GoodStep(list[k])
<1>1. PICK S : list \in Seq(S) /\ \A s \in S : GoodStep(s)
  BY DEF Steps
<1>2. Len(list) \in Nat /\ (Len(list) = 0 => list = <<>>)
  BY <1>1, EmptySeq, LenProperties
<1>3. \A k \in 1 .. Len(list) : list[k] \in S
  BY <1>1, ElementOfSeq
<1>4. QED BY <1>1, <1>2, <1>3 DEF Steps

LEMMA CreatedSteps ==
    ASSUME NEW label, NEW budget
    PROVE  Steps(CreateProjectVersion(label, budget)) /\ Steps(Created(label, budget))
<1>1. Steps(CreateProjectVersion(label, budget))
  <2>1. GoodStep(<<"count", label>>) /\ GoodStep(<<"create", label, budget>>)
    BY DEF GoodStep
  <2>2. QED BY <2>1, StepsTwo DEF CreateProjectVersion
<1>2. Steps(SupportProjectProposal(label, "Preparing"))
  <2>1. GoodStep(<<"vote", label, "Preparing", "Accept">>)
    BY DEF GoodStep
  <2>2. QED BY <2>1, StepsOne DEF SupportProjectProposal
<1>3. Steps(PromoteProject(label))
  <2>1. GoodStep(<<"promote", label>>)
    BY DEF GoodStep
  <2>2. QED BY <2>1, StepsOne DEF PromoteProject
<1>4. Steps(CreateProjectVersion(label, budget) \o SupportProjectProposal(label, "Preparing"))
  BY <1>1, <1>2, StepsJoined
<1>5. Steps(Created(label, budget))
  BY <1>3, <1>4, StepsJoined DEF Created
<1>6. QED BY <1>1, <1>5

LEMMA SettledSteps ==
    ASSUME NEW label, NEW list
    PROVE  Steps(OpenSettlementProposal(label, list)) /\ Steps(Finished(label))
<1>1. GoodStep(<<"settle", label, list>>) /\ GoodStep(<<"promote", label>>)
      /\ GoodStep(<<"vote", label, "Accepting", "Accept">>)
  BY DEF GoodStep
<1>2. Steps(OpenSettlementProposal(label, list))
  BY <1>1, StepsOne DEF OpenSettlementProposal
<1>3. Steps(SupportProjectProposal(label, "Accepting")) /\ Steps(PromoteProject(label))
  BY <1>1, StepsOne DEF SupportProjectProposal, PromoteProject
<1>4. Steps(Finished(label))
  BY <1>3, StepsJoined DEF Finished
<1>5. QED BY <1>2, <1>4

LEMMA LifecyclesSteps == Steps(Lifecycles)
<1>1. Steps(<<<<"tokens">>, <<"lock">>>>)
  <2>1. GoodStep(<<"tokens">>) /\ GoodStep(<<"lock">>)
    BY DEF GoodStep
  <2>2. QED BY <2>1, StepsTwo
<1>2. Steps(CreateProjectVersion("vote", 600)) /\ Steps(Created("developing", 720))
      /\ Steps(Created("settlement", 680)) /\ Steps(Created("done", 900))
      /\ Steps(CreateProjectVersion("rejected", 550))
  BY CreatedSteps
<1>3. Steps(OpenSettlementProposal("settlement", SharedBy(60, 40)))
      /\ Steps(OpenSettlementProposal("done", SharedBy(70, 30)))
  BY SettledSteps
<1>4. Steps(RejectProjectProposal("rejected", "Preparing"))
      /\ Steps(<<<<"cancel", "rejected">>>>) /\ Steps(<<<<"released">>>>)
  <2>1. /\ GoodStep(<<"vote", "rejected", "Preparing", "Reject">>)
        /\ GoodStep(<<"cancel", "rejected">>) /\ GoodStep(<<"released">>)
    BY DEF GoodStep
  <2>2. QED BY <2>1, StepsOne DEF RejectProjectProposal
<1>5. QED BY <1>1, <1>2, <1>3, <1>4, StepsJoined DEF Lifecycles

LEMMA FinishSteps == Steps(FinishDone)
<1>1. SevenDays \in Nat
  BY DEF SevenDays, Day, Hour
<1>2. Steps(<<<<"wait", SevenDays>>>>)
  <2>1. GoodStep(<<"wait", SevenDays>>)
    BY <1>1 DEF GoodStep
  <2>2. QED BY <2>1, StepsOne
<1>3. Steps(Finished("done"))
  BY SettledSteps
<1>4. Steps(<<<<"withdraw", "contributorB">>>>)
  <2>1. GoodStep(<<"withdraw", "contributorB">>)
    BY DEF GoodStep
  <2>2. QED BY <2>1, StepsOne
<1>5. Steps(<<<<"wait", SevenDays>>>> \o Finished("done"))
  BY <1>2, <1>3, StepsJoined
<1>6. QED BY <1>4, <1>5, StepsJoined DEF FinishDone

LEMMA ReleaseSteps == Steps(TrackedRelease)
<1>1. Steps(Created("release", 500)) /\ Steps(FinishDone) /\ Steps(Finished("release"))
      /\ Steps(OpenSettlementProposal("release", [who \in {"viewer"} |-> 100]))
  BY CreatedSteps, FinishSteps, SettledSteps
<1>2. Steps(<<<<"wait", SevenDays>>>>)
  <2>1. GoodStep(<<"wait", SevenDays>>)
    BY DEF GoodStep, SevenDays, Day, Hour
  <2>2. QED BY <2>1, StepsOne
<1>3. Steps(Created("release", 500)
            \o OpenSettlementProposal("release", [who \in {"viewer"} |-> 100]))
  BY <1>1, StepsJoined
<1>4. Steps(Created("release", 500)
            \o OpenSettlementProposal("release", [who \in {"viewer"} |-> 100]) \o FinishDone)
  BY <1>1, <1>3, StepsJoined
<1>5. Steps(Created("release", 500)
            \o OpenSettlementProposal("release", [who \in {"viewer"} |-> 100]) \o FinishDone
            \o <<<<"wait", SevenDays>>>>)
  BY <1>2, <1>4, StepsJoined
<1>6. QED BY <1>1, <1>5, StepsJoined DEF TrackedRelease

LEMMA ListedFit ==
    ASSUME NEW a \in Nat, NEW b \in Nat
    PROVE  \E S \in SUBSET Accounts : Listed(a, b) \in [S -> Nat]
<1>1. {"viewer", "contributorA"} \in SUBSET Accounts
  BY SeedAssumption DEF Roles, Contributors
<1>2. Listed(a, b) \in [{"viewer", "contributorA"} -> Nat]
  BY DEF Listed
<1>3. QED BY <1>1, <1>2

LEMMA FundingSteps == Steps(Funding)
<1> DEFINE full    == Offer(500, [who \in {"viewer"} |-> Whole], 2, 2, TRUE)
           partial == Offer(800, Listed(6000, 4000), 2, 2, FALSE)
           second  == Offer(700, Listed(5000, 5000), 2, 3, FALSE)
           first   == Offer(900, Listed(7000, 3000), 2, 4, FALSE)
<1>1. IsOffer(full)
  <2>1. {"viewer"} \in SUBSET Accounts
    BY SeedAssumption DEF Roles
  <2>2. [who \in {"viewer"} |-> Whole] \in [{"viewer"} -> Nat]
    BY DEF Whole
  <2>3. /\ full.token = "LSALE" /\ full.total = 500 /\ full.ratio = <<5, 1>>
        /\ full.percents = [who \in {"viewer"} |-> Whole] /\ full.step1 = 2 * Day
        /\ full.step2 = 2 * Day /\ full.canEndEarly \in BOOLEAN
    BY DEF Offer
  <2> HIDE DEF full
  <2>4. \E S \in SUBSET Accounts : full.percents \in [S -> Nat]
    BY <2>1, <2>2, <2>3
  <2>5. full.step1 \in Nat /\ full.step2 \in Nat
    BY <2>3 DEF Day, Hour
  <2>6. QED BY <2>3, <2>4, <2>5, SeedAssumption DEF IsOffer
<1>2. IsOffer(partial) /\ IsOffer(second) /\ IsOffer(first)
  <2>1. /\ partial.token = "LSALE" /\ partial.total = 800 /\ partial.ratio = <<5, 1>>
        /\ partial.percents = Listed(6000, 4000) /\ partial.step1 = 2 * Day
        /\ partial.step2 = 2 * Day /\ partial.canEndEarly \in BOOLEAN
    BY DEF Offer
  <2>2. /\ second.token = "LSALE" /\ second.total = 700 /\ second.ratio = <<5, 1>>
        /\ second.percents = Listed(5000, 5000) /\ second.step1 = 2 * Day
        /\ second.step2 = 3 * Day /\ second.canEndEarly \in BOOLEAN
    BY DEF Offer
  <2>3. /\ first.token = "LSALE" /\ first.total = 900 /\ first.ratio = <<5, 1>>
        /\ first.percents = Listed(7000, 3000) /\ first.step1 = 2 * Day
        /\ first.step2 = 4 * Day /\ first.canEndEarly \in BOOLEAN
    BY DEF Offer
  <2>4. /\ \E S \in SUBSET Accounts : Listed(6000, 4000) \in [S -> Nat]
        /\ \E S \in SUBSET Accounts : Listed(5000, 5000) \in [S -> Nat]
        /\ \E S \in SUBSET Accounts : Listed(7000, 3000) \in [S -> Nat]
    BY ListedFit
  <2>5. 2 * Day \in Nat /\ 3 * Day \in Nat /\ 4 * Day \in Nat
    BY DEF Day, Hour
  <2> HIDE DEF partial, second, first
  <2>6. QED BY <2>1, <2>2, <2>3, <2>4, <2>5, SeedAssumption DEF IsOffer
<1>3. "investorA" \in Accounts /\ "investorB" \in Accounts
  BY SeedAssumption DEF Roles
<1> HIDE DEF full, partial, second, first
<1>4. GoodStep(<<"start", "full", "investorA", full>>)
  BY <1>1, <1>3 DEF GoodStep
<1>5. GoodStep(<<"invest", "full", "viewer", 100>>) /\ GoodStep(<<"end", "full", "investorA">>)
  BY DEF GoodStep
<1>6. GoodStep(<<"start", "partial", "investorB", partial>>)
  BY <1>2, <1>3 DEF GoodStep
<1>7. /\ GoodStep(<<"invest", "partial", "viewer", 60>>)
      /\ GoodStep(<<"invest", "partial", "contributorA", 20>>)
  BY DEF GoodStep
<1>8. GoodStep(<<"wait", 4 * Day + 1>>) /\ GoodStep(<<"wait", 2 * Day + 1>>)
  BY DEF GoodStep, Day, Hour
<1>9. GoodStep(<<"end", "partial", "investorB">>)
  BY DEF GoodStep
<1>10. GoodStep(<<"start", "step2", "investorA", second>>)
  BY <1>2, <1>3 DEF GoodStep
<1>11. GoodStep(<<"invest", "step2", "contributorA", 30>>)
  BY DEF GoodStep
<1>12. GoodStep(<<"start", "step1", "investorB", first>>)
  BY <1>2, <1>3 DEF GoodStep
<1>13. GoodStep(<<"invest", "step1", "viewer", 10>>)
  BY DEF GoodStep
<1>14. PICK s1, s2, s3, s4, s5, s6, s7, s8, s9, s10, s11, s12, s13 :
          /\ s1 = <<"start", "full", "investorA", full>>
          /\ s2 = <<"invest", "full", "viewer", 100>>
          /\ s3 = <<"end", "full", "investorA">>
          /\ s4 = <<"start", "partial", "investorB", partial>>
          /\ s5 = <<"invest", "partial", "viewer", 60>>
          /\ s6 = <<"invest", "partial", "contributorA", 20>>
          /\ s7 = <<"wait", 4 * Day + 1>>
          /\ s8 = <<"end", "partial", "investorB">>
          /\ s9 = <<"start", "step2", "investorA", second>>
          /\ s10 = <<"wait", 2 * Day + 1>>
          /\ s11 = <<"invest", "step2", "contributorA", 30>>
          /\ s12 = <<"start", "step1", "investorB", first>>
          /\ s13 = <<"invest", "step1", "viewer", 10>>
  OBVIOUS
<1>15. Funding = <<s1, s2, s3, s4, s5, s6, s7, s8, s9, s10, s11, s12, s13>>
  BY <1>14 DEF Funding, full, partial, second, first
<1> DEFINE S == {s1, s2, s3, s4, s5, s6, s7, s8, s9, s10, s11, s12, s13}
<1>16. \A s \in S : GoodStep(s)
  <2>1. /\ GoodStep(s1) /\ GoodStep(s2) /\ GoodStep(s3) /\ GoodStep(s4) /\ GoodStep(s5)
        /\ GoodStep(s6) /\ GoodStep(s7)
    BY <1>4, <1>5, <1>6, <1>7, <1>8, <1>14
  <2>2. /\ GoodStep(s8) /\ GoodStep(s9) /\ GoodStep(s10) /\ GoodStep(s11) /\ GoodStep(s12)
        /\ GoodStep(s13)
    BY <1>8, <1>9, <1>10, <1>11, <1>12, <1>13, <1>14
  <2>3. QED BY <2>1, <2>2
<1>17. Funding \in Seq(S) /\ Funding # <<>>
  BY <1>15
<1> HIDE DEF S
<1>18. QED BY <1>16, <1>17 DEF Steps

LEMMA ScriptsSteps == Steps(ReleasingScript) /\ Steps(ReleasedScript)
<1>1. Steps(DividendCycles)
  <2>1. /\ GoodStep(<<"stakeDev">>) /\ GoodStep(<<"stakeNormal">>) /\ GoodStep(<<"cycle">>)
        /\ GoodStep(<<"deposit">>) /\ GoodStep(<<"dividends">>) /\ GoodStep(<<"paid">>)
        /\ GoodStep(<<"wait", Hour + 1>>)
    BY DEF GoodStep, Hour
  <2>2. PICK s1, s2, s3, s4, s5, s6, s7 :
            /\ s1 = <<"stakeDev">> /\ s2 = <<"stakeNormal">> /\ s3 = <<"wait", Hour + 1>>
            /\ s4 = <<"cycle">> /\ s5 = <<"deposit">> /\ s6 = <<"dividends">> /\ s7 = <<"paid">>
    OBVIOUS
  <2>3. DividendCycles = <<s1, s2, s3, s4, s5, s3, s4, s6, s7>>
    BY <2>2 DEF DividendCycles
  <2> DEFINE S == {s1, s2, s3, s4, s5, s6, s7}
  <2>4. DividendCycles \in Seq(S) /\ DividendCycles # <<>>
    BY <2>3
  <2>5. \A s \in S : GoodStep(s)
    BY <2>1, <2>2
  <2> HIDE DEF S
  <2>6. QED BY <2>4, <2>5, Zenon DEF Steps
<1>2. Steps(<<<<"wait", 90 * Day>>, <<"claim">>>>)
  <2>1. GoodStep(<<"wait", 90 * Day>>) /\ GoodStep(<<"claim">>)
    BY DEF GoodStep, Day, Hour
  <2>2. QED BY <2>1, StepsTwo
<1>3. Steps(<<<<"wait", 90 * Day>>, <<"claim">>>> \o Funding)
  BY <1>2, FundingSteps, StepsJoined
<1>4. Steps(Rest)
  BY <1>1, <1>3, StepsJoined DEF Rest
<1>5. Steps(Lifecycles \o TrackedRelease) /\ Steps(Lifecycles \o FinishDone)
  BY LifecyclesSteps, ReleaseSteps, FinishSteps, StepsJoined
<1>6. QED BY <1>4, <1>5, StepsJoined DEF ReleasingScript, ReleasedScript

-----------------------------------------------------------------------------
(* The transactions of the script *)

\* What moves no normal tokens and takes no time.
LEMMA QuietElsewhere ==
    ASSUME MarketInv, UNCHANGED acquiredVars, now' = now, normal' = normal
    PROVE  Elsewhere
<1>1. now \in Nat /\ DOMAIN normal = Holders /\ normal[AcquiredAddress] \in Nat
  BY DEF MarketInv, Backed
<1>2. /\ now' \in Nat /\ now' >= now /\ DOMAIN normal' = Holders
      /\ normal'[AcquiredAddress] \in Nat /\ normal'[AcquiredAddress] >= normal[AcquiredAddress]
  BY <1>1
<1>3. QED BY <1>1, <1>2, StockSame DEF Elsewhere, acquiredVars

\* What pays nothing out of the contract's account.
LEMMA PaymentElsewhere ==
    ASSUME MarketInv, UNCHANGED acquiredVars, now' = now, DOMAIN normal' = Holders,
           normal'[AcquiredAddress] = normal[AcquiredAddress]
    PROVE  Elsewhere
<1>1. now \in Nat /\ normal[AcquiredAddress] \in Nat
  BY DEF MarketInv, Backed
<1>2. /\ now' \in Nat /\ now' >= now
      /\ normal'[AcquiredAddress] \in Nat /\ normal'[AcquiredAddress] >= normal[AcquiredAddress]
  BY <1>1
<1>3. QED BY <1>1, <1>2, StockSame DEF Elsewhere, acquiredVars

LEMMA ClaimElsewhere ==
    ASSUME MarketInv, NEW a \in Accounts, NEW amount, ClaimTokens(a, amount),
           UNCHANGED acquiredVars
    PROVE  Elsewhere
<1>1. /\ normal' = [normal EXCEPT ![LockupAddress] = @ - amount, ![a] = @ + amount]
      /\ now' = now
  BY DEF ClaimTokens, Transfer
<1>2. DOMAIN normal = Holders
  BY DEF MarketInv, Backed
<1>3. AcquiredAddress # LockupAddress /\ AcquiredAddress # a /\ AcquiredAddress \in Holders
  BY ChainAssumption DEF Holders
<1>4. DOMAIN normal' = Holders /\ normal'[AcquiredAddress] = normal[AcquiredAddress]
  BY <1>1, <1>2, <1>3
<1>5. QED BY <1>1, <1>4, PaymentElsewhere

\* Projects and dividends leave the clock and the normal tokens alone.
LEMMA ProjectsQuiet ==
    /\ \A sender, name, version, budget, extra :
          CreateProject(sender, name, version, budget, extra) => UNCHANGED <<now, normal>>
    /\ \A id, outcome : Decide(id, outcome) => UNCHANGED <<now, normal>>
    /\ \A sender, id : \/ StartDevelopment(sender, id) \/ FinishProject(sender, id)
                       \/ CancelProject(sender, id)
                       => UNCHANGED <<now, normal>>
    /\ \A sender, id, result, list :
          AcceptProject(sender, id, result, list) => UNCHANGED <<now, normal>>
    /\ \A who, some : WithdrawContributions(who, some) => UNCHANGED <<now, normal>>
<1>1. ASSUME NEW sender, NEW name, NEW version, NEW budget, NEW extra,
             CreateProject(sender, name, version, budget, extra)
      PROVE  UNCHANGED <<now, normal>>
  BY <1>1, Zenon DEF CreateProject
<1>2. ASSUME NEW id, NEW outcome, Decide(id, outcome)
      PROVE  UNCHANGED <<now, normal>>
  BY <1>2, Zenon DEF Decide
<1>3. ASSUME NEW sender, NEW id, StartDevelopment(sender, id)
      PROVE  UNCHANGED <<now, normal>>
  BY <1>3, Zenon DEF StartDevelopment
<1>4. ASSUME NEW sender, NEW id, FinishProject(sender, id)
      PROVE  UNCHANGED <<now, normal>>
  BY <1>4, Zenon DEF FinishProject
<1>5. ASSUME NEW sender, NEW id, CancelProject(sender, id)
      PROVE  UNCHANGED <<now, normal>>
  BY <1>5, Zenon DEF CancelProject
<1>6. ASSUME NEW sender, NEW id, NEW result, NEW list, AcceptProject(sender, id, result, list)
      PROVE  UNCHANGED <<now, normal>>
  BY <1>6, Zenon DEF AcceptProject
<1>7. ASSUME NEW who, NEW some, WithdrawContributions(who, some)
      PROVE  UNCHANGED <<now, normal>>
  BY <1>7, Zenon DEF WithdrawContributions
<1>8. QED BY <1>1, <1>2, <1>3, <1>4, <1>5, <1>6, <1>7, Zenon

LEMMA DividendsQuiet ==
    /\ \A user, amount : Dividends!StakeDev(user, amount) => now' = now
    /\ \A user, amount : Dividends!StakeNormal(user, amount) => now' = now
    /\ Dividends!TryNewCycle => now' = now
    /\ \A token, amount : Dividends!Deposit(token, amount) => now' = now
    /\ \A user, some, tokens : Dividends!WithdrawDividends(user, some, tokens) => now' = now
    /\ \A cycle, token : Dividends!Pay(cycle, token) => now' = now
<1>1. ASSUME NEW user, NEW amount, Dividends!StakeDev(user, amount) PROVE now' = now
  <2>1. PICK m, d : Dividends!SetStake(user, m, d)
    BY <1>1 DEF Dividends!StakeDev
  <2>2. QED BY <2>1, Zenon DEF Dividends!SetStake
<1>2. ASSUME NEW user, NEW amount, Dividends!StakeNormal(user, amount) PROVE now' = now
  <2>1. PICK m, d : Dividends!SetStake(user, m, d)
    BY <1>2 DEF Dividends!StakeNormal
  <2>2. QED BY <2>1, Zenon DEF Dividends!SetStake
<1>3. ASSUME Dividends!TryNewCycle PROVE now' = now
  BY <1>3, Zenon DEF Dividends!TryNewCycle
<1>4. ASSUME NEW token, NEW amount, Dividends!Deposit(token, amount) PROVE now' = now
  BY <1>4, Zenon DEF Dividends!Deposit, Dividends!DepositToken
<1>5. ASSUME NEW user, NEW some, NEW tokens, Dividends!WithdrawDividends(user, some, tokens)
      PROVE  now' = now
  BY <1>5, Zenon DEF Dividends!WithdrawDividends
<1>6. ASSUME NEW cycle, NEW token, Dividends!Pay(cycle, token) PROVE now' = now
  BY <1>6, Zenon DEF Dividends!Pay
<1>7. QED BY <1>1, <1>2, <1>3, <1>4, <1>5, <1>6, Zenon

\* What a step of the script is for the contract.
LEMMA TransactionStep ==
    ASSUME MarketInv, NEW s, GoodStep(s), Perform(s)
    PROVE  RoundsStep \/ Elsewhere
<1>1. /\ now \in Nat /\ DOMAIN normal = Holders /\ normal[AcquiredAddress] \in Nat
      /\ AcquiredAddress \in Holders /\ AcquiredAddress \notin Accounts
      /\ AcquiredAddress # LockupAddress
  BY ChainAssumption DEF MarketInv, Backed, Holders
<1>2. \A role \in Roles : role # AcquiredAddress /\ role \in Accounts
  BY <1>1, SeedAssumption
<1>3. CASE Tokens /\ OnProjects
  <2>1. now' = now /\ UNCHANGED acquiredVars
    <3>1. now' = now
      BY <1>3 DEF Tokens
    <3>2. QED BY <1>3, <3>1, Zenon DEF OnProjects
  <2>2. /\ AcquiredAddress # "deployer" /\ AcquiredAddress # "contributorA"
        /\ AcquiredAddress # "contributorB"
        /\ AcquiredAddress \notin {"managerA", "managerB", "viewer"}
    BY <1>2 DEF Roles, Contributors
  <2>3. DOMAIN normal' = Holders /\ normal'[AcquiredAddress] = normal[AcquiredAddress] + 0
    BY <1>1, <1>3, <2>2 DEF Tokens
  <2>4. normal'[AcquiredAddress] = normal[AcquiredAddress]
    BY <1>1, <2>3
  <2>5. QED BY <2>1, <2>3, <2>4, PaymentElsewhere
<1>4. CASE LockMore
  <2>1. CASE UNCHANGED <<now, normal>> /\ Nothing
    BY <2>1, QuietElsewhere DEF Nothing
  <2>2. CASE /\ TransferAndLock("deployer", [a \in {"viewer", "managerA"} |->
                                                IF a = "viewer" THEN 50 ELSE 150])
             /\ UNCHANGED <<acquiredVars, dividendVars>>
    <3>1. PICK amount :
              normal' = [normal EXCEPT !["deployer"] = @ - amount, ![LockupAddress] = @ + amount]
      BY <2>2 DEF TransferAndLock, Transfer
    <3>2. now' = now /\ UNCHANGED acquiredVars
      BY <2>2, Zenon DEF TransferAndLock, Lock
    <3>3. AcquiredAddress # "deployer"
      BY <1>2 DEF Roles
    <3>4. DOMAIN normal' = Holders /\ normal'[AcquiredAddress] = normal[AcquiredAddress]
      BY <1>1, <3>1, <3>3
    <3>5. QED BY <3>2, <3>4, PaymentElsewhere
  <2>3. QED BY <1>4, <2>1, <2>2 DEF LockMore
<1>5. ASSUME UNCHANGED <<now, normal>>, OnProjects
      PROVE  Elsewhere
  BY <1>5, QuietElsewhere DEF OnProjects
<1>6. ASSUME NEW d \in Nat, Elapse(d), UNCHANGED normal, Nothing
      PROVE  Elsewhere
  <2>1. now' = now + d /\ normal' = normal /\ UNCHANGED acquiredVars
    BY <1>6 DEF Elapse, Nothing
  <2>2. now' \in Nat /\ now' >= now
    BY <1>1, <2>1
  <2>3. normal'[AcquiredAddress] >= normal[AcquiredAddress]
    BY <1>1, <2>1
  <2>4. QED BY <1>1, <2>1, <2>2, <2>3, StockSame DEF Elsewhere, acquiredVars
<1>7. CASE ClaimHalf
  <2>1. CASE UNCHANGED <<now, normal>> /\ Nothing
    BY <2>1, QuietElsewhere DEF Nothing
  <2>2. ASSUME NEW amount, ClaimTokens("viewer", amount), UNCHANGED <<acquiredVars, dividendVars>>
        PROVE  Elsewhere
    <3>1. "viewer" \in Accounts
      BY <1>2 DEF Roles
    <3>2. QED BY <2>2, <3>1, ClaimElsewhere
  <2>3. QED BY <1>7, <2>1, <2>2 DEF ClaimHalf
<1>8. ASSUME UNCHANGED normal, now' = now, OnDividend
      PROVE  Elsewhere
  BY <1>8, QuietElsewhere DEF OnDividend
<1>9. CASE /\ Dividends!StakeNormal("viewer", 200) /\ OnDividend
           /\ normal' = [normal EXCEPT !["viewer"] = @ - 200]
  <2>1. now' = now /\ UNCHANGED acquiredVars
    BY <1>9, DividendsQuiet, Zenon DEF OnDividend
  <2>2. AcquiredAddress # "viewer"
    BY <1>2 DEF Roles
  <2>3. DOMAIN normal' = Holders /\ normal'[AcquiredAddress] = normal[AcquiredAddress]
    BY <1>1, <1>9, <2>2
  <2>4. QED BY <2>1, <2>3, PaymentElsewhere
<1>10. CASE Read(s)
  BY <1>10, QuietElsewhere DEF Read, Nothing
<1>11. CASE Transaction(s)
  <2>1. \/ Tokens /\ OnProjects
        \/ LockMore
        \/ UNCHANGED <<now, normal>> /\ OnProjects
        \/ s[1] = "wait" /\ Elapse(s[2]) /\ UNCHANGED normal /\ Nothing
        \/ ClaimHalf
        \/ s[1] = "start" /\ StartInvestment(s[3], s[4])
        \/ s[1] = "invest" /\ Invest(s[3], rounds[s[2]], s[4])
        \/ EndInvestment(s[3], rounds[s[2]])
        \/ UNCHANGED normal /\ now' = now /\ OnDividend
        \/ /\ Dividends!StakeNormal("viewer", 200) /\ OnDividend
           /\ normal' = [normal EXCEPT !["viewer"] = @ - 200]
    BY <1>11, ProjectsQuiet, DividendsQuiet, Zenon DEF Transaction
  <2>2. CASE s[1] = "wait" /\ Elapse(s[2]) /\ UNCHANGED normal /\ Nothing
    <3>1. s[2] \in Nat
      BY <2>2 DEF GoodStep
    <3>2. QED BY <1>6, <2>2, <3>1
  <2>3. CASE s[1] = "start" /\ StartInvestment(s[3], s[4])
    <3>1. s[3] \in Accounts /\ IsOffer(s[4])
      BY <2>3 DEF GoodStep
    <3>2. RoundsStep
      BY <2>3, <3>1, Zenon DEF RoundsStep
    <3>3. QED BY <3>2
  <2>4. CASE s[1] = "invest" /\ Invest(s[3], rounds[s[2]], s[4])
    <3>1. s[4] \in Nat
      BY <2>4 DEF GoodStep
    <3>2. RoundsStep
      BY <2>4, <3>1, Zenon DEF RoundsStep
    <3>3. QED BY <3>2
  <2>5. CASE EndInvestment(s[3], rounds[s[2]])
    BY <2>5, Zenon DEF RoundsStep
  <2>6. QED BY <1>3, <1>4, <1>5, <1>7, <1>8, <1>9, <2>1, <2>2, <2>3, <2>4, <2>5, Zenon
<1>12. QED BY <1>10, <1>11, Zenon DEF Perform

\* And what people do.
LEMMA OthersDoStep == ASSUME MarketInv, OthersDo PROVE RoundsStep \/ Elsewhere
<1>1. "outsider" \in Accounts /\ "viewer" \in Accounts
  BY SeedAssumption DEF Roles
<1>2. CASE UNCHANGED <<now, normal>> /\ OnProjects
  BY <1>2, QuietElsewhere DEF OnProjects
<1>3. ASSUME NEW amount, ClaimTokens("viewer", amount), UNCHANGED <<acquiredVars, dividendVars>>
      PROVE  Elsewhere
  BY <1>1, <1>3, ClaimElsewhere
<1>4. ASSUME NEW offer \in Offers, StartInvestment("outsider", offer)
      PROVE  RoundsStep
  <2>1. IsOffer(offer)
    BY SeedAssumption
  <2>2. QED BY <1>1, <1>4, <2>1, Zenon DEF RoundsStep
<1>5. ASSUME NEW i, NEW who, NEW amount \in Purchases, Invest(who, i, amount)
      PROVE  RoundsStep
  <2>1. amount \in Nat
    BY SeedAssumption
  <2>2. QED BY <1>5, <2>1, Zenon DEF RoundsStep
<1>6. ASSUME NEW i, EndInvestment(investments[i].investor, i)
      PROVE  RoundsStep
  BY <1>6, Zenon DEF RoundsStep
<1>7. QED BY <1>2, <1>3, <1>4, <1>5, <1>6, ProjectsQuiet, Zenon DEF OthersDo

-----------------------------------------------------------------------------
(* The local stack and its seed *)

\* A run under way has a step to do.
Running == stage = "running" => pc \in 1 .. Len(Script)

SeedMarket == MarketInv /\ Running

LEMMA ScriptSteps == Steps(Script)
BY ScriptsSteps DEF Script

LEMMA SeedInit == Init => ContractInit /\ SeedMarket
<1> SUFFICES ASSUME Init PROVE ContractInit /\ SeedMarket
  OBVIOUS
<1>1. AcquiredInit /\ now = Deployed /\ stage = "idle"
  BY DEF Init, LocalInit
<1>2. Deployed \in Nat
  BY DEF Deployed, Day, Hour
<1>3. normal = [h \in Holders |-> CASE h = "deployer"    -> 5000 - 1000 - 250
                                  [] h = "viewer"      -> 1000
                                  [] h = LockupAddress -> 250
                                  [] OTHER             -> 0]
  BY DEF Init, LocalInit
<1>4. /\ AcquiredAddress # "deployer" /\ AcquiredAddress # "viewer"
      /\ AcquiredAddress # LockupAddress /\ AcquiredAddress \in Holders
  BY ChainAssumption, SeedAssumption DEF Roles, Holders
<1>5. DOMAIN normal = Holders /\ normal[AcquiredAddress] = 0
  BY <1>3, <1>4
<1>6. ContractInit
  BY <1>1, <1>2, <1>5 DEF ContractInit
<1>7. QED BY <1>1, <1>6, ContractStarts DEF SeedMarket, Running

LEMMA SeedStep ==
    SeedMarket /\ [Next]_vars => [RoundsStep \/ Elsewhere]_ContractVars /\ SeedMarket'
<1> DEFINE ContractStep == RoundsStep \/ Elsewhere
<1> SUFFICES ASSUME MarketInv, Running, [Next]_vars PROVE ContractStep /\ Running'
  BY ContractKeeps DEF SeedMarket
<1>1. Len(ReleasingScript) \in Nat \ {0} /\ Len(ReleasedScript) \in Nat \ {0}
  BY ScriptsSteps, StepsAt
<1>2. CASE Step
  <2>1. stage = "running" /\ Perform(Script[pc])
    BY <1>2, Zenon DEF Step
  <2>2. pc \in 1 .. Len(Script)
    BY <2>1 DEF Running
  <2>3. GoodStep(Script[pc])
    BY <2>2, ScriptSteps, StepsAt
  <2>4. ContractStep
    BY <2>1, <2>3, TransactionStep
  <2>5. PICK n : n = Len(IF release' THEN ReleasingScript ELSE ReleasedScript)
    OBVIOUS
  <2>6. n \in Nat /\ n = Len(Script)'
    BY <1>1, <2>5 DEF Script
  <2>7. pc' = pc + 1 /\ stage' = IF pc' > n THEN "done" ELSE stage
    BY <1>2, <2>5, Zenon DEF Step
  <2>8. pc \in Nat \ {0}
    BY <1>1, <2>2 DEF Script
  <2>9. Running'
    BY <2>6, <2>7, <2>8 DEF Running
  <2>10. QED BY <2>4, <2>9
<1>3. CASE Seed
  <2>1. /\ pc' = 1 /\ release' = TRUE /\ UNCHANGED <<now, normal>>
        /\ UNCHANGED acquiredVars
    BY <1>3, Zenon DEF Seed, Nothing
  <2>2. ContractStep
    BY <2>1, QuietElsewhere
  <2>3. Len(Script)' \in Nat \ {0}
    BY <1>1, <2>1 DEF Script
  <2>4. QED BY <2>1, <2>2, <2>3 DEF Running
<1>4. ASSUME UNCHANGED <<now, normal, acquiredVars>>, stage' # "running"
      PROVE  ContractStep /\ Running'
  BY <1>4, QuietElsewhere DEF Running
<1>5. CASE Revert
  <2>1. UNCHANGED <<now, normal, acquiredVars>> /\ stage' = "reverted"
    BY <1>5, Zenon DEF Revert, Nothing
  <2>2. QED BY <1>4, <2>1
<1>6. CASE Kill
  <2>1. UNCHANGED <<now, normal, acquiredVars>> /\ stage' = "killed"
    BY <1>6, Zenon DEF Kill, Nothing
  <2>2. QED BY <1>4, <2>1
<1>7. ASSUME UNCHANGED <<stage, pc, release>> PROVE Running'
  BY <1>7 DEF Running, Script
<1>8. CASE Others
  <2>1. OthersDo /\ UNCHANGED <<stage, pc, release>>
    BY <1>8, Zenon DEF Others
  <2>2. QED BY <1>7, <2>1, OthersDoStep
<1>9. CASE UNCHANGED vars
  <2>1. UNCHANGED acquiredVars /\ now' = now /\ normal' = normal /\ UNCHANGED <<stage, pc, release>>
    BY <1>9 DEF vars, seedVars
  <2>2. QED BY <1>7, <2>1, QuietElsewhere
<1>10. QED BY <1>2, <1>3, <1>5, <1>6, <1>8, <1>9, Zenon DEF Next

\* To the contract, the script and the people of the local stack are some of the
\* people and surroundings it was proved for.
THEOREM SeedImplementsContract == Spec => ContractSpec
<1>1. QED BY SeedInit, SeedStep, PTL DEF Spec, ContractSpec

\* So it keeps its promises there too, with the script run again and again, killed
\* anywhere, and people in the front end besides.
THEOREM SeedHonoured == Spec => []RoundsHonoured
<1>1. QED BY SeedImplementsContract, ContractHonoured, PTL
=============================================================================
