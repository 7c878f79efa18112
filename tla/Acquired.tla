------------------------------ MODULE Acquired ------------------------------
(***************************************************************************)
(* src/contracts/Acquired.sol: rounds in which an investor offers tokens   *)
(* for normal ones, first in parts to those on a list and then to whoever  *)
(* of them comes first.                                                    *)
(***************************************************************************)
EXTENDS Chain, Functions

CONSTANTS
    SaleTokens,   \* the tokens offered, the native one among them
    Scale,        \* 10 to the difference of the decimals; 1 for the native token
    MaxRounds     \* bound on the rounds

Rounds == 1 .. MaxRounds
Whole  == 10000

\* The parameters of a round, with the lengths of its two steps.
IsOffer(o) ==
    /\ o.token \in SaleTokens /\ o.total \in Nat /\ o.ratio \in Nat \X Nat
    /\ \E S \in SUBSET Accounts : o.percents \in [S -> Nat]
    /\ o.step1 \in Nat /\ o.step2 \in Nat /\ o.canEndEarly \in BOOLEAN

ASSUME AcquiredAssumption ==
    /\ "nobody" \notin Accounts
    /\ Scale \in [SaleTokens -> Nat \ {0}] /\ MaxRounds \in Nat

VARIABLES investmentCount, investments,
          stock      \* the offered tokens that the contract holds

acquiredVars == <<investmentCount, investments, stock>>

NoRound == [investor |-> "nobody", token |-> "none", total |-> 0, ratio |-> <<1, 1>>,
            percents |-> <<>>, bought |-> <<>>, canEndEarly |-> FALSE, step1End |-> 0,
            step2End |-> 0, investedAmount |-> 0, daoTokenAmount |-> 0, end |-> FALSE]

AcquiredInit == /\ investmentCount = 1 /\ investments = [i \in Rounds |-> NoRound]
                /\ stock = [t \in SaleTokens |-> 0]

\* The rounds that were ever started.
Open == {i \in Rounds : investments[i].investor # "nobody"}

Percents(list) == SumFunction(list)

StartInvestment(sender, offer) ==
    LET i == investmentCount IN
    /\ i \in Rounds
    /\ Percents(offer.percents) <= Whole
    /\ offer.total > 0 /\ offer.ratio[1] > 0 /\ offer.ratio[2] > 0
    /\ stock' = [stock EXCEPT ![offer.token] = @ + offer.total]
    /\ investments' = [investments EXCEPT ![i] =
           [NoRound EXCEPT !.investor = sender, !.token = offer.token, !.total = offer.total,
                           !.ratio = offer.ratio, !.percents = offer.percents,
                           !.bought = [who \in DOMAIN offer.percents |-> 0],
                           !.canEndEarly = offer.canEndEarly,
                           !.step1End = now + offer.step1,
                           !.step2End = now + offer.step1 + offer.step2]]
    /\ investmentCount' = i + 1
    /\ UNCHANGED <<now, normal>>

Unsold(r) == r.total - r.investedAmount

\* What an end needs before the second step is over.
MayEnd(r) == r.canEndEarly \/ now >= r.step2End \/ r.investedAmount \in {0, r.total}

EndInvestment(sender, i) ==
    LET r == investments[i] IN
    /\ i \in Open /\ sender = r.investor /\ ~ r.end /\ MayEnd(r)
    /\ Transfer(AcquiredAddress, sender, r.daoTokenAmount)
    /\ stock[r.token] >= Unsold(r)
    /\ stock' = [stock EXCEPT ![r.token] = @ - Unsold(r)]
    /\ investments' = [investments EXCEPT ![i].end = TRUE]
    /\ UNCHANGED <<now, investmentCount>>

\* Rounded down twice.
TokensFor(r, amount) == ((amount * r.ratio[1]) \div r.ratio[2]) \div Scale[r.token]

Selling(r) == ~ r.end /\ now <= r.step2End

\* The part of the whole that is reserved for somebody in step 1, rounded down.
Limit(r, who) == (r.total * r.percents[who]) \div Whole

\* Fault: what somebody bought before does not count.
WithinLimit_Fault(r, who, tokens) == now < r.step1End => Limit(r, who) >= tokens

\* In step 2 there is no limit.
WithinLimit(r, who, tokens) == now < r.step1End => Limit(r, who) - r.bought[who] >= tokens

Invest(who, i, amount) ==
    LET r == investments[i]
        tokens == TokensFor(r, amount)
    IN  /\ i \in Open /\ who \in DOMAIN r.percents /\ r.percents[who] > 0
        /\ Selling(r)
        /\ tokens > 0 /\ Unsold(r) >= tokens
        /\ WithinLimit(r, who, tokens)
        /\ Transfer(who, AcquiredAddress, amount)
        /\ stock[r.token] >= tokens
        /\ stock' = [stock EXCEPT ![r.token] = @ - tokens]
        /\ investments' = [investments EXCEPT ![i] =
               [r EXCEPT !.bought[who] = @ + tokens, !.investedAmount = @ + tokens,
                         !.daoTokenAmount = @ + amount]]
        /\ UNCHANGED <<now, investmentCount>>

\* What is left of somebody's part, as the front end shows it.
LeftAmount(r, who) == IF now >= r.step1End THEN 0 ELSE Limit(r, who) - r.bought[who]

-----------------------------------------------------------------------------
(* Properties *)

\* What a round that has not ended still owes: its unsold tokens, and the normal
\* ones paid for the others.
OwedTokens(r, t) == IF r.end \/ r.token # t THEN 0 ELSE Unsold(r)
OwedNormal(r)    == IF r.end THEN 0 ELSE r.daoTokenAmount

\* Out of the balances that all rounds share.
OwedCovered ==
    /\ \A t \in SaleTokens :
          stock[t] >= SumFunction([i \in Rounds |-> OwedTokens(investments[i], t)])
    /\ normal[AcquiredAddress] >= SumFunction([i \in Rounds |-> OwedNormal(investments[i])])

\* In spite of the roundings.
SoldIsPaid(r) ==
    r.investedAmount * r.ratio[2] * Scale[r.token] <= r.daoTokenAmount * r.ratio[1]

\* In step 1 nobody has more than a part, and what the front end shows to all on
\* the list as left for them is there for all of them, however much and in whatever
\* pieces others have bought.
PartsKept(r) ==
    /\ now < r.step1End => \A who \in DOMAIN r.percents :
          r.bought[who] * Whole <= r.total * r.percents[who]
    /\ ~ r.end =>
          Unsold(r) >= SumFunction([who \in DOMAIN r.percents |-> LeftAmount(r, who)])

\* Everything the open rounds still owe is there, whoever ended which round or
\* bought at the same time; nobody has more than the tokens paid for, nor what is
\* reserved for somebody else.
RoundsHonoured ==
    OwedCovered /\ \A i \in Open : SoldIsPaid(investments[i]) /\ PartsKept(investments[i])
=============================================================================
