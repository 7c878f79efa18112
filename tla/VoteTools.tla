----------------------------- MODULE VoteTools -----------------------------
(***************************************************************************)
(* src/tools/vote.ts and src/tools/vote_offline.ts: voting on a proposal   *)
(* with its parameters taken from the web backend, online, or offline in   *)
(* the steps prepare, sign and broadcast, on two machines and with files   *)
(* between them.  The chain mines the transactions of an account in the    *)
(* order of their nonces.                                                  *)
(***************************************************************************)
EXTENDS Committee

CONSTANTS
    ToolUsers,  \* the accounts that vote with the tools
    Answers,    \* what the backend may answer for a proposal, right or wrong
    Sides,      \* 1 to support, -1 to reject
    Bundles     \* the names of the files a voter keeps offline votes in

ASSUME VoteAssumption == /\ ToolUsers \subseteq Accounts /\ Sides \subseteq {1, -1}
                         /\ "online" \notin Bundles

VARIABLES
    session,   \* session[v]: the online tool
    bundle,    \* bundle[v][k]: an offline vote in a file
    pool,      \* transactions sent and not yet mined
    nonces     \* nonces[v]: the transactions of v mined so far

voteVars == <<session, bundle, pool, nonces>>

NoTx   == [id |-> 0, choice |-> 1, params |-> NoParams, nonce |-> 0, overtaken |-> 0]
NoVote == [stage |-> "none", tx |-> NoTx]

VoteInit == /\ session = [v \in ToolUsers |-> NoVote]
            /\ bundle = [v \in ToolUsers |-> [k \in Bundles |-> NoVote]]
            /\ pool = {} /\ nonces = [v \in ToolUsers |-> 0]

\* fetchProposalParams and encodeProposalParams.  The topics of the Project
\* contract and the lists of setCommittees are encoded as the contracts do it; an
\* upgrade has three parameters, the third of Committee's four, the hash of the
\* call data, is not among them; other types are refused.
Supported(answer) == answer[1] \in {"topic", "setCommittees", "upgradeContract"}

Encoded(answer) ==
    IF answer[1] = "upgradeContract" THEN <<"upgradeContract", answer[2], <<answer[3][1]>>>> ELSE answer

Exists(id) == State(id) # "NotFound"

SendersOf(v, txs) == {tx \in txs : tx.from = v}

\* getTransactionCount(voter, "pending")
PendingNonce(v) == nonces[v] + Cardinality(SendersOf(v, pool))

\* Accepted by the network when its nonce is neither mined nor taken.
NonceFree(v, nonce) == nonces[v] <= nonce /\ \A tx \in SendersOf(v, pool) : tx.nonce # nonce

Post(v, source, tx) ==
    pool' = pool \cup {[from |-> v, source |-> source, nonce |-> tx.nonce,
                        id |-> tx.id, choice |-> tx.choice, params |-> tx.params]}

\* require(...) of support and reject, MerkleProof.verify among them
VoteValid(v, tx) == /\ VotingOpen(tx.id) /\ NotVoted(tx.id, v)
                    /\ MayVote(tx.id, v) /\ Matches(tx.id, tx.params)

-----------------------------------------------------------------------------
(* The online tool *)

\* The voter names a proposal and a choice, and confirms the parameters shown.
Ask(v, id, choice, answer) ==
    /\ session[v].stage = "none" /\ Exists(id) /\ Supported(answer)
    /\ session' = [session EXCEPT ![v] =
           [stage |-> "confirmed",
            tx |-> [NoTx EXCEPT !.id = id, !.choice = choice, !.params = Encoded(answer)]]]
    /\ UNCHANGED <<vars, bundle, pool, nonces>>

\* committee.support or reject: the gas is estimated, which fails if the vote would
\* revert now, and the transaction sent with the next nonce.
Send(v) ==
    LET tx == [session[v].tx EXCEPT !.nonce = PendingNonce(v)] IN
    /\ session[v].stage = "confirmed"
    /\ IF VoteValid(v, tx)
       THEN Post(v, "online", tx) /\ session' = [session EXCEPT ![v] = [stage |-> "sent", tx |-> tx]]
       ELSE session' = [session EXCEPT ![v].stage = "failed"] /\ UNCHANGED pool
    /\ UNCHANGED <<vars, bundle, nonces>>

-----------------------------------------------------------------------------
(* The offline tool *)

\* Fault: the nonce of the last mined transaction's successor.
NonceFor_Fault(v) == nonces[v]

NonceFor(v) == PendingNonce(v)

\* prepareOfflineVote.  overtaken remembers how many transactions the network had
\* taken from the voter by then.
PrepareOfflineVote(v, k, id, choice, answer) ==
    LET tx == [id |-> id, choice |-> choice, params |-> Encoded(answer),
               nonce |-> NonceFor(v), overtaken |-> PendingNonce(v)]
    IN  /\ bundle[v][k].stage = "none" /\ Exists(id) /\ Supported(answer)
        /\ VoteValid(v, tx)
        /\ bundle' = [bundle EXCEPT ![v][k] = [stage |-> "unsigned", tx |-> tx]]
        /\ UNCHANGED <<vars, session, pool, nonces>>

\* signOfflineVote, with the key of the bundle's voter
SignOfflineVote(v, k) ==
    /\ bundle[v][k].stage = "unsigned"
    /\ bundle' = [bundle EXCEPT ![v][k].stage = "signed"]
    /\ UNCHANGED <<vars, session, pool, nonces>>

\* broadcastOfflineVote does not wait for the transaction, and does not ask
\* whether the vote is still possible.
BroadcastOfflineVote(v, k) ==
    LET tx == bundle[v][k].tx IN
    /\ bundle[v][k].stage = "signed"
    /\ IF NonceFree(v, tx.nonce)
       THEN Post(v, k, tx) /\ bundle' = [bundle EXCEPT ![v][k].stage = "sent"]
       ELSE bundle' = [bundle EXCEPT ![v][k].stage = "refused"] /\ UNCHANGED pool
    /\ UNCHANGED <<vars, session, nonces>>

-----------------------------------------------------------------------------
\* The next transaction of its sender is mined: it votes, or it reverts.
Mined(tx, result) ==
    IF tx.source = "online"
    THEN session' = [session EXCEPT ![tx.from].stage = result] /\ UNCHANGED bundle
    ELSE bundle' = [bundle EXCEPT ![tx.from][tx.source].stage = result] /\ UNCHANGED session

Mine(tx) ==
    /\ tx.nonce = nonces[tx.from]
    /\ nonces' = [nonces EXCEPT ![tx.from] = @ + 1]
    /\ pool' = pool \ {tx}
    /\ IF VoteValid(tx.from, tx)
       THEN /\ IF tx.choice = 1 THEN Support(tx.id, tx.from) ELSE Reject(tx.id, tx.from)
            /\ Mined(tx, "voted")
       ELSE Mined(tx, "failed") /\ UNCHANGED vars

VoteNext ==
    \/ \E v \in ToolUsers, id \in Ids, choice \in Sides, answer \in Answers :
          \/ Ask(v, id, choice, answer)
          \/ \E k \in Bundles : PrepareOfflineVote(v, k, id, choice, answer)
    \/ \E v \in ToolUsers : \/ Send(v)
                         \/ \E k \in Bundles : SignOfflineVote(v, k) \/ BroadcastOfflineVote(v, k)
    \/ \E tx \in pool : Mine(tx)
=============================================================================
