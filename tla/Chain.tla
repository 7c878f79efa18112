------------------------------- MODULE Chain -------------------------------
(***************************************************************************)
(* What Project, TokenLockup and Acquired share: the clock of the chain    *)
(* and the balances of src/contracts/NormalToken.sol.                      *)
(***************************************************************************)
EXTENDS Naturals, FiniteSets

CONSTANTS Accounts, LockupAddress, AcquiredAddress,   \* the holders of normal tokens
          Later,     \* by how much the clock may advance
          MaxTime    \* bound on the clock

Holders == Accounts \cup {LockupAddress, AcquiredAddress}

ASSUME ChainAssumption == /\ IsFiniteSet(Accounts)
                          /\ LockupAddress \notin Accounts /\ AcquiredAddress \notin Accounts
                          /\ LockupAddress # AcquiredAddress
                          /\ Later \subseteq Nat /\ MaxTime \in Nat

VARIABLES now,      \* block.timestamp
          normal    \* balanceOf of NormalToken

Elapse(d) == now + d <= MaxTime /\ now' = now + d

\* safeTransfer and safeTransferFrom
Transfer(from, to, amount) ==
    /\ normal[from] >= amount
    /\ normal' = [normal EXCEPT ![from] = @ - amount, ![to] = @ + amount]

\* mintNormalToken
Mint(to, amount) == normal' = [normal EXCEPT ![to] = @ + amount]
=============================================================================
