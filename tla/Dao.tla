-------------------------------- MODULE Dao --------------------------------
(***************************************************************************)
(* The registry of SourceDAO, src/contracts/Dao.sol: one slot per module,  *)
(* written once by the bootstrap administrator, and the administrator      *)
(* itself.  The addresses of contracts are positive numbers, 0 is          *)
(* address(0).  The module has no specification of its own: the scripts    *)
(* and accounts that send its transactions are module Bootstrap.           *)
(***************************************************************************)
EXTENDS Naturals

CONSTANTS
    Accounts,     \* the accounts that may administer the registry
    NoAccount,    \* address(0) as an account
    Modules       \* the slots

ASSUME DaoAssumption == NoAccount \notin Accounts

NoAddress == 0

VARIABLES
    registry,         \* registry[m]: _committee, _devToken, ... _acquired
    bootstrapAdmin,
    initialized       \* the version counter of the initializer

daoVars == <<registry, bootstrapAdmin, initialized>>

\* A fresh proxy, or one that the published release without an administrator
\* left behind (initialized once, no administrator).
DaoInit ==
    /\ registry = [m \in Modules |-> NoAddress]
    /\ bootstrapAdmin = NoAccount
    /\ initialized \in {0, 1}

\* initialize
Initialize(sender) ==
    /\ initialized = 0
    /\ initialized' = 1
    /\ bootstrapAdmin' = sender
    /\ UNCHANGED registry

\* transferBootstrapAdmin
TransferBootstrapAdmin(sender, to) ==
    /\ sender = bootstrapAdmin
    /\ bootstrapAdmin' = to
    /\ UNCHANGED <<registry, initialized>>

\* migrateBootstrapAdmin: reinitializer(2), and no administrator yet.
MigrateBootstrapAdmin(to) ==
    /\ initialized < 2 /\ bootstrapAdmin = NoAccount
    /\ initialized' = 2
    /\ bootstrapAdmin' = to
    /\ UNCHANGED registry

\* onlyBootstrapAdmin, onlySetOnce and _requireValidAddress of the setters.
MaySet_Fault(sender, m, hasCode) == sender = bootstrapAdmin /\ hasCode  \* Fault: not set-once.
MaySet(sender, m, hasCode) ==
    /\ sender = bootstrapAdmin
    /\ registry[m] = NoAddress
    /\ hasCode

\* set<Module>Address
SetAddress(m, address) ==
    /\ registry' = [registry EXCEPT ![m] = address]
    /\ UNCHANGED <<bootstrapAdmin, initialized>>

\* isDAOContract (of an address other than the registry itself)
IsDAOContract(address) == \E m \in Modules : registry[m] = address
=============================================================================
