-------------------------------- MODULE Token --------------------------------
(***************************************************************************)
(* The SPL token program (token/program/src/processor.rs): mints, token    *)
(* accounts with delegates, frozen accounts, multisignature authorities,   *)
(* and accounts of the native mint, whose tokens are the lamports of the   *)
(* account.                                                                *)
(*                                                                         *)
(* One action is one instruction; signers is the set of keys that signed   *)
(* the transaction. The Checked variants differ from the plain ones in a   *)
(* comparison of decimals only, and the numbered variants in where the     *)
(* rent and the owner are read from.                                       *)
(***************************************************************************)
EXTENDS Integers, FiniteSets, Sequences

CONSTANTS
    Accounts,          \* addresses of token accounts
    Mints,             \* addresses of mints, without the native one
    NativeMint,        \* native_mint::id()
    Keys,              \* keys that can sign
    Multisigs,         \* addresses of multisignature accounts
    SystemProgram,     \* keys nobody can sign for
    Incinerator,
    NoKey,             \* COption::None
    MultisigSigners,   \* the signer lists tried, sequences of keys
    Amounts,           \* the amounts tried
    RentReserve,       \* the rent-exempt minimum of a token account
    InitialLamports,   \* lamports in the wallets at the start
    MaxSigners,        \* MAX_SIGNERS (11)
    MaxAmount          \* u64::MAX

VARIABLES
    mint,       \* the Mint of every address
    account,    \* the Account of every address
    multisig,   \* the Multisig of every address
    lamports,   \* the lamports of the token accounts
    wallets     \* the lamports of all other accounts together

vars == <<mint, account, multisig, lamports, wallets>>

DeadKeys == {SystemProgram, Incinerator}

Owners == Keys \cup Multisigs \cup DeadKeys

ASSUME KeyAssumption ==
    /\ NoKey \notin Owners
    /\ Multisigs \cap Keys = {} /\ DeadKeys \cap (Keys \cup Multisigs) = {}
    /\ NativeMint \notin Mints

ASSUME AmountAssumption ==
    /\ MaxAmount \in Nat /\ Amounts \subseteq 0 .. MaxAmount
    /\ RentReserve \in Nat /\ InitialLamports \in Nat
    /\ MaxSigners \in Nat
    /\ MultisigSigners \subseteq Seq(Keys)

EmptyMint ==
    [is_initialized |-> FALSE, supply |-> 0, mint_authority |-> NoKey,
     freeze_authority |-> NoKey]

\* The data of a new or closed account is all zeros, and the zero key is the
\* system program's.
EmptyAccount ==
    [state |-> "Uninitialized", mint |-> SystemProgram, owner |-> SystemProgram, amount |-> 0,
     delegate |-> NoKey, delegated_amount |-> 0, is_native |-> FALSE,
     close_authority |-> NoKey]

EmptyMultisig == [is_initialized |-> FALSE, m |-> 0, signers |-> << >>]

Init ==
    /\ mint = [m \in Mints |-> EmptyMint]
    /\ account = [a \in Accounts |-> EmptyAccount]
    /\ multisig = [k \in Multisigs |-> EmptyMultisig]
    /\ lamports = [a \in Accounts |-> 0]
    /\ wallets = InitialLamports

-------------------------------------------------------------------------------
is_initialized(a) == account[a].state # "Uninitialized"

is_frozen(a) == account[a].state = "Frozen"

is_owned_by_system_program_or_incinerator(a) == account[a].owner \in DeadKeys

\* A multisignature counts the positions whose key has signed, so a key that is
\* listed twice counts twice.
validate_owner(expected, signers) ==
    IF expected \in Multisigs
    THEN /\ multisig[expected].is_initialized
         /\ Cardinality({i \in DOMAIN multisig[expected].signers :
                            multisig[expected].signers[i] \in signers})
               >= multisig[expected].m
    ELSE expected \in signers

\* The delegate is looked at first, also when the owner is its own delegate.
AsDelegate(a, authority) == account[a].delegate # NoKey /\ account[a].delegate = authority

CanSpend(a, amount, authority, signers) ==
    IF AsDelegate(a, authority)
    THEN validate_owner(authority, signers) /\ account[a].delegated_amount >= amount
    ELSE authority = account[a].owner /\ validate_owner(authority, signers)

\* Account a after amount has been taken from it by authority; a delegate whose
\* allowance is used up is removed.
Spent(a, amount, authority) ==
    LET left == account[a].delegated_amount - amount
    IN  [account[a] EXCEPT
            !.amount = @ - amount,
            !.delegated_amount = IF AsDelegate(a, authority) THEN left ELSE @,
            !.delegate = IF AsDelegate(a, authority) /\ left = 0 THEN NoKey ELSE @]

-------------------------------------------------------------------------------
InitializeMint(m, authority, freeze) ==
    /\ ~ mint[m].is_initialized
    /\ mint' = [mint EXCEPT ![m].is_initialized = TRUE, ![m].mint_authority = authority,
                            ![m].freeze_authority = freeze]
    /\ UNCHANGED <<account, multisig, lamports, wallets>>

\* The tokens of a native account are its lamports above the rent reserve.
InitializeAccount(a, m, owner) ==
    /\ ~ is_initialized(a)
    /\ lamports[a] >= RentReserve
    /\ m # NativeMint => mint[m].is_initialized
    /\ account' = [account EXCEPT ![a] =
                     [EmptyAccount EXCEPT
                         !.state = "Initialized", !.mint = m, !.owner = owner,
                         !.is_native = m = NativeMint,
                         !.amount = IF m = NativeMint THEN lamports[a] - RentReserve ELSE 0]]
    /\ UNCHANGED <<mint, multisig, lamports, wallets>>

\* A plausible slip: a multisignature that is in use is set up anew.
InitializeMultisigAgain(k, m, signers) ==
    /\ Len(signers) \in 1 .. MaxSigners
    /\ m \in 1 .. MaxSigners
    /\ multisig' = [multisig EXCEPT ![k] = [is_initialized |-> TRUE, m |-> m, signers |-> signers]]
    /\ UNCHANGED <<mint, account, lamports, wallets>>

\* Nothing relates m to the number of signers.
InitializeMultisig(k, m, signers) ==
    /\ ~ multisig[k].is_initialized
    /\ Len(signers) \in 1 .. MaxSigners
    /\ m \in 1 .. MaxSigners
    /\ multisig' = [multisig EXCEPT ![k] = [is_initialized |-> TRUE, m |-> m, signers |-> signers]]
    /\ UNCHANGED <<mint, account, lamports, wallets>>

-------------------------------------------------------------------------------
CanTransfer(a, b, amount, authority, signers) ==
    /\ account[a].state = "Initialized" /\ account[b].state = "Initialized"
    /\ account[a].amount >= amount
    /\ account[a].mint = account[b].mint
    /\ CanSpend(a, amount, authority, signers)

\* A plausible slip: a transfer to itself writes back the copy of the receiver.
TransferToItself(a, b, amount, authority, signers) ==
    /\ CanTransfer(a, b, amount, authority, signers)
    /\ account[b].amount + amount <= MaxAmount
    /\ account' = [[account EXCEPT ![a] = Spent(a, amount, authority)] EXCEPT
                       ![b] = [account[b] EXCEPT !.amount = @ + amount]]
    /\ UNCHANGED <<mint, multisig, lamports, wallets>>

\* A plausible slip: the lamports of a native account stay behind.
TransferWithoutLamports(a, b, amount, authority, signers) ==
    /\ CanTransfer(a, b, amount, authority, signers)
    /\ a # b
    /\ account[b].amount + amount <= MaxAmount
    /\ account' = [account EXCEPT ![a] = Spent(a, amount, authority),
                                  ![b].amount = @ + amount]
    /\ UNCHANGED <<mint, multisig, lamports, wallets>>

\* A transfer to itself is checked and changes nothing.
Transfer(a, b, amount, authority, signers) ==
    /\ CanTransfer(a, b, amount, authority, signers)
    /\ \/ a = b /\ UNCHANGED <<account, lamports>>
       \/ /\ a # b
          /\ account[b].amount + amount <= MaxAmount
          /\ account' = [account EXCEPT ![a] = Spent(a, amount, authority),
                                        ![b].amount = @ + amount]
          /\ IF account[a].is_native
             THEN /\ lamports[a] >= amount
                  /\ lamports[b] + amount <= MaxAmount
                  /\ lamports' = [lamports EXCEPT ![a] = @ - amount, ![b] = @ + amount]
             ELSE UNCHANGED lamports
    /\ UNCHANGED <<mint, multisig, wallets>>

Approve(a, delegate, amount, signers) ==
    /\ account[a].state = "Initialized"
    /\ validate_owner(account[a].owner, signers)
    /\ account' = [account EXCEPT ![a].delegate = delegate, ![a].delegated_amount = amount]
    /\ UNCHANGED <<mint, multisig, lamports, wallets>>

\* A plausible slip: a frozen account can drop its delegate.
RevokeFrozen(a, signers) ==
    /\ is_initialized(a)
    /\ validate_owner(account[a].owner, signers)
    /\ account' = [account EXCEPT ![a].delegate = NoKey, ![a].delegated_amount = 0]
    /\ UNCHANGED <<mint, multisig, lamports, wallets>>

Revoke(a, signers) ==
    /\ account[a].state = "Initialized"
    /\ validate_owner(account[a].owner, signers)
    /\ account' = [account EXCEPT ![a].delegate = NoKey, ![a].delegated_amount = 0]
    /\ UNCHANGED <<mint, multisig, lamports, wallets>>

\* SetAuthority, AuthorityType::AccountOwner
SetAccountOwner(a, owner, signers) ==
    /\ account[a].state = "Initialized"
    /\ validate_owner(account[a].owner, signers)
    /\ account' = [account EXCEPT ![a] =
                     [account[a] EXCEPT
                         !.owner = owner, !.delegate = NoKey, !.delegated_amount = 0,
                         !.close_authority = IF account[a].is_native THEN NoKey ELSE @]]
    /\ UNCHANGED <<mint, multisig, lamports, wallets>>

CloseAuthority(a) ==
    IF account[a].close_authority # NoKey THEN account[a].close_authority ELSE account[a].owner

\* SetAuthority, AuthorityType::CloseAccount
SetCloseAuthority(a, authority, signers) ==
    /\ account[a].state = "Initialized"
    /\ validate_owner(CloseAuthority(a), signers)
    /\ account' = [account EXCEPT ![a].close_authority = authority]
    /\ UNCHANGED <<mint, multisig, lamports, wallets>>

\* A plausible slip: a mint without an authority can be given one.
SetMintAuthorityAgain(m, authority, signers) ==
    /\ mint[m].is_initialized
    /\ mint[m].mint_authority # NoKey => validate_owner(mint[m].mint_authority, signers)
    /\ mint' = [mint EXCEPT ![m].mint_authority = authority]
    /\ UNCHANGED <<account, multisig, lamports, wallets>>

\* SetAuthority, AuthorityType::MintTokens
SetMintAuthority(m, authority, signers) ==
    /\ mint[m].is_initialized
    /\ mint[m].mint_authority # NoKey
    /\ validate_owner(mint[m].mint_authority, signers)
    /\ mint' = [mint EXCEPT ![m].mint_authority = authority]
    /\ UNCHANGED <<account, multisig, lamports, wallets>>

\* SetAuthority, AuthorityType::FreezeAccount
SetFreezeAuthority(m, authority, signers) ==
    /\ mint[m].is_initialized
    /\ mint[m].freeze_authority # NoKey
    /\ validate_owner(mint[m].freeze_authority, signers)
    /\ mint' = [mint EXCEPT ![m].freeze_authority = authority]
    /\ UNCHANGED <<account, multisig, lamports, wallets>>

\* A plausible slip: the supply may wrap when the balance does not.
MintToUnchecked(m, a, amount, signers) ==
    /\ account[a].state = "Initialized"
    /\ ~ account[a].is_native
    /\ account[a].mint = m
    /\ mint[m].is_initialized
    /\ mint[m].mint_authority # NoKey
    /\ validate_owner(mint[m].mint_authority, signers)
    /\ account[a].amount + amount <= MaxAmount
    /\ account' = [account EXCEPT ![a].amount = @ + amount]
    /\ mint' = [mint EXCEPT ![m].supply = @ + amount]
    /\ UNCHANGED <<multisig, lamports, wallets>>

MintTo(m, a, amount, signers) ==
    /\ account[a].state = "Initialized"
    /\ ~ account[a].is_native
    /\ account[a].mint = m
    /\ mint[m].is_initialized
    /\ mint[m].mint_authority # NoKey
    /\ validate_owner(mint[m].mint_authority, signers)
    /\ account[a].amount + amount <= MaxAmount
    /\ mint[m].supply + amount <= MaxAmount
    /\ account' = [account EXCEPT ![a].amount = @ + amount]
    /\ mint' = [mint EXCEPT ![m].supply = @ + amount]
    /\ UNCHANGED <<multisig, lamports, wallets>>

\* Anybody may burn what belongs to a key nobody can sign for.
Burn(a, amount, authority, signers) ==
    LET m == account[a].mint
    IN  /\ account[a].state = "Initialized"
        /\ ~ account[a].is_native
        /\ mint[m].is_initialized
        /\ account[a].amount >= amount
        /\ mint[m].supply >= amount
        /\ IF is_owned_by_system_program_or_incinerator(a)
           THEN account' = [account EXCEPT ![a].amount = @ - amount]
           ELSE /\ CanSpend(a, amount, authority, signers)
                /\ account' = [account EXCEPT ![a] = Spent(a, amount, authority)]
        /\ mint' = [mint EXCEPT ![m].supply = @ - amount]
        /\ UNCHANGED <<multisig, lamports, wallets>>

-------------------------------------------------------------------------------
\* A plausible slip: an account is closed into itself.
CloseIntoItself(a, destination, signers) ==
    /\ is_initialized(a)
    /\ a = destination
    /\ account[a].is_native \/ account[a].amount = 0
    /\ validate_owner(CloseAuthority(a), signers)
    /\ account' = [account EXCEPT ![a] = EmptyAccount]
    /\ lamports' = [lamports EXCEPT ![a] = 0]
    /\ UNCHANGED <<mint, multisig, wallets>>

\* A frozen account can be closed; the lamports of a native one are its tokens.
\* A destination that is no token account is one of the wallets.
CloseAccount(a, destination, signers) ==
    /\ is_initialized(a)
    /\ a # destination
    /\ account[a].is_native \/ account[a].amount = 0
    /\ IF is_owned_by_system_program_or_incinerator(a)
       THEN destination = Incinerator
       ELSE validate_owner(CloseAuthority(a), signers)
    /\ account' = [account EXCEPT ![a] = EmptyAccount]
    /\ IF destination \in Accounts
       THEN /\ lamports[destination] + lamports[a] <= MaxAmount
            /\ lamports' = [lamports EXCEPT ![a] = 0, ![destination] = @ + lamports[a]]
            /\ UNCHANGED wallets
       ELSE /\ wallets' = wallets + lamports[a]
            /\ lamports' = [lamports EXCEPT ![a] = 0]
    /\ UNCHANGED <<mint, multisig>>

process_toggle_freeze_account(a, freeze, signers) ==
    LET m == account[a].mint
    IN  /\ account[a].state = IF freeze THEN "Initialized" ELSE "Frozen"
        /\ ~ account[a].is_native
        /\ mint[m].is_initialized
        /\ mint[m].freeze_authority # NoKey
        /\ validate_owner(mint[m].freeze_authority, signers)
        /\ account' = [account EXCEPT ![a].state = IF freeze THEN "Frozen" ELSE "Initialized"]
        /\ UNCHANGED <<mint, multisig, lamports, wallets>>

\* Lamports sent to a native account become tokens.
SyncNative(a) ==
    /\ is_initialized(a)
    /\ account[a].is_native
    /\ lamports[a] >= RentReserve
    /\ lamports[a] - RentReserve >= account[a].amount
    /\ account' = [account EXCEPT ![a].amount = lamports[a] - RentReserve]
    /\ UNCHANGED <<mint, multisig, lamports, wallets>>

\* The system program lets anybody send lamports to any address.
SendLamports(a, amount) ==
    /\ wallets >= amount
    /\ lamports[a] + amount <= MaxAmount
    /\ lamports' = [lamports EXCEPT ![a] = @ + amount]
    /\ wallets' = wallets - amount
    /\ UNCHANGED <<mint, account, multisig>>

-------------------------------------------------------------------------------
MaybeKeys == Owners \cup {NoKey}

MintNext(signers) ==
    \E m \in Mints :
        \/ \E k \in MaybeKeys : SetMintAuthority(m, k, signers) \/ SetFreezeAuthority(m, k, signers)
        \/ \E a \in Accounts, n \in Amounts : MintTo(m, a, n, signers)

AccountNext(signers) ==
    \E a \in Accounts :
        \/ \E b \in Accounts, n \in Amounts, k \in Owners : Transfer(a, b, n, k, signers)
        \/ \E n \in Amounts, k \in Owners : Approve(a, k, n, signers) \/ Burn(a, n, k, signers)
        \/ Revoke(a, signers)
        \/ \E k \in Owners : SetAccountOwner(a, k, signers)
        \/ \E k \in MaybeKeys : SetCloseAuthority(a, k, signers)
        \/ \E d \in Accounts \cup DeadKeys \cup Keys : CloseAccount(a, d, signers)
        \/ \E f \in BOOLEAN : process_toggle_freeze_account(a, f, signers)

Unsigned ==
    \/ \E m \in Mints, k \in Owners, f \in MaybeKeys : InitializeMint(m, k, f)
    \/ \E a \in Accounts, m \in Mints \cup {NativeMint}, k \in Owners : InitializeAccount(a, m, k)
    \/ \E k \in Multisigs, n \in 1 .. MaxSigners, s \in MultisigSigners : InitializeMultisig(k, n, s)
    \/ \E a \in Accounts : SyncNative(a)
    \/ \E a \in Accounts, n \in Amounts : SendLamports(a, n)

Next == Unsigned \/ \E signers \in SUBSET Keys : MintNext(signers) \/ AccountNext(signers)

Spec == Init /\ [][Next]_vars

-------------------------------------------------------------------------------
Mint ==
    [is_initialized : BOOLEAN, supply : 0 .. MaxAmount, mint_authority : MaybeKeys,
     freeze_authority : MaybeKeys]

Account ==
    [state : {"Uninitialized", "Initialized", "Frozen"}, mint : Mints \cup {NativeMint, SystemProgram},
     owner : Owners, amount : 0 .. MaxAmount, delegate : MaybeKeys,
     delegated_amount : 0 .. MaxAmount, is_native : BOOLEAN, close_authority : MaybeKeys]

Multisig == [is_initialized : BOOLEAN, m : 0 .. MaxSigners, signers : Seq(Keys)]

\* The accounts have the shape of their structs, and every balance, allowance and
\* supply stays a u64: none of them wraps.
TokenTypeOK ==
    /\ mint \in [Mints -> Mint]
    /\ account \in [Accounts -> Account]
    /\ multisig \in [Multisigs -> Multisig]
    /\ lamports \in [Accounts -> 0 .. MaxAmount]
    /\ wallets \in Nat

\* A wrapped account can always pay out what it says it holds: its lamports are
\* at least its tokens and the rent reserve, whatever is transferred, synced,
\* closed and sent. No initialized account falls below the reserve.
NativeBacked ==
    \A a \in Accounts : is_initialized(a) =>
        /\ account[a].is_native <=> account[a].mint = NativeMint
        /\ lamports[a] >= RentReserve + IF account[a].is_native THEN account[a].amount ELSE 0

\* A supply that was fixed stays fixed: once the mint authority is gone nobody
\* gets it back, and no instruction makes the supply grow.
FixedSupplyStays ==
    [][\A m \in Mints : mint[m].is_initialized /\ mint[m].mint_authority = NoKey =>
            mint'[m].mint_authority = NoKey /\ mint'[m].supply <= mint[m].supply]_vars

\* A frozen account keeps its balance, owner and delegate until it is thawed; the
\* only other thing that can happen to it is that it is closed while empty.
FrozenIsStill ==
    [][\A a \in Accounts : is_frozen(a) =>
            \/ account'[a] = [account[a] EXCEPT !.state = account'[a].state]
            \/ account[a].amount = 0 /\ account'[a] = EmptyAccount]_vars

\* "Neither the account owner nor the delegate are able to perform operations on
\* this account" (AccountState::Frozen): a frozen account is not closed.
FrozenStaysOpen ==
    [][\A a \in Accounts : is_frozen(a) => is_initialized(a)']_vars

\* Whether some set of signers can act for key.
CanAct(key) == \E signers \in SUBSET Keys : validate_owner(key, signers)

\* The account belongs to a multisignature that no set of signers satisfies (m is
\* larger than the list is long), and nobody else may spend from it or close it.
Locked(a) ==
    /\ is_initialized(a)
    /\ account[a].owner \in Multisigs
    /\ multisig[account[a].owner].is_initialized
    /\ ~ CanAct(account[a].owner)
    /\ account[a].delegate = NoKey
    /\ account[a].close_authority = NoKey

\* A locked account is locked for good, and it never loses a token: its
\* multisignature cannot be set up anew, and no instruction goes around it.
LockedStays ==
    [][\A a \in Accounts : Locked(a) => Locked(a)' /\ account'[a].amount >= account[a].amount]_vars
===============================================================================
