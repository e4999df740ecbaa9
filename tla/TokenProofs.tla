----------------------------- MODULE TokenProofs -----------------------------
(***************************************************************************)
(* Proofs about the token program, for any accounts, mints, keys and       *)
(* amounts: the types are kept, wrapped lamports are covered, a fixed      *)
(* supply stays fixed and a frozen account stays as it is.                 *)
(***************************************************************************)
EXTENDS Token, TLAPS

\* A new balance leaves the rest of an account as it is.
LEMMA AmountUpdate ==
    ASSUME NEW r \in Account, NEW n \in 0 .. MaxAmount
    PROVE  [r EXCEPT !.amount = n] \in Account
  BY DEF Account

\* What is left of an account is an account, if it had the tokens and the
\* delegate had the allowance.
LEMMA SpentType ==
    ASSUME TokenTypeOK, NEW a \in Accounts, NEW n \in Amounts, NEW k \in Owners, NEW S,
           account[a].amount >= n, CanSpend(a, n, k, S)
    PROVE  /\ Spent(a, n, k) \in Account
           /\ Spent(a, n, k).amount = account[a].amount - n
           /\ Spent(a, n, k).state = account[a].state
           /\ Spent(a, n, k).mint = account[a].mint
           /\ Spent(a, n, k).is_native = account[a].is_native
  <1> DEFINE left == account[a].delegated_amount - n
             d == IF AsDelegate(a, k) THEN left ELSE account[a].delegated_amount
             key == IF AsDelegate(a, k) /\ left = 0 THEN NoKey ELSE account[a].delegate
  <1>1. account[a] \in Account /\ n \in 0 .. MaxAmount /\ MaxAmount \in Nat
    BY AmountAssumption DEF TokenTypeOK
  <1>2. account[a].amount - n \in 0 .. MaxAmount
    BY <1>1 DEF Account
  <1>3. d \in 0 .. MaxAmount
    BY <1>1 DEF Account, CanSpend
  <1>4. key \in MaybeKeys
    BY <1>1 DEF Account, MaybeKeys
  <1>5. Spent(a, n, k) = [account[a] EXCEPT !.amount = account[a].amount - n,
                              !.delegated_amount = d, !.delegate = key]
    BY DEF Spent
  <1> HIDE DEF d, key
  <1> QED BY <1>1, <1>2, <1>3, <1>4, <1>5, ZenonT(60) DEF Account

\* The types hold at the start.
LEMMA TokenTypeInit == ASSUME Init PROVE TokenTypeOK
  <1>1. 0 \in 0 .. MaxAmount /\ 0 \in 0 .. MaxSigners /\ InitialLamports \in Nat
    BY AmountAssumption
  <1>2. EmptyMint \in Mint
    BY <1>1 DEF EmptyMint, Mint, MaybeKeys
  <1>3. EmptyAccount \in Account
    BY <1>1 DEF EmptyAccount, Account, MaybeKeys, Owners, DeadKeys
  <1>4. << >> \in Seq(Keys)
    OBVIOUS
  <1>5. EmptyMultisig \in Multisig
    BY <1>1, <1>4 DEF EmptyMultisig, Multisig
  <1> QED BY <1>1, <1>2, <1>3, <1>5 DEF Init, TokenTypeOK

\* Instructions nobody has to sign.
LEMMA TokenTypeUnsigned == ASSUME TokenTypeOK, Unsigned PROVE TokenTypeOK'
  <1> USE DEF TokenTypeOK
  <1>1. ASSUME NEW m \in Mints, NEW k \in Owners, NEW f \in MaybeKeys, InitializeMint(m, k, f)
        PROVE  TokenTypeOK'
    <2>1. mint' \in [Mints -> Mint]
      BY <1>1, ZenonT(60) DEF InitializeMint, Mint, MaybeKeys
    <2> QED BY <1>1, <2>1 DEF InitializeMint
  <1>2. ASSUME NEW a \in Accounts, NEW m \in Mints \cup {NativeMint}, NEW k \in Owners,
               InitializeAccount(a, m, k)
        PROVE  TokenTypeOK'
    <2> DEFINE n == IF m = NativeMint THEN lamports[a] - RentReserve ELSE 0
               new == [EmptyAccount EXCEPT !.state = "Initialized", !.mint = m, !.owner = k,
                                           !.is_native = m = NativeMint, !.amount = n]
    <2>1. n \in 0 .. MaxAmount /\ 0 \in 0 .. MaxAmount
      BY <1>2, AmountAssumption DEF InitializeAccount
    <2>2. new \in Account
      <3> HIDE DEF n
      <3> QED BY <2>1 DEF EmptyAccount, Account, MaybeKeys
    <2>3. account' = [account EXCEPT ![a] = new]
      BY <1>2 DEF InitializeAccount
    <2> HIDE DEF new
    <2> QED BY <1>2, <2>2, <2>3 DEF InitializeAccount
  <1>3. ASSUME NEW k \in Multisigs, NEW n \in 1 .. MaxSigners, NEW s \in MultisigSigners,
               InitializeMultisig(k, n, s)
        PROVE  TokenTypeOK'
    <2>1. s \in Seq(Keys) /\ n \in 0 .. MaxSigners
      BY AmountAssumption
    <2>2. [is_initialized |-> TRUE, m |-> n, signers |-> s] \in Multisig
      BY <2>1 DEF Multisig
    <2> QED BY <1>3, <2>2 DEF InitializeMultisig
  <1>4. ASSUME NEW a \in Accounts, SyncNative(a)
        PROVE  TokenTypeOK'
    <2>1. lamports[a] - RentReserve \in 0 .. MaxAmount
      BY <1>4, AmountAssumption DEF SyncNative
    <2>2. [account[a] EXCEPT !.amount = lamports[a] - RentReserve] \in Account
      BY <2>1, AmountUpdate
    <2>3. account' = [account EXCEPT ![a] = [account[a] EXCEPT !.amount = lamports[a] - RentReserve]]
      BY <1>4 DEF SyncNative
    <2> QED BY <1>4, <2>2, <2>3 DEF SyncNative
  <1>5. ASSUME NEW a \in Accounts, NEW n \in Amounts, SendLamports(a, n)
        PROVE  TokenTypeOK'
    BY <1>5, AmountAssumption DEF SendLamports
  <1> QED BY <1>1, <1>2, <1>3, <1>4, <1>5 DEF Unsigned

\* Instructions the authorities of a mint sign.
LEMMA TokenTypeMint == ASSUME TokenTypeOK, NEW S, MintNext(S) PROVE TokenTypeOK'
  <1> USE DEF TokenTypeOK
  <1>1. ASSUME NEW m \in Mints, NEW k \in MaybeKeys, SetMintAuthority(m, k, S)
        PROVE  TokenTypeOK'
    <2>1. mint' \in [Mints -> Mint]
      BY <1>1 DEF SetMintAuthority, Mint
    <2> QED BY <1>1, <2>1 DEF SetMintAuthority
  <1>2. ASSUME NEW m \in Mints, NEW k \in MaybeKeys, SetFreezeAuthority(m, k, S)
        PROVE  TokenTypeOK'
    <2>1. mint' \in [Mints -> Mint]
      BY <1>2 DEF SetFreezeAuthority, Mint
    <2> QED BY <1>2, <2>1 DEF SetFreezeAuthority
  <1>3. ASSUME NEW m \in Mints, NEW a \in Accounts, NEW n \in Amounts, MintTo(m, a, n, S)
        PROVE  TokenTypeOK'
    <2>1. account[a].amount + n \in 0 .. MaxAmount /\ mint[m].supply + n \in 0 .. MaxAmount
      BY <1>3, AmountAssumption DEF MintTo, Account, Mint
    <2>2. [account[a] EXCEPT !.amount = account[a].amount + n] \in Account
      BY <2>1, AmountUpdate
    <2>3. account' = [account EXCEPT ![a] = [account[a] EXCEPT !.amount = account[a].amount + n]]
      BY <1>3 DEF MintTo
    <2>4. [mint[m] EXCEPT !.supply = mint[m].supply + n] \in Mint
      BY <2>1 DEF Mint
    <2>5. mint' = [mint EXCEPT ![m] = [mint[m] EXCEPT !.supply = mint[m].supply + n]]
      BY <1>3 DEF MintTo
    <2>6. account' \in [Accounts -> Account] /\ mint' \in [Mints -> Mint]
      BY <2>2, <2>3, <2>4, <2>5
    <2> QED BY <1>3, <2>6 DEF MintTo
  <1> QED BY <1>1, <1>2, <1>3 DEF MintNext

\* A transfer between two accounts, and its effect on both.
LEMMA TransferType ==
    ASSUME TokenTypeOK, NEW a \in Accounts, NEW b \in Accounts, NEW n \in Amounts,
           NEW k \in Owners, NEW S, Transfer(a, b, n, k, S)
    PROVE  TokenTypeOK'
  <1> USE DEF TokenTypeOK
  <1>1. CASE a = b
    BY <1>1 DEF Transfer
  <1>2. CASE a # b
    <2>1. Spent(a, n, k) \in Account
      BY SpentType DEF Transfer, CanTransfer
    <2>2. account[b].amount + n \in 0 .. MaxAmount
      <3>1. account[b].amount + n <= MaxAmount
        BY <1>2 DEF Transfer
      <3>2. account[b].amount \in Nat /\ n \in Nat
        BY AmountAssumption DEF Account
      <3> QED BY <3>1, <3>2, AmountAssumption
    <2>3. [account[b] EXCEPT !.amount = account[b].amount + n] \in Account
      BY <2>2, AmountUpdate
    <2>4. account' = [account EXCEPT ![a] = Spent(a, n, k),
                                     ![b] = [account[b] EXCEPT !.amount = account[b].amount + n]]
      BY <1>2 DEF Transfer
    <2>5. account' \in [Accounts -> Account]
      BY <2>1, <2>3, <2>4
    <2>6. lamports' \in [Accounts -> 0 .. MaxAmount]
      <3>1. CASE ~ account[a].is_native
        BY <1>2, <3>1 DEF Transfer
      <3>2. CASE account[a].is_native
        <4>1. /\ lamports[a] >= n /\ lamports[b] + n <= MaxAmount
              /\ lamports' = [lamports EXCEPT ![a] = lamports[a] - n, ![b] = lamports[b] + n]
          BY <1>2, <3>2 DEF Transfer
        <4>2. lamports[a] \in Nat /\ lamports[a] <= MaxAmount /\ lamports[b] \in Nat /\ n \in Nat
          BY AmountAssumption
        <4>3. lamports[a] - n \in 0 .. MaxAmount /\ lamports[b] + n \in 0 .. MaxAmount
          BY <4>1, <4>2, AmountAssumption
        <4> QED BY <4>1, <4>3
      <3> QED BY <3>1, <3>2
    <2> QED BY <2>5, <2>6 DEF Transfer
  <1> QED BY <1>1, <1>2

\* Burning, by anybody or by somebody who may spend.
LEMMA BurnType ==
    ASSUME TokenTypeOK, NEW a \in Accounts, NEW n \in Amounts, NEW k \in Owners, NEW S,
           Burn(a, n, k, S)
    PROVE  TokenTypeOK'
  <1> USE DEF TokenTypeOK
  <1>1. account[a].amount - n \in 0 .. MaxAmount
    BY AmountAssumption DEF Burn, Account
  <1>2. account' \in [Accounts -> Account]
    <2>1. CASE is_owned_by_system_program_or_incinerator(a)
      <3>1. account' = [account EXCEPT ![a] = [account[a] EXCEPT !.amount = account[a].amount - n]]
        BY <2>1 DEF Burn
      <3>2. [account[a] EXCEPT !.amount = account[a].amount - n] \in Account
        BY <1>1, AmountUpdate
      <3> QED BY <3>1, <3>2
    <2>2. CASE ~ is_owned_by_system_program_or_incinerator(a)
      <3>1. Spent(a, n, k) \in Account
        BY <2>2, SpentType DEF Burn
      <3>2. account' = [account EXCEPT ![a] = Spent(a, n, k)]
        BY <2>2 DEF Burn
      <3> QED BY <3>1, <3>2
    <2> QED BY <2>1, <2>2
  <1>3. mint' \in [Mints -> Mint]
    <2> DEFINE m == account[a].mint
    <2>1. mint' = [mint EXCEPT ![m] = [mint[m] EXCEPT !.supply = mint[m].supply - n]]
      BY DEF Burn
    <2>2. mint[m].supply >= n
      BY DEF Burn
    <2> HIDE DEF m
    <2>3. CASE m \in Mints
      <3>1. mint[m].supply - n \in 0 .. MaxAmount
        BY <2>2, <2>3, AmountAssumption DEF Mint
      <3>2. [mint[m] EXCEPT !.supply = mint[m].supply - n] \in Mint
        BY <2>3, <3>1 DEF Mint
      <3> QED BY <2>1, <3>2
    <2>4. CASE m \notin Mints
      BY <2>1, <2>4
    <2> QED BY <2>3, <2>4
  <1> QED BY <1>2, <1>3 DEF Burn

\* Instructions on an account.
LEMMA TokenTypeAccount == ASSUME TokenTypeOK, NEW S, AccountNext(S) PROVE TokenTypeOK'
  <1> USE DEF TokenTypeOK
  <1>1. ASSUME NEW a \in Accounts, NEW k \in Owners, NEW n \in Amounts, Approve(a, k, n, S)
        PROVE  TokenTypeOK'
    <2>1. [account[a] EXCEPT !.delegate = k, !.delegated_amount = n] \in Account
      BY AmountAssumption, ZenonT(60) DEF Account, MaybeKeys
    <2>2. account' = [account EXCEPT ![a] = [account[a] EXCEPT !.delegate = k, !.delegated_amount = n]]
      BY <1>1 DEF Approve
    <2> QED BY <1>1, <2>1, <2>2 DEF Approve
  <1>2. ASSUME NEW a \in Accounts, Revoke(a, S)
        PROVE  TokenTypeOK'
    <2>1. [account[a] EXCEPT !.delegate = NoKey, !.delegated_amount = 0] \in Account
      <3>1. 0 \in 0 .. MaxAmount /\ NoKey \in MaybeKeys
        BY AmountAssumption DEF MaybeKeys
      <3> QED BY <3>1, ZenonT(60) DEF Account
    <2>2. account' = [account EXCEPT ![a] =
                        [account[a] EXCEPT !.delegate = NoKey, !.delegated_amount = 0]]
      BY <1>2 DEF Revoke
    <2> QED BY <1>2, <2>1, <2>2 DEF Revoke
  <1>3. ASSUME NEW a \in Accounts, NEW k \in Owners, SetAccountOwner(a, k, S)
        PROVE  TokenTypeOK'
    <2> DEFINE c == IF account[a].is_native THEN NoKey ELSE account[a].close_authority
               new == [account[a] EXCEPT !.owner = k, !.delegate = NoKey, !.delegated_amount = 0,
                                         !.close_authority = c]
    <2>1. c \in MaybeKeys /\ 0 \in 0 .. MaxAmount
      BY AmountAssumption DEF Account, MaybeKeys
    <2>2. new \in Account
      <3> HIDE DEF c
      <3> QED BY <2>1, ZenonT(60) DEF Account, MaybeKeys
    <2>3. account' = [account EXCEPT ![a] = new]
      BY <1>3 DEF SetAccountOwner
    <2> HIDE DEF new
    <2> QED BY <1>3, <2>2, <2>3 DEF SetAccountOwner
  <1>4. ASSUME NEW a \in Accounts, NEW k \in MaybeKeys, SetCloseAuthority(a, k, S)
        PROVE  TokenTypeOK'
    <2>1. [account[a] EXCEPT !.close_authority = k] \in Account
      BY DEF Account
    <2>2. account' = [account EXCEPT ![a] = [account[a] EXCEPT !.close_authority = k]]
      BY <1>4 DEF SetCloseAuthority
    <2> QED BY <1>4, <2>1, <2>2 DEF SetCloseAuthority
  <1>5. ASSUME NEW a \in Accounts, NEW d, CloseAccount(a, d, S)
        PROVE  TokenTypeOK'
    <2>1. EmptyAccount \in Account /\ 0 \in 0 .. MaxAmount
      BY AmountAssumption DEF EmptyAccount, Account, MaybeKeys, Owners, DeadKeys
    <2>2. account' \in [Accounts -> Account]
      BY <1>5, <2>1 DEF CloseAccount
    <2>3. lamports' \in [Accounts -> 0 .. MaxAmount] /\ wallets' \in Nat
      <3>1. lamports[a] \in Nat
        BY AmountAssumption
      <3>2. CASE d \in Accounts
        <4>1. /\ lamports[d] + lamports[a] <= MaxAmount
              /\ lamports' = [lamports EXCEPT ![a] = 0, ![d] = lamports[d] + lamports[a]]
              /\ wallets' = wallets
          BY <1>5, <3>2 DEF CloseAccount
        <4>2. lamports[d] + lamports[a] \in 0 .. MaxAmount
          BY <3>1, <3>2, <4>1, AmountAssumption
        <4> QED BY <2>1, <4>1, <4>2
      <3>3. CASE d \notin Accounts
        BY <1>5, <2>1, <3>1, <3>3 DEF CloseAccount
      <3> QED BY <3>2, <3>3
    <2> QED BY <1>5, <2>2, <2>3 DEF CloseAccount
  <1>6. ASSUME NEW a \in Accounts, NEW f \in BOOLEAN, process_toggle_freeze_account(a, f, S)
        PROVE  TokenTypeOK'
    <2> DEFINE state == IF f THEN "Frozen" ELSE "Initialized"
    <2>1. [account[a] EXCEPT !.state = state] \in Account
      BY DEF Account
    <2>2. account' = [account EXCEPT ![a] = [account[a] EXCEPT !.state = state]]
      BY <1>6 DEF process_toggle_freeze_account
    <2> HIDE DEF state
    <2> QED BY <1>6, <2>1, <2>2 DEF process_toggle_freeze_account
  <1> QED
    BY <1>1, <1>2, <1>3, <1>4, <1>5, <1>6, TransferType, BurnType DEF AccountNext

\* The inductive step of type correctness.
LEMMA TokenTypeNext == ASSUME TokenTypeOK, [Next]_vars PROVE TokenTypeOK'
  <1>1. CASE UNCHANGED vars
    BY <1>1 DEF vars, TokenTypeOK
  <1> QED BY <1>1, TokenTypeUnsigned, TokenTypeMint, TokenTypeAccount DEF Next

\* Every balance, allowance, supply and amount of lamports of the token program
\* stays a u64 and every account keeps the shape of its struct, for any number of
\* accounts, mints and keys.
THEOREM TokenTypeCorrect == Spec => []TokenTypeOK
  BY TokenTypeInit, TokenTypeNext, PTL DEF Spec

-------------------------------------------------------------------------------
(***************************************************************************)
(* Wrapped lamports. NativeBacked is inductive with the fact that a native *)
(* account is never frozen.                                                *)
(***************************************************************************)
NativeInv ==
    /\ NativeBacked
    /\ \A x \in Accounts : is_frozen(x) => ~ account[x].is_native

\* What a step has to keep of an account that stays in use.
Kept(x) ==
    /\ is_initialized(x)
    /\ account'[x].mint = account[x].mint
    /\ account'[x].is_native = account[x].is_native
    /\ account'[x].state = "Frozen" => ~ account[x].is_native
    /\ account[x].is_native => lamports'[x] - account'[x].amount >= lamports[x] - account[x].amount
    /\ ~ account[x].is_native => lamports'[x] >= lamports[x]

\* A step that closes some accounts and keeps the others keeps the invariant.
LEMMA NativeFrame ==
    ASSUME TokenTypeOK, TokenTypeOK', NativeInv,
           \A x \in Accounts : account'[x].state = "Uninitialized" \/ Kept(x)
    PROVE  NativeInv'
  <1> SUFFICES ASSUME NEW x \in Accounts, account'[x].state # "Uninitialized"
               PROVE  /\ account'[x].is_native <=> account'[x].mint = NativeMint
                      /\ lamports'[x] >= RentReserve +
                            IF account'[x].is_native THEN account'[x].amount ELSE 0
                      /\ account'[x].state = "Frozen" => ~ account'[x].is_native
    BY DEF NativeInv, NativeBacked, is_initialized, is_frozen
  <1>1. Kept(x)
    OBVIOUS
  <1>2. /\ account[x].is_native <=> account[x].mint = NativeMint
        /\ lamports[x] >= RentReserve + IF account[x].is_native THEN account[x].amount ELSE 0
    BY <1>1 DEF Kept, NativeInv, NativeBacked
  <1>3. /\ account[x].amount \in Nat /\ account'[x].amount \in Nat
        /\ lamports[x] \in Nat /\ lamports'[x] \in Nat /\ RentReserve \in Nat
    BY AmountAssumption DEF TokenTypeOK, Account
  <1>4. account'[x].is_native <=> account'[x].mint = NativeMint
    BY <1>1, <1>2, Zenon DEF Kept
  <1>5. account'[x].state = "Frozen" => ~ account'[x].is_native
    BY <1>1, Zenon DEF Kept
  <1>6. CASE account[x].is_native
    <2>1. account'[x].is_native
      BY <1>1, <1>6, Zenon DEF Kept
    <2>2. lamports'[x] - account'[x].amount >= lamports[x] - account[x].amount
      BY <1>1, <1>6 DEF Kept
    <2>3. lamports'[x] >= RentReserve + account'[x].amount
      BY <1>2, <1>3, <1>6, <2>2
    <2> QED BY <1>4, <1>5, <2>1, <2>3
  <1>7. CASE ~ account[x].is_native
    <2>1. ~ account'[x].is_native
      BY <1>1, <1>7, Zenon DEF Kept
    <2>2. lamports'[x] >= lamports[x]
      BY <1>1, <1>7 DEF Kept
    <2>3. lamports'[x] >= RentReserve + 0
      BY <1>2, <1>3, <1>7, <2>2
    <2> QED BY <1>4, <1>5, <2>1, <2>3
  <1> QED BY <1>6, <1>7

\* An account whose data do not change and that loses no lamports.
LEMMA Untouched ==
    ASSUME TokenTypeOK, TokenTypeOK', NativeInv, NEW x \in Accounts,
           account'[x] = account[x], lamports'[x] >= lamports[x]
    PROVE  account'[x].state = "Uninitialized" \/ Kept(x)
  <1>1. lamports[x] \in Int /\ lamports'[x] \in Int /\ account[x].amount \in Int
    BY AmountAssumption DEF TokenTypeOK, Account
  <1> QED BY <1>1 DEF Kept, is_initialized, NativeInv, is_frozen

\* A step that changes the data of one account only.
LEMMA NativeOne ==
    ASSUME TokenTypeOK, TokenTypeOK', NativeInv, NEW a \in Accounts,
           account'[a].state = "Uninitialized" \/ Kept(a),
           \A x \in Accounts \ {a} : account'[x] = account[x] /\ lamports'[x] >= lamports[x]
    PROVE  NativeInv'
  <1>1. \A x \in Accounts \ {a} : account'[x].state = "Uninitialized" \/ Kept(x)
    BY Untouched
  <1>2. \A x \in Accounts : account'[x].state = "Uninitialized" \/ Kept(x)
    BY <1>1
  <1> QED BY <1>2, NativeFrame

\* A step that leaves all token accounts alone.
LEMMA NativeNone ==
    ASSUME TokenTypeOK, TokenTypeOK', NativeInv, account' = account, lamports' = lamports
    PROVE  NativeInv'
  BY DEF NativeInv, NativeBacked, is_initialized, is_frozen

\* A step that changes neither a balance nor the mint of the one account it writes.
LEMMA NativeField ==
    ASSUME TokenTypeOK, TokenTypeOK', NativeInv, NEW a \in Accounts,
           is_initialized(a), lamports' = lamports,
           account'[a].mint = account[a].mint, account'[a].is_native = account[a].is_native,
           account'[a].amount = account[a].amount \/ ~ account[a].is_native,
           account'[a].state = "Frozen" => ~ account[a].is_native,
           \A x \in Accounts \ {a} : account'[x] = account[x]
    PROVE  NativeInv'
  <1>1. \A x \in Accounts : lamports[x] \in Int /\ account[x].amount \in Int
    BY AmountAssumption DEF TokenTypeOK, Account
  <1>2. Kept(a)
    BY <1>1 DEF Kept
  <1> QED BY <1>1, <1>2, NativeOne

\* Instructions nobody has to sign.
LEMMA NativeUnsigned == ASSUME TokenTypeOK, TokenTypeOK', NativeInv, Unsigned PROVE NativeInv'
  <1>0. /\ RentReserve \in Nat
        /\ \A x \in Accounts : lamports[x] \in Nat /\ account[x].amount \in Nat
    BY AmountAssumption DEF TokenTypeOK, Account
  <1>1. ASSUME NEW m \in Mints, NEW k \in Owners, NEW f \in MaybeKeys, InitializeMint(m, k, f)
        PROVE  NativeInv'
    BY <1>1, NativeNone DEF InitializeMint
  <1>2. ASSUME NEW a \in Accounts, NEW m \in Mints \cup {NativeMint}, NEW k \in Owners,
               InitializeAccount(a, m, k)
        PROVE  NativeInv'
    <2>1. /\ account'[a].state = "Initialized"
          /\ account'[a].mint = m
          /\ account'[a].is_native = (m = NativeMint)
          /\ account'[a].amount = IF m = NativeMint THEN lamports[a] - RentReserve ELSE 0
      BY <1>2 DEF InitializeAccount, TokenTypeOK, EmptyAccount
    <2>2. lamports' = lamports /\ lamports[a] >= RentReserve
      BY <1>2 DEF InitializeAccount
    <2>3. \A x \in Accounts \ {a} : account'[x] = account[x]
      BY <1>2 DEF InitializeAccount, TokenTypeOK
    <2>4. account'[a].is_native <=> m = NativeMint
      BY <2>1, Zenon
    <2>5. lamports'[a] >= RentReserve + IF account'[a].is_native THEN account'[a].amount ELSE 0
      <3>1. CASE m = NativeMint
        BY <1>0, <2>1, <2>2, <2>4, <3>1
      <3>2. CASE m # NativeMint
        BY <1>0, <2>1, <2>2, <2>4, <3>2
      <3> QED BY <3>1, <3>2
    <2> QED BY <2>1, <2>2, <2>3, <2>4, <2>5 DEF NativeInv, NativeBacked, is_initialized, is_frozen
  <1>3. ASSUME NEW k \in Multisigs, NEW n \in 1 .. MaxSigners, NEW s \in MultisigSigners,
               InitializeMultisig(k, n, s)
        PROVE  NativeInv'
    BY <1>3, NativeNone DEF InitializeMultisig
  <1>4. ASSUME NEW a \in Accounts, SyncNative(a)
        PROVE  NativeInv'
    <2>1. /\ account'[a].state = account[a].state
          /\ account'[a].mint = account[a].mint
          /\ account'[a].is_native = account[a].is_native
          /\ account'[a].amount = lamports[a] - RentReserve
          /\ lamports' = lamports
          /\ \A x \in Accounts \ {a} : account'[x] = account[x]
      BY <1>4, ZenonT(60) DEF SyncNative, TokenTypeOK, Account
    <2>2. is_initialized(a) /\ account[a].is_native
      BY <1>4 DEF SyncNative
    <2>3. lamports'[a] >= RentReserve + account'[a].amount
      BY <1>0, <2>1
    <2>4. /\ account'[a].is_native /\ account'[a].mint = NativeMint
          /\ account'[a].state # "Frozen"
      BY <2>1, <2>2, Zenon DEF NativeInv, NativeBacked, is_frozen
    <2> QED BY <2>1, <2>3, <2>4 DEF NativeInv, NativeBacked, is_initialized, is_frozen
  <1>5. ASSUME NEW a \in Accounts, NEW n \in Amounts, SendLamports(a, n)
        PROVE  NativeInv'
    <2>1. account' = account /\ n \in Nat
      BY <1>5, AmountAssumption DEF SendLamports
    <2>2. \A x \in Accounts : lamports'[x] >= lamports[x]
      BY <1>0, <1>5, <2>1 DEF SendLamports, TokenTypeOK
    <2>3. \A x \in Accounts : account'[x].state = "Uninitialized" \/ Kept(x)
      BY <2>1, <2>2, Untouched
    <2> QED BY <2>3, NativeFrame
  <1> QED BY <1>1, <1>2, <1>3, <1>4, <1>5 DEF Unsigned

\* Instructions the authorities of a mint sign.
LEMMA NativeMintNext ==
    ASSUME TokenTypeOK, TokenTypeOK', NativeInv, NEW S, MintNext(S)
    PROVE  NativeInv'
  <1>1. ASSUME NEW m \in Mints, NEW k \in MaybeKeys,
               SetMintAuthority(m, k, S) \/ SetFreezeAuthority(m, k, S)
        PROVE  NativeInv'
    BY <1>1, NativeNone DEF SetMintAuthority, SetFreezeAuthority
  <1>2. ASSUME NEW m \in Mints, NEW a \in Accounts, NEW n \in Amounts, MintTo(m, a, n, S)
        PROVE  NativeInv'
    <2>1. /\ is_initialized(a) /\ ~ account[a].is_native /\ lamports' = lamports
          /\ account[a].state = "Initialized"
      BY <1>2 DEF MintTo, is_initialized
    <2>2. /\ account'[a].mint = account[a].mint
          /\ account'[a].is_native = account[a].is_native
          /\ \A x \in Accounts \ {a} : account'[x] = account[x]
      BY <1>2 DEF MintTo, TokenTypeOK, Account
    <2> QED BY <2>1, <2>2, NativeField
  <1> QED BY <1>1, <1>2 DEF MintNext

\* A transfer takes the lamports along.
LEMMA NativeTransfer ==
    ASSUME TokenTypeOK, TokenTypeOK', NativeInv, NEW a \in Accounts, NEW b \in Accounts,
           NEW n \in Amounts, NEW k \in Owners, NEW S, Transfer(a, b, n, k, S)
    PROVE  NativeInv'
  <1>1. CASE a = b
    BY <1>1, NativeNone DEF Transfer
  <1>2. CASE a # b
    <2>1. /\ is_initialized(a) /\ is_initialized(b)
          /\ account[a].mint = account[b].mint
          /\ account[a].state = "Initialized" /\ account[b].state = "Initialized"
      BY DEF Transfer, CanTransfer, is_initialized
    <2>2. account[a].is_native <=> account[b].is_native
      BY <2>1, Zenon DEF NativeInv, NativeBacked
    <2>3. /\ Spent(a, n, k).amount = account[a].amount - n
          /\ Spent(a, n, k).state = account[a].state
          /\ Spent(a, n, k).mint = account[a].mint
          /\ Spent(a, n, k).is_native = account[a].is_native
      BY SpentType DEF Transfer, CanTransfer
    <2>4. /\ account'[a] = Spent(a, n, k)
          /\ account'[b] = [account[b] EXCEPT !.amount = account[b].amount + n]
          /\ \A x \in Accounts \ {a, b} : account'[x] = account[x]
      BY <1>2 DEF Transfer, TokenTypeOK
    <2>5. /\ account'[b].amount = account[b].amount + n
          /\ account'[b].state = account[b].state
          /\ account'[b].mint = account[b].mint
          /\ account'[b].is_native = account[b].is_native
      BY <2>4 DEF TokenTypeOK, Account
    <2>6. /\ n \in Nat
          /\ \A x \in Accounts : lamports[x] \in Nat /\ account[x].amount \in Nat
      BY AmountAssumption DEF TokenTypeOK, Account
    <2>7. /\ account[a].is_native =>
                /\ lamports'[a] = lamports[a] - n /\ lamports'[b] = lamports[b] + n
                /\ \A x \in Accounts \ {a, b} : lamports'[x] = lamports[x]
          /\ ~ account[a].is_native => lamports' = lamports
      <3>1. CASE account[a].is_native
        <4>1. lamports' = [lamports EXCEPT ![a] = lamports[a] - n, ![b] = lamports[b] + n]
          BY <1>2, <3>1 DEF Transfer
        <4> QED BY <1>2, <3>1, <4>1 DEF TokenTypeOK
      <3>2. CASE ~ account[a].is_native
        BY <1>2, <3>2 DEF Transfer
      <3> QED BY <3>1, <3>2
    <2>8. Kept(a)
      BY <2>1, <2>3, <2>4, <2>6, <2>7 DEF Kept
    <2>9. Kept(b)
      BY <2>1, <2>2, <2>5, <2>6, <2>7 DEF Kept
    <2>10. \A x \in Accounts \ {a, b} : account'[x].state = "Uninitialized" \/ Kept(x)
      <3> TAKE x \in Accounts \ {a, b}
      <3>1. account'[x] = account[x] /\ lamports'[x] >= lamports[x]
        BY <2>4, <2>6, <2>7
      <3> QED BY <3>1, Untouched
    <2>11. \A x \in Accounts : account'[x].state = "Uninitialized" \/ Kept(x)
      BY <2>8, <2>9, <2>10
    <2> QED BY <2>11, NativeFrame
  <1> QED BY <1>1, <1>2

\* Burning is not for native accounts.
LEMMA NativeBurn ==
    ASSUME TokenTypeOK, TokenTypeOK', NativeInv, NEW a \in Accounts, NEW n \in Amounts,
           NEW k \in Owners, NEW S, Burn(a, n, k, S)
    PROVE  NativeInv'
  <1>1. /\ is_initialized(a) /\ ~ account[a].is_native /\ lamports' = lamports
        /\ account[a].amount >= n
    BY DEF Burn, is_initialized
  <1>2. /\ account'[a].mint = account[a].mint
        /\ account'[a].is_native = account[a].is_native
        /\ \A x \in Accounts \ {a} : account'[x] = account[x]
    <2>1. CASE is_owned_by_system_program_or_incinerator(a)
      BY <2>1 DEF Burn, TokenTypeOK, Account
    <2>2. CASE ~ is_owned_by_system_program_or_incinerator(a)
      <3>1. account' = [account EXCEPT ![a] = Spent(a, n, k)] /\ CanSpend(a, n, k, S)
        BY <2>2 DEF Burn
      <3>2. /\ Spent(a, n, k).mint = account[a].mint
            /\ Spent(a, n, k).is_native = account[a].is_native
        BY <1>1, <3>1, SpentType
      <3> QED BY <3>1, <3>2 DEF TokenTypeOK
    <2> QED BY <2>1, <2>2
  <1> QED BY <1>1, <1>2, NativeField

\* A step that changes no account but a, and of a neither the balance nor the mint.
OnlyAuthorities(a) ==
    /\ account'[a].mint = account[a].mint
    /\ account'[a].is_native = account[a].is_native
    /\ account'[a].amount = account[a].amount
    /\ account'[a].state = account[a].state
    /\ \A x \in Accounts \ {a} : account'[x] = account[x]

\* Instructions on an account.
LEMMA NativeAccountNext ==
    ASSUME TokenTypeOK, TokenTypeOK', NativeInv, NEW S, AccountNext(S)
    PROVE  NativeInv'
  <1>1. ASSUME NEW a \in Accounts,
               \/ \E k \in Owners, n \in Amounts : Approve(a, k, n, S)
               \/ Revoke(a, S)
               \/ \E k \in Owners : SetAccountOwner(a, k, S)
               \/ \E k \in MaybeKeys : SetCloseAuthority(a, k, S)
        PROVE  NativeInv'
    <2>1. is_initialized(a) /\ account[a].state = "Initialized" /\ lamports' = lamports
      BY <1>1 DEF Approve, Revoke, SetAccountOwner, SetCloseAuthority, is_initialized
    <2>2. OnlyAuthorities(a)
      <3>1. ASSUME NEW k \in Owners, NEW n \in Amounts, Approve(a, k, n, S)
            PROVE  OnlyAuthorities(a)
        BY <3>1 DEF Approve, OnlyAuthorities, TokenTypeOK, Account
      <3>2. CASE Revoke(a, S)
        BY <3>2 DEF Revoke, OnlyAuthorities, TokenTypeOK, Account
      <3>3. ASSUME NEW k \in Owners, SetAccountOwner(a, k, S)
            PROVE  OnlyAuthorities(a)
        BY <3>3 DEF SetAccountOwner, OnlyAuthorities, TokenTypeOK, Account
      <3>4. ASSUME NEW k \in MaybeKeys, SetCloseAuthority(a, k, S)
            PROVE  OnlyAuthorities(a)
        BY <3>4 DEF SetCloseAuthority, OnlyAuthorities, TokenTypeOK, Account
      <3> QED BY <1>1, <3>1, <3>2, <3>3, <3>4
    <2> QED BY <2>1, <2>2, NativeField DEF OnlyAuthorities
  <1>2. ASSUME NEW a \in Accounts, NEW d \in Accounts \cup DeadKeys \cup Keys,
               CloseAccount(a, d, S)
        PROVE  NativeInv'
    <2>1. /\ account'[a].state = "Uninitialized"
          /\ \A x \in Accounts \ {a} : account'[x] = account[x]
      BY <1>2 DEF CloseAccount, TokenTypeOK, EmptyAccount
    <2>2. \A x \in Accounts : lamports[x] \in Nat
      BY DEF TokenTypeOK
    <2>3. \A x \in Accounts \ {a} : lamports'[x] >= lamports[x]
      <3>1. CASE d \in Accounts
        <4>1. lamports' = [lamports EXCEPT ![a] = 0, ![d] = lamports[d] + lamports[a]]
          BY <1>2, <3>1 DEF CloseAccount
        <4> QED BY <2>2, <4>1 DEF TokenTypeOK
      <3>2. CASE d \notin Accounts
        <4>1. lamports' = [lamports EXCEPT ![a] = 0]
          BY <1>2, <3>2 DEF CloseAccount
        <4> QED BY <2>2, <4>1 DEF TokenTypeOK
      <3> QED BY <3>1, <3>2
    <2> QED BY <2>1, <2>3, NativeOne
  <1>3. ASSUME NEW a \in Accounts, NEW f \in BOOLEAN, process_toggle_freeze_account(a, f, S)
        PROVE  NativeInv'
    <2>1. is_initialized(a) /\ ~ account[a].is_native /\ lamports' = lamports
      BY <1>3 DEF process_toggle_freeze_account, is_initialized
    <2>2. /\ account'[a].mint = account[a].mint
          /\ account'[a].is_native = account[a].is_native
          /\ \A x \in Accounts \ {a} : account'[x] = account[x]
      BY <1>3 DEF process_toggle_freeze_account, TokenTypeOK, Account
    <2> QED BY <2>1, <2>2, NativeField
  <1> QED BY <1>1, <1>2, <1>3, NativeTransfer, NativeBurn DEF AccountNext

\* The inductive step for wrapped lamports.
LEMMA NativeNext ==
    ASSUME TokenTypeOK, TokenTypeOK', NativeInv, [Next]_vars
    PROVE  NativeInv'
  <1>1. CASE UNCHANGED vars
    BY <1>1, NativeNone DEF vars
  <1> QED BY <1>1, NativeUnsigned, NativeMintNext, NativeAccountNext DEF Next

\* NativeInv holds throughout.
LEMMA NativeInvariant == Spec => []NativeInv
  <1>1. Init => NativeInv
    BY DEF Init, NativeInv, NativeBacked, is_initialized, is_frozen, EmptyAccount
  <1> QED BY <1>1, NativeNext, TokenTypeCorrect, PTL DEF Spec

\* Every wrapped account can pay out all of its tokens and still holds its rent
\* reserve, for any accounts, rent and amounts: transfers, syncs, closings and
\* lamports from outside keep the two books of an account together.
THEOREM NativeCorrect == Spec => []NativeBacked
  BY NativeInvariant, PTL DEF NativeInv

-------------------------------------------------------------------------------
(***************************************************************************)
(* Action properties.                                                      *)
(***************************************************************************)
FixedSupplyStep ==
    \A m \in Mints : mint[m].is_initialized /\ mint[m].mint_authority = NoKey =>
        mint'[m].mint_authority = NoKey /\ mint'[m].supply <= mint[m].supply

\* Of the instructions on accounts only Burn writes a mint.
LEMMA OnlyBurnChangesMint ==
    ASSUME NEW S, AccountNext(S)
    PROVE  mint' = mint \/ \E a \in Accounts, n \in Amounts, k \in Owners : Burn(a, n, k, S)
  <1>1. ASSUME NEW a, NEW b, NEW n, NEW k, Transfer(a, b, n, k, S)
        PROVE  mint' = mint
    BY <1>1 DEF Transfer
  <1>2. ASSUME NEW a, NEW k, NEW n,
               \/ Approve(a, k, n, S) \/ Revoke(a, S) \/ SetAccountOwner(a, k, S)
               \/ SetCloseAuthority(a, k, S) \/ process_toggle_freeze_account(a, k, S)
        PROVE  mint' = mint
    BY <1>2 DEF Approve, Revoke, SetAccountOwner, SetCloseAuthority, process_toggle_freeze_account
  <1>3. ASSUME NEW a, NEW d, CloseAccount(a, d, S)
        PROVE  mint' = mint
    BY <1>3 DEF CloseAccount
  <1> QED BY <1>1, <1>2, <1>3, Zenon DEF AccountNext

\* No step gives a mint without an authority a new one or more supply.
LEMMA FixedSupplyNext == ASSUME TokenTypeOK, [Next]_vars PROVE FixedSupplyStep
  <1> SUFFICES ASSUME NEW m \in Mints, mint[m].is_initialized, mint[m].mint_authority = NoKey
               PROVE  mint'[m].mint_authority = NoKey /\ mint'[m].supply <= mint[m].supply
    BY DEF FixedSupplyStep
  <1>1. mint \in [Mints -> Mint] /\ mint[m].supply \in Nat
    BY AmountAssumption DEF TokenTypeOK, Mint
  <1>2. CASE mint' = mint
    BY <1>1, <1>2
  <1>3. CASE Unsigned
    <2>1. ASSUME NEW m2 \in Mints, NEW k \in Owners, NEW f \in MaybeKeys, InitializeMint(m2, k, f)
          PROVE  mint'[m] = mint[m]
      BY <1>1, <2>1 DEF InitializeMint
    <2>2. mint' = mint \/ \E m2 \in Mints, k \in Owners, f \in MaybeKeys : InitializeMint(m2, k, f)
      BY <1>3 DEF Unsigned, InitializeAccount, InitializeMultisig, SyncNative, SendLamports
    <2>3. mint'[m] = mint[m]
      BY <2>1, <2>2
    <2> QED BY <1>1, <2>3
  <1>4. ASSUME NEW S, MintNext(S)
        PROVE  mint'[m].mint_authority = NoKey /\ mint'[m].supply <= mint[m].supply
    <2>1. ASSUME NEW m2 \in Mints, NEW k \in MaybeKeys, SetMintAuthority(m2, k, S)
          PROVE  mint'[m] = mint[m]
      BY <1>1, <2>1 DEF SetMintAuthority
    <2>2. ASSUME NEW m2 \in Mints, NEW k \in MaybeKeys, SetFreezeAuthority(m2, k, S)
          PROVE  mint'[m].mint_authority = mint[m].mint_authority /\ mint'[m].supply = mint[m].supply
      BY <1>1, <2>2 DEF SetFreezeAuthority, Mint
    <2>3. ASSUME NEW m2 \in Mints, NEW a \in Accounts, NEW n \in Amounts, MintTo(m2, a, n, S)
          PROVE  mint'[m] = mint[m]
      BY <1>1, <2>3 DEF MintTo
    <2> QED BY <1>1, <1>4, <2>1, <2>2, <2>3 DEF MintNext
  <1>5. ASSUME NEW S, AccountNext(S)
        PROVE  mint'[m].mint_authority = NoKey /\ mint'[m].supply <= mint[m].supply
    <2>1. ASSUME NEW a \in Accounts, NEW n \in Amounts, NEW k \in Owners, Burn(a, n, k, S)
          PROVE  mint'[m].mint_authority = NoKey /\ mint'[m].supply <= mint[m].supply
      <3>1. mint' = [mint EXCEPT ![account[a].mint].supply = mint[account[a].mint].supply - n]
        BY <2>1 DEF Burn
      <3>2. n \in Nat
        BY AmountAssumption
      <3>3. \/ mint'[m] = mint[m]
            \/ mint'[m] = [mint[m] EXCEPT !.supply = mint[m].supply - n]
        BY <1>1, <3>1
      <3> QED BY <1>1, <3>2, <3>3 DEF Mint
    <2>2. mint' = mint \/ \E a \in Accounts, n \in Amounts, k \in Owners : Burn(a, n, k, S)
      BY <1>5, OnlyBurnChangesMint
    <2> QED BY <1>2, <2>1, <2>2
  <1> QED BY <1>2, <1>3, <1>4, <1>5 DEF Next, vars

\* The promise behind TokenError::FixedSupply, for any mints and amounts: giving
\* up the mint authority is for ever, and the supply can only shrink afterwards.
THEOREM FixedSupplyCorrect == Spec => FixedSupplyStays
  <1>1. TokenTypeOK /\ [Next]_vars => [FixedSupplyStep]_vars
    BY FixedSupplyNext
  <1>2. FixedSupplyStays <=> [][FixedSupplyStep]_vars
    BY DEF FixedSupplyStays, FixedSupplyStep
  <1> QED BY <1>1, <1>2, TokenTypeCorrect, PTL DEF Spec

FrozenStep ==
    \A a \in Accounts : is_frozen(a) =>
        \/ account'[a] = [account[a] EXCEPT !.state = account'[a].state]
        \/ account[a].amount = 0 /\ account'[a] = EmptyAccount

\* No step writes a frozen account, except to thaw it or to close it empty.
LEMMA FrozenNext == ASSUME TokenTypeOK, NativeInv, [Next]_vars PROVE FrozenStep
  <1> SUFFICES ASSUME NEW x \in Accounts, is_frozen(x)
               PROVE  \/ account'[x] = [account[x] EXCEPT !.state = account'[x].state]
                      \/ account[x].amount = 0 /\ account'[x] = EmptyAccount
    BY DEF FrozenStep
  <1> DEFINE Goal == \/ account'[x] = [account[x] EXCEPT !.state = account'[x].state]
                     \/ account[x].amount = 0 /\ account'[x] = EmptyAccount
  <1>1. /\ account \in [Accounts -> Account]
        /\ account[x].state = "Frozen" /\ ~ account[x].is_native
    BY DEF TokenTypeOK, NativeInv, is_frozen
  <1>2. ASSUME account'[x] = account[x]
        PROVE  Goal
    BY <1>1, <1>2 DEF Account
  <1>3. CASE Unsigned
    <2>1. ASSUME NEW a \in Accounts, NEW m, NEW k, InitializeAccount(a, m, k)
          PROVE  account'[x] = account[x]
      BY <1>1, <2>1 DEF InitializeAccount, is_initialized
    <2>2. ASSUME NEW a \in Accounts, SyncNative(a)
          PROVE  account'[x] = account[x]
      BY <1>1, <2>2 DEF SyncNative
    <2>3. \/ account' = account
          \/ \E a \in Accounts, m \in Mints \cup {NativeMint}, k \in Owners : InitializeAccount(a, m, k)
          \/ \E a \in Accounts : SyncNative(a)
      BY <1>3, Zenon DEF Unsigned, InitializeMint, InitializeMultisig, SendLamports
    <2> QED BY <1>2, <2>1, <2>2, <2>3
  <1>4. ASSUME NEW S, MintNext(S)
        PROVE  Goal
    <2>1. ASSUME NEW m, NEW a \in Accounts, NEW n, MintTo(m, a, n, S)
          PROVE  account'[x] = account[x]
      BY <1>1, <2>1 DEF MintTo
    <2>2. \/ account' = account
          \/ \E m \in Mints, a \in Accounts, n \in Amounts : MintTo(m, a, n, S)
      BY <1>4, Zenon DEF MintNext, SetMintAuthority, SetFreezeAuthority
    <2> QED BY <1>2, <2>1, <2>2
  <1>5. ASSUME NEW S, AccountNext(S)
        PROVE  Goal
    <2>1. ASSUME NEW a \in Accounts, NEW b \in Accounts, NEW n, NEW k, Transfer(a, b, n, k, S)
          PROVE  account'[x] = account[x]
      <3>1. a # x /\ b # x
        BY <1>1, <2>1 DEF Transfer, CanTransfer
      <3>2. \/ account' = account
            \/ account' = [account EXCEPT ![a] = Spent(a, n, k), ![b].amount = account[b].amount + n]
        BY <2>1 DEF Transfer
      <3> QED BY <1>1, <3>1, <3>2
    <2>2. ASSUME NEW a \in Accounts, NEW k, NEW n,
                 \/ Approve(a, k, n, S) \/ Revoke(a, S) \/ SetAccountOwner(a, k, S)
                 \/ SetCloseAuthority(a, k, S)
          PROVE  account'[x] = account[x]
      BY <1>1, <2>2 DEF Approve, Revoke, SetAccountOwner, SetCloseAuthority
    <2>3. ASSUME NEW a \in Accounts, NEW n, NEW k, Burn(a, n, k, S)
          PROVE  account'[x] = account[x]
      <3>1. a # x
        BY <1>1, <2>3 DEF Burn
      <3>2. \/ account' = [account EXCEPT ![a].amount = account[a].amount - n]
            \/ account' = [account EXCEPT ![a] = Spent(a, n, k)]
        BY <2>3 DEF Burn
      <3> QED BY <1>1, <3>1, <3>2
    <2>4. ASSUME NEW a \in Accounts, NEW d, CloseAccount(a, d, S)
          PROVE  Goal
      <3>1. account' = [account EXCEPT ![a] = EmptyAccount]
        BY <2>4 DEF CloseAccount
      <3>2. CASE a = x
        <4>1. account[x].amount = 0
          BY <1>1, <2>4, <3>2 DEF CloseAccount
        <4> QED BY <1>1, <3>1, <3>2, <4>1
      <3>3. CASE a # x
        BY <1>1, <1>2, <3>1, <3>3
      <3> QED BY <3>2, <3>3
    <2>5. ASSUME NEW a \in Accounts, NEW f \in BOOLEAN, process_toggle_freeze_account(a, f, S)
          PROVE  Goal
      <3>1. PICK state \in {"Frozen", "Initialized"} : account' = [account EXCEPT ![a].state = state]
        BY <2>5 DEF process_toggle_freeze_account
      <3> QED BY <1>1, <3>1 DEF Account
    <2> HIDE DEF Goal
    <2> QED BY <1>2, <1>5, <2>1, <2>2, <2>3, <2>4, <2>5, Zenon DEF AccountNext
  <1>6. CASE UNCHANGED vars
    BY <1>2, <1>6 DEF vars
  <1> QED BY <1>3, <1>4, <1>5, <1>6 DEF Next

\* Freezing works, for any accounts and amounts: a frozen account keeps its
\* tokens, its owner, its delegate and its allowance until the freeze authority
\* thaws it, and can only be closed when it is empty.
THEOREM FrozenCorrect == Spec => FrozenIsStill
  <1>1. TokenTypeOK /\ NativeInv /\ [Next]_vars => [FrozenStep]_vars
    BY FrozenNext
  <1>2. FrozenIsStill <=> [][FrozenStep]_vars
    BY DEF FrozenIsStill, FrozenStep
  <1> QED BY <1>1, <1>2, TokenTypeCorrect, NativeInvariant, PTL DEF Spec

LockedStep ==
    \A a \in Accounts : Locked(a) => Locked(a)' /\ account'[a].amount >= account[a].amount

\* What keeps an account locked: the same owner, an untouched multisignature and no
\* new delegate or close authority.
LEMMA LockedFrame ==
    ASSUME NEW x \in Accounts, Locked(x), account'[x].state # "Uninitialized",
           account'[x].owner = account[x].owner,
           account'[x].delegate = account[x].delegate,
           account'[x].close_authority = account[x].close_authority,
           multisig'[account[x].owner] = multisig[account[x].owner]
    PROVE  Locked(x)'
  <1>1. \A S \in SUBSET Keys : validate_owner(account[x].owner, S) <=> validate_owner(account[x].owner, S)'
    BY DEF Locked, validate_owner
  <1> QED BY <1>1 DEF Locked, CanAct, validate_owner, is_initialized

\* No step unlocks an account or takes from it.
LEMMA LockedNext == ASSUME TokenTypeOK, [Next]_vars PROVE LockedStep
  <1> SUFFICES ASSUME NEW x \in Accounts, Locked(x)
               PROVE  Locked(x)' /\ account'[x].amount >= account[x].amount
    BY DEF LockedStep
  <1> DEFINE Goal == Locked(x)' /\ account'[x].amount >= account[x].amount
             o == account[x].owner
  <1>1. /\ account \in [Accounts -> Account] /\ multisig \in [Multisigs -> Multisig]
        /\ account[x].amount \in Nat /\ Amounts \subseteq Nat
    BY AmountAssumption DEF TokenTypeOK, Account
  <1>2. /\ o \in Multisigs /\ multisig[o].is_initialized /\ o \notin DeadKeys
        /\ account[x].state # "Uninitialized"
        /\ account[x].delegate = NoKey /\ account[x].close_authority = NoKey
    BY KeyAssumption DEF Locked, is_initialized
  <1>3. \A S \in SUBSET Keys : ~ validate_owner(o, S) /\ ~ validate_owner(CloseAuthority(x), S)
    BY <1>2 DEF Locked, CanAct, CloseAuthority
  <1>4. ASSUME account'[x] = account[x], multisig' = multisig
        PROVE  Goal
    BY <1>1, <1>2, <1>4, LockedFrame
  <1>5. ASSUME NEW n \in Nat, n >= account[x].amount, multisig' = multisig,
               account'[x] = [account[x] EXCEPT !.amount = n]
        PROVE  Goal
    <2>1. /\ account'[x].amount = n /\ account'[x].state = account[x].state
          /\ account'[x].owner = o /\ account'[x].delegate = account[x].delegate
          /\ account'[x].close_authority = account[x].close_authority
      BY <1>1, <1>5 DEF Account
    <2> QED BY <1>2, <1>5, <2>1, LockedFrame
  <1> HIDE DEF Goal, o
  <1>6. CASE Unsigned
    <2>1. ASSUME NEW a \in Accounts, NEW m, NEW k, InitializeAccount(a, m, k)
          PROVE  Goal
      <3>1. account'[x] = account[x]
        BY <1>1, <1>2, <2>1 DEF InitializeAccount, is_initialized
      <3> QED BY <1>4, <2>1, <3>1 DEF InitializeAccount
    <2>2. ASSUME NEW a \in Accounts, SyncNative(a)
          PROVE  Goal
      <3>1. /\ account' = [account EXCEPT ![a].amount = lamports[a] - RentReserve]
            /\ lamports[a] - RentReserve >= account[a].amount /\ lamports[a] >= RentReserve
            /\ multisig' = multisig
        BY <2>2 DEF SyncNative
      <3>2. lamports[a] - RentReserve \in Nat
        BY <3>1, AmountAssumption DEF TokenTypeOK
      <3>3. CASE a = x
        BY <1>1, <1>5, <3>1, <3>2, <3>3
      <3>4. CASE a # x
        BY <1>1, <1>4, <3>1, <3>4
      <3> QED BY <3>3, <3>4
    <2>3. ASSUME NEW k \in Multisigs, NEW n, NEW s, InitializeMultisig(k, n, s)
          PROVE  Goal
      <3>1. account' = account /\ multisig'[o] = multisig[o]
        BY <1>1, <1>2, <2>3 DEF InitializeMultisig
      <3> QED BY <1>1, <1>2, <3>1, LockedFrame DEF Goal, o
    <2>4. ASSUME account' = account /\ multisig' = multisig
          PROVE  Goal
      BY <1>4, <2>4
    <2> QED BY <1>6, <2>1, <2>2, <2>3, <2>4, Zenon DEF Unsigned, InitializeMint, SendLamports, Goal
  <1>7. ASSUME NEW S \in SUBSET Keys, MintNext(S)
        PROVE  Goal
    <2>1. ASSUME NEW m, NEW a \in Accounts, NEW n \in Amounts, MintTo(m, a, n, S)
          PROVE  Goal
      <3>1. account' = [account EXCEPT ![a].amount = account[a].amount + n] /\ multisig' = multisig
        BY <2>1 DEF MintTo
      <3>2. CASE a = x
        <4>1. account[x].amount + n \in Nat /\ account[x].amount + n >= account[x].amount
          BY <1>1
        <4> QED BY <1>1, <1>5, <3>1, <3>2, <4>1
      <3>3. CASE a # x
        BY <1>1, <1>4, <3>1, <3>3
      <3> QED BY <3>2, <3>3
    <2>2. ASSUME account' = account /\ multisig' = multisig
          PROVE  Goal
      BY <1>4, <2>2
    <2> QED BY <1>7, <2>1, <2>2, Zenon DEF MintNext, SetMintAuthority, SetFreezeAuthority
  <1>8. ASSUME NEW S \in SUBSET Keys, AccountNext(S)
        PROVE  Goal
    <2>1. ASSUME NEW a \in Accounts, NEW b \in Accounts, NEW n \in Amounts, NEW k,
                 Transfer(a, b, n, k, S)
          PROVE  Goal
      <3>1. a # x
        BY <1>2, <1>3, <2>1 DEF Transfer, CanTransfer, CanSpend, AsDelegate, o
      <3>2. multisig' = multisig
        BY <2>1 DEF Transfer
      <3>3. \/ account' = account
            \/ account' = [account EXCEPT ![a] = Spent(a, n, k), ![b].amount = account[b].amount + n]
        BY <2>1 DEF Transfer
      <3>4. CASE account'[x] = account[x]
        BY <1>4, <3>2, <3>4
      <3>5. CASE b = x /\ account'[x] # account[x]
        <4>1. account[x].amount + n \in Nat /\ account[x].amount + n >= account[x].amount
          BY <1>1
        <4>2. account'[x] = [account[x] EXCEPT !.amount = account[x].amount + n]
          BY <1>1, <3>1, <3>3, <3>5
        <4> QED BY <1>5, <3>2, <4>1, <4>2
      <3> QED BY <1>1, <3>1, <3>3, <3>4, <3>5
    <2>2. ASSUME NEW a \in Accounts, NEW k, NEW n,
                 \/ Approve(a, k, n, S) \/ Revoke(a, S) \/ SetAccountOwner(a, k, S)
                 \/ SetCloseAuthority(a, k, S)
          PROVE  Goal
      <3>1. a # x
        BY <1>3, <2>2 DEF Approve, Revoke, SetAccountOwner, SetCloseAuthority, o
      <3>2. account'[x] = account[x] /\ multisig' = multisig
        BY <1>1, <2>2, <3>1 DEF Approve, Revoke, SetAccountOwner, SetCloseAuthority
      <3> QED BY <1>4, <3>2
    <2>3. ASSUME NEW a \in Accounts, NEW n, NEW k, Burn(a, n, k, S)
          PROVE  Goal
      <3>1. a # x
        BY <1>2, <1>3, <2>3 DEF Burn, CanSpend, AsDelegate, is_owned_by_system_program_or_incinerator, o
      <3>2. \/ account' = [account EXCEPT ![a].amount = account[a].amount - n]
            \/ account' = [account EXCEPT ![a] = Spent(a, n, k)]
        BY <2>3 DEF Burn
      <3>3. account'[x] = account[x] /\ multisig' = multisig
        BY <1>1, <2>3, <3>1, <3>2 DEF Burn
      <3> QED BY <1>4, <3>3
    <2>4. ASSUME NEW a \in Accounts, NEW d, CloseAccount(a, d, S)
          PROVE  Goal
      <3>1. a # x
        BY <1>2, <1>3, <2>4 DEF CloseAccount, is_owned_by_system_program_or_incinerator, o
      <3>2. account'[x] = account[x] /\ multisig' = multisig
        BY <1>1, <2>4, <3>1 DEF CloseAccount
      <3> QED BY <1>4, <3>2
    <2>5. ASSUME NEW a \in Accounts, NEW f \in BOOLEAN, process_toggle_freeze_account(a, f, S)
          PROVE  Goal
      <3>1. PICK state \in {"Frozen", "Initialized"} : account' = [account EXCEPT ![a].state = state]
        BY <2>5 DEF process_toggle_freeze_account
      <3>2. /\ account'[x].state # "Uninitialized" /\ account'[x].amount = account[x].amount
            /\ account'[x].owner = account[x].owner /\ account'[x].delegate = account[x].delegate
            /\ account'[x].close_authority = account[x].close_authority
        BY <1>1, <1>2, <3>1 DEF Account
      <3>3. multisig' = multisig
        BY <2>5 DEF process_toggle_freeze_account
      <3> QED BY <1>1, <3>2, <3>3, LockedFrame DEF Goal
    <2> QED BY <1>8, <2>1, <2>2, <2>3, <2>4, <2>5, Zenon DEF AccountNext
  <1>9. CASE UNCHANGED vars
    BY <1>4, <1>9 DEF vars, Goal
  <1> QED BY <1>6, <1>7, <1>8, <1>9 DEF Next, Goal

\* An account whose multisignature can never be satisfied is out of everybody's
\* reach for ever, for any keys and accounts: the multisignature cannot be
\* replaced, and tokens can only come in.
THEOREM LockedCorrect == Spec => LockedStays
  <1>1. TokenTypeOK /\ [Next]_vars => [LockedStep]_vars
    BY LockedNext
  <1>2. LockedStays <=> [][LockedStep]_vars
    BY DEF LockedStays, LockedStep
  <1> QED BY <1>1, <1>2, TokenTypeCorrect, PTL DEF Spec
===============================================================================
