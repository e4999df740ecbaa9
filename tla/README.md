# Verification of the Solana Program Library

TLA+ specifications of the on-chain programs of this repository, TLC
configurations that check them on small instances, and theorems that TLAPS
checks for every value of the constants. The repository holds many independent
programs. Two are specified so far: **governance**, the one with the longest-lived
state and the most actors, and **token**, on which all the others rest. The plan
below says how the rest follows.

## 1. The system

### How programs run

A program is a set of instruction handlers over accounts. The runtime executes
the instructions that touch an account one after the other, and an instruction
that returns an error (or panics in a `checked_*().unwrap()`) leaves no trace.
So one action is one instruction, every early return is a guard, and the hazards
are not torn writes but *orders of instructions*: several signers who do not
coordinate, the passing of time, configuration read at another time than it was
written, counters kept beside the accounts they count, and one account passed
twice to one instruction.

### Inventory

| Part | State | Operations | What makes it hard | What must hold |
|---|---|---|---|---|
| governance: realm | `RealmV2`, `RealmConfigAccount` | CreateRealm, SetRealmConfig, SetRealmAuthority | configuration changes under running votes, removal of the council | only the authority changes it; counters of proposals in voting |
| governance: governance accounts | `GovernanceV2` | Create{,Mint,Program,Token}Governance, SetGovernanceConfig | the configuration of a running vote is changed by another proposal | proposals are numbered without gaps |
| governance: token owner records | `TokenOwnerRecordV2`, holding token account | CreateTokenOwnerRecord, Deposit, Withdraw, SetGovernanceDelegate | counters that gate withdrawals; delegates act beside owners | counters equal the records they count; the holding account covers all deposits; tokens behind a live vote stay |
| governance: proposals | `ProposalV2`, `SignatoryRecordV2` | CreateProposal, AddSignatory, RemoveSignatory, SignOffProposal, CancelProposal | signatories sign in any order while others are added and removed | no vote without all signatures; the life cycle |
| governance: votes | `VoteRecordV2`, weights in the proposal | CastVote, RelinquishVote, FinalizeVote | early tipping, rounding, deadline races, voter = proposal owner, supply changes | the tally is the sum of the votes; the decision is the one the tally deserves; it is final |
| governance: transactions | `ProposalTransactionV2`, counters in the option | InsertTransaction, RemoveTransaction, ExecuteTransaction, FlagTransactionError | gaps in the index, hold-up times, errors and retries, executions that change the realm or the governance itself | what is executed was approved, once, after its hold-up time; Completed means all executed |
| governance: addins | weight records of external programs | read by CreateGovernance, CreateProposal, CastVote, FinalizeVote | any weight can be reported | the tally stays consistent |
| governance: treasury, metadata, V1 accounts, chat | one-shot accounts | CreateNativeTreasury, UpdateProgramMetadata, PostMessage | – | not modelled: no state machine |
| token | mints, accounts, multisigs | transfer, approve, mint, burn, freeze, close, authorities, native SOL | delegation and freezing, self-transfer, supply against balances | sum of balances = supply; frozen accounts do not move |
| token-2022 | token plus extensions | transfer fees, withheld amounts, close authority, confidential transfer | fees by epoch, withheld amounts against supply | conservation including withheld amounts |
| token-swap | swap pool | initialize, swap, deposit, withdraw, one-sided variants | rounding in favour of the pool, curves | the value of a pool token never falls |
| token-lending | market, reserves, obligations | refresh, deposit, borrow, repay, liquidate, flash loan | staleness by slot, flash loan re-entry, interest | liquidity accounting; nothing acts on stale data |
| stake-pool | pool, validator list | deposit, withdraw, add/remove validator, epoch updates | updates of the list in chunks across an epoch change, transient stakes | pool tokens against lamports |
| farms: vaults | vault, user info | add, lock, crank, unlock, remove liquidity | user balances across cranks | user balances add up to the vault's |
| associated-token-account, feature-proposal, name-service, record, binary-option, binary-oracle-pair | small accounts | a few instructions each | ordering against slots, authority hand-over, escrow against supply | escrow covers claims; decided once |
| memo, shared-memory, stateless-asks | none | one instruction | – | no state to model |
| clients, CLIs, JS and Python bindings, examples, docs, `ci` | off-chain | – | – | not modelled: they only build instructions |

`PROJECT.json` lists the same parts with their sources, and the hazards with the
line at which each one bites.

### Plan

1. **Governance core** (done): the voting arithmetic, the whole instruction set of
   realm, records, proposals, votes and transactions, the abstract life cycle, and
   the first theorems.
2. **Governance, further proofs**: `CompletedMeansExecuted`, `ExecutedOnlyIfWon`,
   `DecisionIsFinal`, and the life cycle refinement, for every value of the
   constants. Auxiliary invariants: `transactions_count` of an option is the number of its
   transaction accounts, and `transactions_executed_count` that of its
   executed ones.
3. **Token** (done): mints, accounts, delegates, freezing, multisignatures, wrapped
   lamports. Left: `SupplyIsBalances` proved, and `Token` as the environment of the
   following ones.
4. **Small programs**, one module each: binary-option, binary-oracle-pair,
   feature-proposal, record, name-service, associated-token-account.
5. **Token-swap** (curve arithmetic as operators with a reference definition, then the
   pool), **token-lending** (reserve, obligation, staleness, flash loan),
   **stake-pool** (epoch updates against deposits and withdrawals).
6. **Farms vaults** and **token-2022** transfer fees.

## 2. Modules

| Module | What it is |
|---|---|
| `ProposalVoting` | the arithmetic of a vote as pure operators: threshold, electorate, tipping, final results (`state/proposal.rs`) |
| `ProposalLifecycle` | the abstract specification: what a proposal promises, without votes, signatures, tokens or time |
| `Governance` | the program: one realm, its governances, records, proposals, votes, transactions; one action per instruction; the properties; the refinement mapping to `ProposalLifecycle` |
| `GovernanceLedger` | the properties that are sums over records and votes |
| `Totals` | the total of natural numbers over a finite set, as a number of units |
| `MCGovernance` | values for the constants |
| `ProposalVotingProofs` | theorems about the arithmetic |
| `GovernanceProofs` | type correctness |
| `GovernanceVoteProofs` | vote counters and deposits |
| `GovernanceProposalProofs` | outstanding proposals and signatures |
| `TotalsLemmas` | how a total changes with its summands |
| `GovernanceWeightProofs` | the weights of a vote are the sums of its vote records |
| `GovernanceElectorateProofs` | the electorate of a vote with one option covers its voters |
| `Token` | the token program: mints, accounts, multisignatures, lamports; one action per instruction; the properties |
| `TokenLedger` | the properties of `Token` that are sums |
| `MCToken` | values for the constants |
| `TokenProofs` | theorems about `Token` |

`Governance` keeps the names of the source: an assertion method is an operator of
the same name, an instruction an action of the same name, the fields of an account
the fields of a record. Where one handler has two branches with different signers
it is two actions: SignOffProposal is `OwnerSignsOff` and `SignatorySignsOff`,
RelinquishVote is `WithdrawVote` (the vote runs) and `ReleaseVote` (it is over).
`CreateGovernance` stands for its four variants. SetGovernanceConfig needs the
signature of the governance and so is only reached by executing a transaction:
it is a branch of `Invoke`, like the two realm instructions when the governance is the
realm authority.

State that is abstracted: account keys are the seeds they are derived from, so an
account exists at most once; account creation fails when it exists; names, links,
labels, rent and payers are left out. A vote that approves is the set of options it
gives 100 % to. The tokens of a mint outside the realm's holding account are one
pool, since their holders can move them between themselves freely. The clock is
`unix_timestamp`; `NoTime` is the `None` of a time. The fields `signing_off_at`,
`executing_at`, `closed_at`, `draft_at` and `voting_at_slot` are written and never
read by the program and are left out. Only a supply fraction is modelled as the source
of the maximal weight: `Absolute` is rejected by `assert_valid_realm_config_args`.
What the token program does to a governing mint (minting, burning, tokens sent to the
holding account without a deposit) are the external actions `MintTokens`, `BurnTokens` and
`SendToHolding`.

`Token` has one action per instruction, and one per authority type of SetAuthority. The
`Checked` variants compare decimals in addition, and the numbered variants of the
initializers read rent or owner from another place; they are the same actions.
`validate_owner` takes the set of keys that signed: which of them are passed in
what order makes no difference to the number of matched positions. The two keys nobody can sign for,
the system program and the incinerator, are `DeadKeys`. `RentReserve` is the rent-exempt
minimum of a token account, the same throughout a behaviour; mints and multisignatures
are taken to be rent exempt. Lamports of everything that is no token account are one
amount, `wallets`.

## 3. What the runs check

The runs of governance use `MCGovernance`, those of token `MCToken`. Sizes are distinct
states.

| Run | Question | Properties | States |
|---|---|---|---|
| voting | two owners, three tokens, every tipping mode, tokens sent to the holding account; votes end and are released | `VoteWeightsExact`, `NoTokenCountedTwice`, `HoldingCoversDeposits`, `DecisionMatchesTally`, `EveryVoteEnds`, `EveryVoteIsReleased` | 150 676 |
| execution | Yes/No, survey and multiple choice; two signatories, two slots per option: insertion, removal, hold-up, errors, execution in any order | `TypeOK`, `VotingNeedsAllSignatures`, `SigningOffAwaitsSignature`, `CompletedMeansExecuted`, `ExecutedOnlyIfWon`, `FollowsLifecycle`, `DecisionIsFinal` | 281 812 |
| config_change | one proposal lengthens the vote of another, changes the realm or gives its authority away | `VoteCountsExact`, `OutstandingCountExact`, `DepositsCoverVotes` | 271 818 |
| options | up to two options of every kind, a fraction of the supply as the electorate | `DecisionMatchesTally`, `YesNoElectorateCoversVotes` | 323 660 |
| realm | addins, supply fraction, council removal, authority, delegates, minting and burning until a vote is decided | `VoteWeightsExact`, `YesNoElectorateCoversVotes` | 161 680 |
| token_supply | two accounts of a mint, every instruction but those on lamports | `TokenTypeOK`, `SupplyIsBalances`, `FixedSupplyStays`, `FrozenIsStill` | 365 552 |
| token_native | two wrapped accounts, lamports from outside, a multisignature that lists a key twice or asks for too many signatures | `NativeBacked`, `LamportsConserved`, `LockedStays` | 167 576 |

The most telling ones:

* `DecisionMatchesTally` compares every decided proposal with `Wins`, a definition
  of winning that knows nothing of tipping, rounding or the order of evaluation.
* `NoTokenCountedTwice` says that the weight in a running vote is at most the supply
  although owners vote, release, withdraw, pass the tokens on and vote again. It is
  checked without configuration changes: lengthening a vote that was over re-opens
  it with released votes still counted, which the comment in
  `process_set_governance_config.rs:33-37` leaves to the DAO.
* `YesNoElectorateCoversVotes` compares the electorate a vote is decided with to the sum over
  all vote records, those released since included. It is about the two cases in which the code
  adjusts the electorate to the votes, an addin and a proper fraction of the supply, and about
  one option: options has two voters, realm one voter whose electorate moves (minting,
  burning, another fraction, another answer of the addin) between the vote and the
  decision. With several options it fails, which is the run electorate. With the full supply nothing is
  adjusted: tokens released after the voting time and burnt before FinalizeVote
  leave an electorate smaller than the weight cast.
* `SigningOffAwaitsSignature` says that removing signatories never takes away the one signature a
  proposal in SigningOff is waiting for.
* `FollowsLifecycle` is the refinement: what is executed is a transaction the vote
  approved, no transaction is executed twice, transactions are frozen
  with the first signature, and the last execution closes the proposal.
* `SupplyIsBalances` covers what a transfer of an account to itself, a delegate's transfer,
  a burn by anybody from a dead owner's account and the closing and re-use of
  an address do to the two books, the supply of the mint and the balances.
* `LockedStays` is about sequences: every instruction that could get around an owner who cannot
  sign (a delegate, a close authority, a new multisignature at the same
  address, burning) is tried from every state. The run has wrapped accounts only; minting,
  freezing and burning are covered by the theorem `LockedCorrect`.

Five runs are expected to be violated; each states a comment of the source that the
code does not keep:

| Run | Comment | What happens |
|---|---|---|
| voting_count | `governance.rs:81` "The number of proposals in voting state in the Governance" | every sign-off counts, also the first of two; cancelling from SigningOff does not take it back |
| errors | `enums.rs:130` "Proposal can't be transitioned from ExecutingWithErrors to Completed state" | executing the flagged transaction later completes the proposal |
| tie | `enums.rs:147` "a '+1 vote' tie breaker is always required" | with an electorate of weight zero the first vote, even Deny, makes the proposal Succeeded |
| electorate | `proposal.rs:446` "Adjusts max voter weight to ensure it's not lower than total cast votes" | the adjustment takes the best option plus Deny: with two options, a supply of 3 and a fraction of one half, two votes of weight 1 for different options are decided with an electorate of 1. In a multiple choice it is the same when voters choose different options |
| token_frozen_close | token `state.rs:188` "Neither the account owner nor the delegate are able to perform operations on this account." | the owner of an empty frozen account can close it |

Two further differences without a run. `token_owner_record.rs:62` speaks of one outstanding
proposal per owner; the code allows ten (line 132). `enums.rs:175` says of
`VoteTipping::Disabled` "Never tip the vote early."; the comparisons with the whole
electorate that the run tie is about precede the match on the mode, so a vote in which
everybody agreed ends at once under Disabled too.

### Bounds

Two owners are enough for tokens to move from one to the other, a tie, and a voter
who is or is not the proposal's owner; three tokens for a majority, a tie with
abstention and a threshold (60 %) that is not an integer; one proposal, except in
config_change, where two are needed for one to change the configuration of the other;
two options and two slots for a tie, for a gap and for a proposal that is half
executed; a clock to 3 for a vote of length 1 to be open, on its last instant, over, and
held up. `FractionBase` is 2 instead of 10^10: one half is a proper fraction. The limits
of the counters are those of their types, except those that bound the run
(`MaxProposals`, `MaxTransactions`, `MaxOptions`, `MaxSupply`, `MaxClock`), which
disable the instruction at the limit exactly as `checked_add().unwrap()` does. The
vote counters (u32), the counts of signatures and executed transactions and the weights (u64) are
natural numbers without a limit: a weight that is a deposit is bounded by the supply, and that the sum of
weights an addin reports could exceed a u64, where CastVote would fail, is no guard of the model.

realm has one owner, one token and a clock to 1: enough for a vote of length 0 to run and to be finalized,
with every change of the realm before, between and after.

For token, two accounts are enough for a transfer to oneself and to another; `MaxAmount` is
2 (or 4) instead of 2^64 - 1, so that the balances of two accounts that fit can
have a sum that does not; the amounts include 0, because a delegate is removed when its
allowance becomes 0 and a transfer of 0 does that too. token_supply has no lamports and a
rent reserve of 0, token_native no other mint, and one multisignature over one key listed twice, which one or two
signatures satisfy and three never do: the two halves touch only in the state of an account.
Deadlock is not checked there either: when every authority is given up nothing may be left to do.

Deadlock is not checked: time is bounded, and a realm in which every proposal is
closed, every vote released and the clock at its bound really has nothing left to do.
Symmetry is used in token_supply and token_native, over the two account addresses: their properties are
invariants and action properties, and neither they nor the instructions tell addresses apart.

### Fairness

`FairSpec` assumes weak fairness of the clock, of `FinalizeVote(p)` and of
`ReleaseVote(p, t)`. The two instructions require nobody's signature
(`process_finalize_vote.rs`, and `process_relinquish_vote.rs:69-70`: "anybody can prune active
votes"), so whoever wants the outcome or the tokens can send them again until they
succeed. No fairness is assumed of owners, voters, signatories or the authority. The
liveness properties are about votes whose end lies within the modelled time
(`VoteCanEnd`), and the run has no council mint, whose removal
makes its open proposals impossible to finalize by design
(`process_set_realm_config.rs:73`).

## 4. What is proved

The assumptions are the four named ones in `Governance`: the sets of owners, governances and
signatories are finite, `NoKey` is no key, the bounds are naturals, and the inputs
have the types of the instruction arguments. No bound on their size is assumed.

* `TypeCorrect`: `Spec => []TypeOK`. `TypeOK` is inductive by itself, because every
  subtraction is guarded by the `checked_sub` of the code. One lemma per action.
* `VoteCountsCorrect`, `DepositsCorrect`: the vote counters are the cardinalities of
  sets of vote records, and the deposit of a record covers each of its live votes. The
  inductive step of the first needs that a vote record goes through
  Empty, Active, Relinquished so that each step changes one set by one element; that
  of the second needs the first, because a withdrawal is allowed when the counter is zero, and
  must imply that no live vote exists. Records that do not
  exist yet are empty (`RecordsStartEmpty`), without which creating one would reset counters.
* `OutstandingCountCorrect`: needs that proposals beyond `proposals_count` do not
  exist yet (`ProposalsNumbered`), so that CreateProposal adds exactly one.
* `SignaturesCorrect`, `SigningOffCorrect`: need that the two signature counters of a proposal are
  the numbers of its signatory records (`SignatureCountsExact`): equality of the counters when
  the vote opens then means that no signatory is pending, and inequality that one is.
* `VoteWeightsCorrect`: the weights are sums over the vote records. A sum is the cardinality of a set of
  units (`Totals`), so that its change with one summand (`TotalChange`) follows from the library's facts about
  finite sets, without an induction. Every step either writes no vote record and keeps
  all weights (`NoVoteWritten`), or writes one and changes each weight by what that record counts
  (`VoteChanged`). The invariant adds that votes are on existing proposals and for options they
  have (`VotesValid`), so that CreateProposal finds no votes.
* `ElectorateCorrect`: `Spec => YesNoElectorateCoversVotes`. By `VotesValid` every voter on one option is for
  it or against it, so the sum of the vote records is the weight of the option plus Deny
  (`YesNoWeightCast`, from `VoteWeightsCorrect` and `TotalSum`); a vote is decided only by FinalizeVote or a
  tipping CastVote (`DecidingSteps`), and both take an electorate of at least that much.
* `ThresholdIsCeiling`, `TipAgreesWithFinal`, `TipIsIrrevocable`: the
  arithmetic of `ProposalVoting`, for all weights, percentages and tipping modes. `TipAgreesWithFinal` assumes a
  non-empty electorate; the run tie shows what happens without it.

For token the assumptions are the two named ones of `Token`: the kinds of keys are
disjoint, and amounts are u64.

* `TokenTypeCorrect`: no balance, allowance, supply or lamport amount wraps; inductive by
  itself, since every `checked_*` is a guard.
* `NativeCorrect`: `NativeBacked` is proved together with "a native account is never
  frozen" (`NativeInv`). Its first conjunct, native means of the native mint, makes both ends of a transfer
  native, so that the lamports move with the tokens. One frame lemma (`NativeFrame`) says what a step
  has to keep of an account; each action is shown to keep it.
* `FixedSupplyCorrect`, `FrozenCorrect`, `LockedCorrect`: action properties. The second needs the invariant
  of `NativeCorrect`, because SyncNative and the closing of a native account look neither at
  the freeze nor at the balance. The third needs that an initialized
  multisignature is never written again.

Only model-checked: the other properties of `GovernanceLedger` and those of `TokenLedger`, the
refinement, `CompletedMeansExecuted`, `ExecutedOnlyIfWon`,
`DecisionIsFinal` (planned), and the liveness properties (the prover does not handle
fairness).

## 5. What is not modelled

In governance: the treasury and metadata instructions, the conversion of V1 accounts,
serialization, the expiry and target checks of addin records, the take-over of
upgrade, mint and token authorities by the create instructions, proposal transactions with several
instructions (they succeed or fail together, as one does), and a proposal
transaction that calls ExecuteTransaction on its own proposal: the handler reads the
proposal before the invocations and writes it after them. In token: decimals, the
instructions that only return data, and multisignature addresses before they are
allocated (they are taken to belong to the program from the start). The other programs
are in the plan; off-chain code is not modelled.
