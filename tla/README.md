# A verification project for the Reserve index DTF programs on Solana

This directory holds TLA+ models of the repository's on-chain programs, TLC
configurations that check them on small instances, and theorems that TLAPS
proves for every value of the constants. It is kept beside the code: every
definition names the lines it models in `PROJECT.json` ("map").

## 1. The system

A *folio* is a token backed by a basket of SPL tokens. Users deposit basket
tokens and mint shares, or burn shares and redeem basket tokens; fees accrue as
new shares; a rebalance exchanges basket tokens in dutch auctions; an owner may
kill a folio or move it to a successor program. Owners of a governing token (often a
folio's owner is a governance) stake it in a *realm* of the governance program,
which is SPL governance with the rewards program called from deposits and
withdrawals; they vote on proposals whose transactions the governance signs, and
earn reward tokens on their stakes.

| component | source | state | operations | modelled in |
|---|---|---|---|---|
| fixed-point arithmetic | `shared/src/utils/math_util.rs`, `custom_math` | none | conversions raw/scaled, rounding, saturation, `pow`, `nth_root` | `Decimal` |
| fee accounting | `folio/src/utils/accounts/folio.rs` | rates, pending fee shares, reserve, last poke | `poke`, `calculate_fees_for_minting`, `get_total_supply` | `FolioFees` |
| lifecycle, roles, configuration | `instructions/owner/*` | status, fees, roles | init, update, kill, grant and revoke roles | `Folio` |
| basket and pending baskets | `folio_basket.rs`, `user_pending_basket.rs`, `instructions/user/*` | one token account per mint; slots and amounts of the basket and of each user | deposit, withdraw, mint, burn, redeem, close, add and remove basket tokens | `Folio` |
| fee recipients, distributions, cranks | `fee_recipients.rs`, `fee_distribution.rs`, `instructions/crank/*` | recipients' table, open distributions, index | poke, distribute, crank | `Folio` |
| fee configuration | `programs/folio-admin` | default and per-folio ratio and floor | set default, set per folio (calls the folio program) | `Folio` |
| rebalances and auctions | `rebalance.rs`, `auction.rs`, `auction_ends.rs`, `instructions/auction/*` | rebalance, auctions, end time per pair | start, add details, open, open permissionless, close, bid | `Auctions` |
| migration, old program's side | `instructions/owner/migration/*` | status, basket | start, migrate tokens | `Folio` |
| migration, successor's side; program registrar | the same, `folio-admin` registrar | new folio and basket, allow-list of programs | create from old, update basket; init, add, remove | `Migration` |
| realm and governing tokens | `governance/program/src/processor/*realm*`, `*governing_tokens*`, `*token_owner_record*` | realm configuration and authority, token owner records, holding accounts, locks | deposit, withdraw, revoke, delegate, lock, set configuration and authority | `Realm` |
| voting arithmetic | `governance/program/src/state/proposal.rs`, `vote_record.rs`, `governance.rs` | none | weights, thresholds, maximum weight, tipping, final result, time limits | `Voting` |
| proposals, votes, execution | `governance/program/src/processor/*` | governance, proposals, signatories, vote records, transactions | create, sign off, vote, relinquish, finalize, cancel, execute, complete, refund | `Governance` |
| rewards | `programs/rewards` | reward tokens, an index per token, a record per user and token | accrue, claim, add and remove tokens, set ratio, set admin | `Rewards` |

How the parts interact. All instructions of the folio program read and write the
same few accounts, in any order and by any number of signers. Three couplings
make that hard, and the governance side adds two more:

* **one token account per mint** holds the basket's tokens, the deposits waiting
  to be minted with and the redemptions waiting to be collected, while every
  instruction checks only its own record;
* **fees accrue inside other instructions**: mint, burn, start, open, bid,
  distribute and update all poke first, and the supply that values everything
  is outstanding shares plus three kinds of pending ones;
* **configuration changes between steps**: a distribution is a snapshot that is
  paid recipient by recipient later; the auctions of a rebalance share limits
  that each of them narrows; an auction's end is kept in two accounts;
* **a stake is counted in several places**: the deposit in the token owner record,
  the tokens in the shared holding account, the weight in each vote record and in
  the running tally of each proposal, and two counters that hold the deposit;
* **a stake is rewarded lazily**: an index grows per token, and a user's part is the
  stake found at the user's next accrual, so every change of a stake has to accrue
  first, for every reward token whose index has moved.

What is hard in this code: interleavings of instructions over shared accounts,
snapshots used after what they copy has changed, rounding and saturation in both
directions, clock boundaries (days, the last second of an auction), and wind-down
while claims are open. What it does not have: a Solana transaction is atomic, so
there are no torn instructions, no partial writes and no lost messages; an
instruction that fails leaves no trace and may be sent again.

### What makes each component correct

* Custody: token accounts cover basket and claims; nobody is paid from the
  surplus; claims and backing stay in the slots that the instructions look at;
  a claim falls only by being paid or by being minted with.
* Share value: no instruction lowers what a share is worth beyond the fees due
  and the rounding of one scaled unit.
* Fees: amounts stay in their widths; the reserve covers every open payment;
  distributions are eventually paid.
* Lifecycle: a killed folio only winds down; a migration moves the backing once
  and nothing owed; claims are eventually collected.
* Migration: the two baskets together keep the backing; the successor opens with the
  last token; the migration ends.
* Realm: the holding account covers all deposits; nothing that has voted, is owed a
  lock or backs an undecided proposal is withdrawn; counters are exact.
* Votes: the tally is the sum of the votes; no token votes twice on a proposal; a
  strict tip decides nothing that later votes could turn; only adopted options are
  carried out, each transaction once; every vote ends and releases its voters.
* Rewards: a stake earns what the index grew while it was there; what is promised is
  covered; the accrual inside deposits and withdrawals never fails.
* Auctions: limits never allow selling and buying back; trades respect price and
  limits; one auction per pair; the two records of an end agree; an ended
  auction stays ended.

`PROJECT.json` lists the hazards behind these, each at its line.

## 2. The modules

| module | contents |
|---|---|
| `Decimal` | `Decimal` arithmetic: `FromTokenAmount`, `ToTokenFloor/Ceil` (saturating at u64), `ToScaledFloor/Ceil`, `Pow` (a recursive function), `PerSecondRate` |
| `FolioFees` | the fee functions of the Folio account as operators on a record: `Poke`, `DaoShares`, `CalculateFeesForMinting`, ...; a partial function `F` has a predicate `FOk` for "returns no error" |
| `Sums` | `Total(f, n)`, a sum written as a recursive function |
| `Folio` | the state machine: one action per instruction of the user, owner, crank, admin and migration families, a clock and donations |
| `Auctions` | EXTENDS `Folio`: the rebalancing instructions over the same state; its next-state relation is Folio's or one of its own |
| `Migration` | EXTENDS `Folio`: the registrar, the start of a migration with the successor's `create_folio_from_old_program`, the moves of tokens with its `update_basket_in_new_folio_program` |
| `Realm` | a realm, its token owner records and holding accounts: operators and actions that `Governance` and `Rewards` share |
| `Voting` | the pure part of a vote: choices and their weights, `MinVoteThresholdWeight`, the maximum weight, tips, `ResolveFinalVoteState`, time limits |
| `Governance` | EXTENDS `Realm`, `Voting`: one action per instruction on a governance and its proposals; `Perform` is what an executed transaction does to the governance or its realm |
| `Referendum` | what a governance promises for a proposal: preparation, ballots, a decision that the ballots justify, items carried out at most once |
| `Rewards` | EXTENDS `Realm`: the rewards program composed with the deposits, withdrawals and revocations that change stakes |
| `MCFolio`, `MCAuctions`, `MCMigration`, `MCGovernance`, `MCRewards` | inputs for the TLC runs |
| `SumsProofs` | what `Total` computes, for every n |
| `FolioProofs` | types of a folio, and that its arithmetic keeps them |
| `CustodyProofs` | custody and reachability of claims, dilution, wind-down, what claims and distributions are paid |
| `AuctionsProofs` | auctions: types, pairs and ends, limits, trades, and custody with bids |
| `MigrationProofs` | both sides of a migration, and custody through it |
| `RealmProofs` | types of a realm and its holding accounts |
| `GovernanceProofs` | counters, tallies, tips, execution, double voting, and the refinement of `Referendum` |
| `RewardsProofs` | accruals, earnings and promises |

How state and actions correspond to the code. A variable is an account or a
family of accounts: `folio` the Folio account, `ata` the balances of its token
accounts, `basketMints`/`basket` the occupied slots and the amounts of
FolioBasket, `pendMints`/`minting`/`redeeming` those of each UserPendingBasket,
`accounts` which of those exist, `recips` and `dists` FeeRecipients and the open
FeeDistributions, `feeCfg` the two configurations of folio-admin, `roles` the
Actor accounts, `rebalance`/`auctions`/`auctionEnds` the accounts of the same
names; `registrar`, `successor`, `successorAta` those of a migration; `realm`, `tokens`,
`tor`, `holding` a realm, its token configurations, token owner records and holding
accounts, `wallet` the governing tokens outside; `gov`, `required`, `proposals`,
`signatories`, `votes`, `txs` the accounts of a governance; `rt`, `info`, `uinfo`,
`balance` RewardTokens, RewardInfo, UserRewardInfo and the reward tokens' accounts.

An instruction is one action, its guard all checks of `validate`, of the handler and of the checked arithmetic and token transfers it makes. A vector of
(mint, amount) pairs is a function from mints to amounts, so a vector that names
a mint twice, which is the same as two calls, is not an input. Where a helper has
a `Slip:` or `Mutant:` variant beside it, that is a plausible mistake in the same
code, used to see that the property it threatens really depends on the right version.

History variables, which no action's guard reads: `earned` and `paid` in `Rewards`
(what the stakes earned while the index grew, what users were paid), the field
`tipping` of a proposal (the rule by which a vote was tipped), and three that record
exactly when the code leaves an account unchecked, for the properties that have to except
it: `released` in `Auctions` (pairs ended by a bid in another folio's auction), `backdated`
in `Rewards` (users and tokens for which a deposit did not accrue growth that was due) and
`misread` (tokens whose RewardInfo began with a larger balance than accruals read).

Abstractions:

* **Numbers are small.** `D9`, the integer widths, `YEAR`, `DAY` and the fee
  limits are constants; the code's values are one instance. The operators keep
  the code's order of operations, truncation and saturation.
* **The price curve.** Between its exact ends, the price of an auction is any
  value from the end price to the start price plus one (`GetPrice`): the
  exponential is only used through these bounds. Where the code's logarithm
  fails, no price exists and no bid is possible.
* **Signers.** Account constraints (PDAs, owners, programs) are taken as checked, where
  there are any; roles are modelled. Three accounts are not bound to the folio or the realm
  by any constraint and are chosen freely in the models: the auction of a bid (`ForeignBid`,
  next to `Bid`), the account that a RewardInfo begins from (`OtherBalances`) and the reward
  tokens of a deposit or withdrawal (below). A user owns enough of any basket token to deposit, and
  shares move freely between holders: a burn needs only the supply.
* **Callers' own limits** (`min_raw_shares`, `minimum_out`) only let the caller
  decline. A bid's maximum price is kept.
* **Bid callbacks.** The callback is an arbitrary program that may not reenter;
  its effect is the payment, at least the price (`extra` is what it sends beyond).
* **Fees of the DAO** are minted to its account and counted in the supply.
* **Freed slots and order.** A basket is a set of occupied slots; the order of
  slots, which no instruction depends on, is not kept. The tokens that a full
  rebalance drops are any of the vector.
* **Governance signs only in execution.** A governance is an address that signs inside
  `ExecuteTransaction`; a transaction holds one instruction, which changes the
  governance, its realm, or something outside. In `Rewards` the administrator is the
  governance, and what it signs may happen at any time.
* **Plugins.** Where a mint has a voter-weight or maximum-weight plugin, the weight is
  any value up to `MaxSupply`.
* **Reward tokens that a caller passes** to a deposit, a withdrawal or an accrual are any
  subset of the tokens, none included: `accrue_rewards` takes what it is given.
* **Transfer fees.** `FeeMints` are the Token-2022 mints that withhold a fee from the
  receiver; `Arrivals` lets any part of the amount arrive, of a deposit and of a donation.
  `add_to_pending_basket` takes them and books what was sent; `add_to_basket`, the
  instructions that give a rebalance its tokens and `bid` refuse them (`IsSupported`). A
  withdrawal is modelled by what leaves the folio's account. The other extensions
  (`token_util.rs:14-27` allows a permanent delegate, pausing, a default account state and a
  transfer hook, which the mint's authority may use or change later) act outside of the
  program and are not modelled.
* **The successor** is the repository's example, compiled for tests (without the feature
  `test` its two handlers return at once); after it has opened, its folio is
  left alone (it is a folio like any other).
* **Deposits before the first state.** A realm starts with some deposits made; the
  accounts that the accrual needs are created afterwards.
* **Time** advances by one second at a time; a model's clock stops at `MaxTime`.

The bounds of a model are named constants: `MaxTime`, `MaxDistributions`,
`MaxNonce`, `MaxAuctions`; input sets left empty switch an instruction off.

## 3. The runs

| run | configuration | checks | what it shows |
|---|---|---|---|
| custody | `MCCustody.cfg` | Custody, ClaimsReachable, BackingInSlots, ClaimsHonoured, SurplusNeverSpent, WindDown, MigrationMovesBacking, NoDilution | two users, two mints without transfer fee, the owner, a donor, a kill and a migration in every order |
| fees | `MCFees.cfg` | TypeOK, DistributionsCovered, NoDilution | accrual, distribution and cranks between changes of fee, recipients and admin configuration |
| live | `MCLive.cfg` | ClaimsCollected, DistributionsPaid | under fairness, claims on a closed folio are collected, also beside one of a mint that took a fee, and distributions paid |
| auctions | `MCAuctions.cfg` | AuctionTypeOK, OneAuctionPerPair, EndsAgree, EndedForGood, NoDoubleTrading, TradesWithinLimits | two rebalances, three tokens, several auctions at once and repeated auctions of a pair, of one and of two seconds, limits and prices chosen by the launcher, in one choice the lower price first; bids in another folio's auction |
| trading | `MCTrading.cfg` | Custody, SurplusNeverSpent | bids interleaved with deposits, mints, burns and redemptions, and with deposits of a third mint that takes a fee |
| migration | `MCMigration.cfg` | OpensComplete, BackingConserved, MigrationEnds | a folio with two tokens migrates, token by token or at once, killed or not, while the registrar changes and others send tokens to the successor |
| realm | `MCRealm.cfg` | GovernanceTypeOK, HoldingBacked, CountersAgree, DepositsHeld | membership tokens that become liquid ones weighed by plugins, locks, a delegate, signatories and a change of the realm's authority around one proposal |
| votes | `MCVotes.cfg` | TallyAgrees, ExecutionComplete, ImplementsReferendum, VotesEnd, VotesReleased | yes/no, single- and multiple-choice, weighted proposals and surveys, votes taken back, tipped, finalized; a transaction that changes the configuration |
| chambers | `MCChambers.cfg` | NoDoubleVoting, TipsStand | a community and a council that veto each other's proposals, tokens withdrawn and deposited by the other owner |
| rewards | `MCRewards.cfg` | RewardsTypeOK, RewardsEarned, AccrualPossible, PromisesCovered | two stakers, a reward token added and removed, changing ratios, donations between accruals; each deposit, withdrawal and accrual passes the token or leaves it out, and its RewardInfo begins from either of two accounts |
| zero_fee, late_stake | `MCZeroFee.cfg`, `MCLateStake.cfg` | PokeAvailable; AllRewardsEarned | violated: see the findings |

Why the bounds are enough for the cases that matter:

* *custody*: two users are the fewest that could be paid with each other's
  tokens; vectors name one or both mints so that a slot is left half empty;
  `MaxU64 = 3` makes transfers and pending amounts overflow; migration is
  enabled with and without a kill. No time passes, since fees are the subject of
  other runs: the shares burnt and minted here differ from those only in number.
* *fees*: `D9 = 3` leaves remainders in every conversion; two
  recipients have portions 4/9 and 5/9; a day is two seconds and two days pass,
  so that fees accrue, are distributed, change and accrue again; two
  distributions are open at once.
* *auctions*: narrowing of limits needs a token that one auction sells and another
  buys, and a third token so that two auctions share it. The same pair is auctioned
  again after its first auction ended by time, by a bid or by `close_auction`, in
  both directions, and once more under a new nonce. One choice of the launcher has
  limits 2 and 6 and a price that falls from 5 to 4; the other has equal limits and a
  price that rises from 4 to 8, which `open_auction` accepts. An auction of two seconds
  has a second between its ends, in which the price is any between the two. The other
  folio's auction has the pair of two own ones, limits that sell further than theirs
  and a limit that one bid reaches, so that it trades where no own auction would and ends
  the pair while the own auction is open.
* *trading*: one user whose pending tokens share both traded token accounts; the
  bidder pays exactly or one unit more, and `MaxU64 = 5` makes both accounts fill up. The
  user also deposits three units of a third mint, of which any number may arrive. A day is
  one second and one passes, so that fees accrue between an auction's start and a bid.
* *live*: one user and one distribution of one base unit to two recipients, so that a
  payment rounded the wrong way would leave the last recipient unpaid. A deposit of three
  units of a mint with a fee takes a slot beside the claims that have to be collected.
* *migration*: two tokens are the fewest that can be moved in two groups, and three
  registrar slots for two programs let one be added twice. `D9 = 3` with the annual fee
  8 is chosen so that the stored rate is still positive after it is converted a second
  time; with a smaller fee `set_tvl_fee` returns TVLFeeTooLow and the migration cannot
  start. `MaxAllowedPending` is empty because StartMigration, with both sides, takes
  the place of Folio's own start.
* *realm*: one owner, one delegate and one proposal, since every property is about one
  record and its counters; two transactions, so that a requirement is added and
  removed; a time for a lock to expire. Only votes in favour are cast, which tip.
* *votes*: two voters with stakes 2 and 1 make a tie impossible for yes/no and possible
  for options; a threshold of 33 percent of 3 is rounded up; the base time and the
  cool-off time end at different seconds. The configuration that a transaction
  sets keeps the same mints voting: one that disables the threshold of a mint
  leaves its open votes without an end (`resolve_vote_threshold` fails in
  `finalize_vote`) until another proposal enables it, and VotesEnd would fail for this
  reason alone.
* *chambers*: two owners in the community and one in the council, of whom each may hold
  tokens of both mints later; a token may be withdrawn by one and deposited by the other.
* *rewards*: two stakers are the fewest that share an index, and two seconds let a token be
  added, grow, be removed or grow again, and be claimed from late; the other account that a
  RewardInfo may begin from has more than is ever sent to the one accruals read;
  `D9 = 10` leaves remainders in the index, in the handout and in each user's part.
  PromisesCovered is stated for a governing mint with nine decimals (`GovUnit = D9`): the
  code scales the index by the mint's decimals and users' parts by nine, so for others the
  two differ by the ratio.

Deadlock is not checked: the programs only react, and in a bounded model the
clock stops and the accounts fill up.

Fairness (`LiveSpec`): weak fairness of each user's withdrawal and redemption, and
of the crank of each open distribution that pays at least one recipient.
These instructions depend on nobody but their sender: they are enabled in any
status (withdrawals) or in two of them (cranks), and a user who wants
the effect keeps sending them. A crank may be sent by anyone, a recipient for instance:
its `cranker` account gets the rent back and does not sign. No fairness is assumed of the
owner, of the admin, of the clock or of mints and burns; in particular ClaimsCollected does not need
the owner. DistributionsPaid ends when the folio starts to migrate, because
`crank_fee_distribution` refuses that status.

`MigLiveSpec`: weak fairness of migrating each single token. `migrate_folio_tokens` has no
signer that matters, so any holder who wants the successor to open can send it; no
fairness of the owner, the admin or the registrar. `Governance!LiveSpec`: weak fairness of
the clock, of `finalize_vote` and of `relinquish_vote` on a decided proposal, none of which
needs a particular signer. Nobody is assumed to vote, sign off, execute or cancel.

The refinement. `Governance` implements `Referendum` (ImplementsReferendum). A proposal's
phase is computed from its state (`PhaseOf`: preparation until it is signed off, open
while voting, adopted or closed afterwards; a survey that completes was never adopted),
its agenda from the transactions that exist, what was done from those executed, and a
voter's ballot from the vote record (`BallotOf`; `NoVote` where there is none or it was
taken back), never from the running tally. So the
decision that the code takes from its tally and its vote results is compared with the sum
of the ballots, and the execution of every transaction with the ballots for its option.

### Findings

* **zero_fee** with a zero TVL fee and a zero floor every poke divides by zero, and
  with it mint, burn, bid and distribution fail once a day has passed.
* **late_stake** a deposit accrues the reward tokens that its sender passes, and it may pass
  none. A UserRewardInfo starts at index 0, so a user who stakes without passing a token
  whose index has grown is later credited with its whole past growth, of registered tokens
  and of removed ones. The *rewards* run and the theorems except exactly the pairs of a
  user and a token for which that happened (`backdated`): nobody else's credit is affected,
  but what such a stake is promised is not covered by what was accounted for.

`PROJECT.json` quotes the lines. More was met while modelling, and has no run:

* `bid` takes an auction of any folio if its nonce and its pair are those of this folio's
  AuctionEnds account: `bid.rs:68-69` puts no constraint on the account, and `validate`
  (lines 144-205) does not compare `auction.folio`; only `close_auction` does
  (`close_auction.rs:61`). README.md:217 says that auction lots are sized by the limits of
  the auction, README.md:21 that the launcher opens auctions within the bounds set by
  governance; here the limits and prices are those of another folio's owner. A bid that
  reaches such a limit ends this folio's pair in AuctionEnds (`bid.rs:370`), its own auction
  stays open, and the pair can be opened a second time. `ForeignBid` models it. So
  EndsAgree and OneAuctionPerPair except the pairs it ended (`released`), and
  TradesWithinLimits speaks of the limits of the auction that was bid in, whosever it is;
* `add_to_pending_basket` takes mints with a transfer fee, which `add_to_basket` refuses
  (`add_to_basket.rs:224-231`), and books what was sent, not what arrived (lines 226-234): the
  token account then has less than is owed, and whoever withdraws last cannot collect
  the claim in full. Such a mint never comes to back shares, so neither the
  holders nor claims in other mints are touched; Custody, SurplusNeverSpent and ClaimsCollected
  are stated for the mints without a fee (and Custody for every mint of the basket);
* `add_reward_token` starts a RewardInfo with the balance of any account that the PDA owns
  (`add_reward_token.rs:54-77`), while accruals read the associated token account. Begun
  from a larger balance, the RewardInfo hands out what is not there, and an accrual's
  subtraction may fail until the account has caught up; AccrualPossible excepts these
  tokens (`misread`);
* `distribute_fees` without recipients drops the DAO's remainder below a base unit
  (`distribute_fees.rs:343`; README.md:40-41 says dust is retained);
* the first `update_folio` changes the rate without accruing (`update_folio.rs:231`, against
  the comment at line 207);
* a folio's fee floor can be set above the universal one (`set_folio_fee_config.rs:103`;
  README.md:246 says only lower);
* with deferred prices the launcher's end price may exceed the start price
  (`auction.rs:187`; `state.rs:288` says all auctions are dutch). The function that would
  refuse it, `validate_auction_approve` (`auction.rs:44-65`), is tested
  (`tests/folio/test_auction.rs:57-67`) and never called. So what a bid pays is bounded by
  the lower of the two prices (TradesWithinLimits), which need not be the end price;
* a strict tip compares the yes votes with what is left of the maximum weight
  (`proposal.rs:742-743`), which is enough only while the votes fit into the supply.
  With membership tokens they need not: when a member who voted no is revoked, the
  tokens are burnt and the supply falls, but the vote stands; then yes votes that are
  more than half of the smaller supply adopt a proposal that has as many or more votes
  against it. `state/enums.rs:190-192` says "Tip when there is no way for another option
  to win", and names only voters who withdraw their votes as an exception;
* the example successor, which runs in test builds only, passes the stored rate per second
  to `set_tvl_fee`, which takes an annual one and converts it again
  (`create_folio_from_old_program.rs:109`, `folio.rs:87`); it creates an Actor account without
  a role, so that nobody owns the new folio; and a folio with an empty basket migrates
  to one that never opens, since only the move of a token opens it;
* a killed folio can be migrated, and the successor's folio becomes Initialized with the
  last token, as if it had not been killed (`update_basket_in_new_folio_program.rs:158`;
  `lib.rs:27` says that kill prevents any further minting);
* a signatory required by a proposal that is executed while another one is in
  preparation is not asked for by the other: `process_sign_off_proposal.rs:44` compares
  numbers of signatories, not names;
* a program added to the registrar twice takes two slots and has to be named twice to be
  removed (`program_registrar.rs:54`);
* a succeeded proposal whose transactions all belong to options that lost can neither be
  executed nor completed (`proposal.rs:886`); its votes and its deposit are free.

## 4. What is proved

TLAPS checks 37 theorems. Every invariant, every action property and the refinement that
the passing runs check are stated by one of them, for every number of users, mints,
recipients, auctions, owners, proposals, options and transactions, and for every input
set. They rest on the assumptions named in the modules and on nothing else:
`DecimalAssumption`, `FeeAssumption`, `FolioAssumption`, `AuctionAssumption`,
`MigrationAssumption`, `RealmAssumption`, `RealmArgsAssumption`, `GovernanceAssumption` and
`RewardsAssumption` say that constants are naturals in their ranges, that inputs have
their types, that a raw amount scaled by D9 fits in u128, and that the deposits a realm
starts with fit into the supply. TLC evaluates each of them in the runs. Two theorems,
`VotesCountOnce` and `GovernanceImplements`, have a hypothesis beside these, named below.

**Sums** (`SumsProofs`). `Total` is a recursive function. That the function exists and is
unique, and that changing one summand changes the sum by the same amount (`TotalUpdate`),
is proved by least counterexample over the partial sums, since induction over data is
outside the prover's reach. All claims, stakes, tallies and portions below are such sums.

**Folio** (`FolioProofs`, `CustodyProofs`).

* `TypeCorrect`: `Spec => []TypeOK`, one lemma per instruction. The content is in the
  arithmetic: `PokeType` and `MintFeeType` use the checked additions, `DistributedType`
  that a floored amount converted back does not exceed what it came from,
  `PaymentsNat` bounds what a crank mints.
* `CustodyHolds` and `SurplusSafe` follow from one lemma, `SurplusStep`: no step lowers a
  mint's surplus, the token account less basket and claims. `OneUserStep` reduces a
  user's step to that user's claim. Custody is not inductive without TypeOK: the charge
  of a mint and the share of a burn have to be naturals for amounts to move without loss.
  A step in a mint that keeps a fee may lower its surplus; `BasketStaysSupported` shows that
  no such mint enters the basket, so that Custody covers everything that backs shares.
* `ClaimsStayReachable`, `BackingStaysInSlots`: inductive with TypeOK. A slot is freed only
  when both sides are empty, and a burn, which adds to mints the user never
  deposited, occupies their slots.
* `MigrationTakesBacking`, `KilledStaysKilled`, `ClaimsArePaid`: properties of steps, proved
  instruction by instruction from TypeOK and the invariants above.
* `HoldersUndiluted`: `Spec => NoDilution`. A mint charges every token rounded up and a
  burn pays rounded down, both at the supply after accrual; lemmas on `CeilDiv` and
  `\div` turn this into the products that NoDilution compares. It needs the invariant
  `MintFeeBounded`: the mint fee stays within the limit that init and update check.
* `DistributionsStayCovered`: `Spec => []DistributionsCovered`, from the inductive invariant
  `Booked`: the portions of the recipients' table sum to at most D18 (`TableWhole`), and
  the reserve covers what all open distributions owe (`CoveredBy`). Each payment is
  floored, so the parts never exceed the whole, and a crank takes from the reserve no
  more than what it no longer owes.

**Auctions** (`AuctionsProofs`).

* `AuctionTypeCorrect`; `EndTimesAgree` and `PairsTradedOnce` from `PairEnds`: the end of an
  open auction is the one kept for its pair, and only one auction of a pair is open, unless
  the pair is one of those `released`. Opening, closing and a bid in an own auction write
  both accounts, time only ends auctions, and a bid in a foreign auction releases the pair.
* `NeverTradedTwice` from `LimitsInv`: NoDoubleTrading and `RangesNarrowed`. The range kept for a
  token ends below the limit of every auction of the rebalance that sells it, and begins
  above that of every one that buys it, so the limits of the next auction are compatible
  with all earlier ones and not only with the last.
* `EndsAreFinal`, `TradesAreBounded`: properties of steps. What a bid does to the folio is one
  operator, `Trade`, and its lemmas (`TradeFacts`, `TradeTypes`) serve bids in own and in
  foreign auctions (`Biddable`).
* `CustodyWithBids`, `SurplusSafeFromBids`, `ClaimsReachableWithBids`,
  `BackingInSlotsWithBids`: the results on Folio for the composed specification; a bid
  moves basket and token account together.

**Migration** (`MigrationProofs`). `CustodyThroughMigration` is custody of the composed
specification. `OpensWhenComplete` is proved with `MigrationInv`: TypeOK, the types of the
successor, `ArrivalsCover` (its token accounts cover its basket) and OpensComplete itself.
`MigrationConserves` rests on `FrozenBasket`: only the moves of tokens change the basket of
a migrating folio.

**Governance** (`RealmProofs`, `GovernanceProofs`).

* `TypeInvariant` is stronger than `GovernanceTypes`, the property of the runs: it also says
  that each accepted vote fits its proposal.
* `DepositsBacked` (`Backed`, a sum over owners), `DepositsStay`, and `CountersExact`: the
  counters of votes, of outstanding and of active proposals and of signatories are
  each inductive with the types, and each of the handlers that end a vote is
  shown to count down exactly once.
* `TallySound`: `TallyExact`, every tally equals the sum over the vote records. A vote cast
  or taken back changes one summand; the weight taken back is the one recorded.
* `TipsFinal`: `TipsSound`. At a strict tip, whatever the tally could become within the
  maximum weight resolves in the same way, by the arithmetic of the tip's two comparisons.
* `ExecutionsCounted`: `ExecutionSound`, in which the counts of an option are cardinalities of
  its sets of transactions.
* `VotesCountOnce`: `VotesOnce` relates three accounts. While a vote is open, the weight of
  every vote record is at most the deposit of its owner (`VotesHeld`: the counter of votes
  locks withdrawals), and at any time the votes of a proposal fit into the supply
  (`VotesFunded`). It is for `PlainTokens`, realms without plugins and membership tokens, the
  hypothesis that NoDoubleVoting has. With plugins a weight is not a deposit, and the
  deposit of a member is burnt while the vote stands.
* `GovernanceImplements`: under `PlainTokens`, `Governance` implements `Referendum`. A lemma for each
  instruction (`CastVoteMove`, `ExecuteTransactionMove`, ...) names the step of `Referendum`
  that it is, or shows that it is none; `RefStep` lifts a move of one proposal to the whole
  specification. Two facts about the code are needed beside the invariants above: what is
  executed belongs to an option that succeeded (`ExecutionSound`), and an option that
  succeeded has more weight than there is against the proposal (`AdoptionsSound`). For a final
  resolution and an early tip the second is read off the tally, which is the sum of the
  ballots. A strict tip compares the yes votes only with the rest of the maximum weight, so
  the votes have to fit into that maximum: `VotesFunded`. Hence the hypothesis, and
  membership tokens do break the property (see the findings). The votes run satisfies it.

**Rewards** (`RewardsProofs`). All theorems hold for callers that pass any subset of the reward
tokens. `AccrualsNeverFail` takes from `RewardsInv` that the balance last known of a token is
at most its balance and what was claimed, whatever is removed, added again or donated,
unless the RewardInfo was begun from a larger balance (`misread`). `RewardsAreEarned` and
`PromisesAreCovered` except the pairs in `backdated` and no others: a withdrawal or an
accrual that leaves tokens out costs its sender, not the others. Without the exception the
run *late_stake* refutes the first. That the handout fits into
the balance although it is rounded up uses that the percentage handed out is one unit
too small.

Only model-checked: liveness (ClaimsCollected, DistributionsPaid, MigrationEnds, VotesEnd,
VotesReleased), since fairness and ENABLED are outside the prover's reach; and what `Pow`
and `PerSecondRate` compute (induction over data), of which the proofs use that a rate is
a natural number (`RateNat`) and the range checks that the code makes on the results.

## 5. What is not modelled, and the plan

Left out for good: events, token metadata, account layouts and rent; of Token-2022
everything but transfer fees (section 2); `transfer_from_user_pending_basket_ata`, which
moves a user's tokens between two accounts of the same user; of the governance program the native treasury (an address
without state), program metadata (a version string), the legacy account layouts, the
chat program and the mock plugins for tests; a transaction that executes another
transaction of the same proposal from inside; what a successor does with its folio
once it is open. Of `Decimal`, the logarithm and the exponential of the price curve are
abstracted to their bounds.

The plan. All modules of the first plan are written, and every safety property of the runs
has a theorem. What is left, most important first:

1. Without `PlainTokens`: which adoptions remain justified when members are revoked. Those that
   are not strict tips do, from `TallyExact` and `AdoptionsSound` alone.
2. The safety half of the liveness properties: that no other instruction undoes what
   withdrawals, cranks, moves of tokens and finalizations have achieved.
3. Widths in `Rewards`: how far the indexes are from u128 when `MaxPot` is the real one.
