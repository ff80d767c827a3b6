------------------------------- MODULE Folio -------------------------------
(***************************************************************************)
(* One folio of programs/folio: its lifecycle, its basket, the pending     *)
(* baskets of its users, its token supply, its fees and their distribution *)
(* (user/, owner/ and crank/ instructions, with the folio-admin program's  *)
(* fee configuration).  Module Auctions adds the rebalancing instructions. *)
(*                                                                         *)
(* A Solana instruction is atomic: it commits as a whole or leaves no      *)
(* trace, so each instruction is one action whose guard is the conjunction *)
(* of every check the handler makes.  An instruction that takes a vector   *)
(* of (mint, amount) pairs takes a batch: a function from the mints named  *)
(* to their amounts.                                                       *)
(***************************************************************************)
EXTENDS FolioFees, Sums, FiniteSets, Functions

CONSTANTS
  NUsers,         \* users are 1..NUsers
  Mints,          \* the SPL token mints
  FeeMints,       \* the Token-2022 mints among them that take a fee of a transfer
  Actors,         \* authorities that may hold roles
  FolioOwner,     \* the signer of init_folio
  Admin,          \* ADMIN of folio-admin
  NRecipients,    \* fee recipients are the keys 1..NRecipients
  MaxBasketTokens,     \* MAX_FOLIO_TOKEN_AMOUNTS
  MaxPendingTokens,    \* MAX_USER_PENDING_BASKET_TOKEN_AMOUNTS
  MaxRecipients,       \* MAX_FEE_RECIPIENTS
  MinAuctionLength, MaxAuctionLength

\* Inputs the environment may choose from, and the bounds of a model.  An empty
\* set switches the instructions that need such an input off.
CONSTANTS
  Batches,          \* (mint, amount) vectors of the basket instructions
  ShareAmounts,     \* raw_shares of mint, burn and the initial mint
  AnnualFees,       \* scaled_tvl_fee
  MintFees,         \* scaled_mint_fee
  FeeDetailInputs,  \* fee details an admin may set
  Updates,          \* arguments of update_folio
  Donations,        \* (mint, amount) vectors sent without an instruction
  AuctionLengths,
  Grants,               \* roles an owner may grant
  Revocations,          \* sets of roles an owner may revoke
  Issued,               \* which of the OptionalInstructions are issued
  MaxAllowedPending,    \* max_allowed_pending_fees of a migration
  MaxTime,              \* the clock stops here
  MaxDistributions      \* bound on the distribution index

VARIABLES
  now,          \* Clock::get().unix_timestamp
  folio,        \* the Folio account
  supply,       \* supply of the folio token mint (raw)
  ata,          \* balance of the folio's associated token account per mint
  basketMints,  \* mints that occupy a slot of the FolioBasket account
  basket,       \* amount per mint in the FolioBasket account
  accounts,     \* users whose UserPendingBasket account exists
  pendMints,    \* mints that occupy a slot of a user's pending basket
  minting,      \* amount_for_minting per user and mint
  redeeming,    \* amount_for_redeeming per user and mint
  recips,       \* the FeeRecipients account
  dists,        \* open FeeDistribution accounts by index
  feeCfg,       \* DAOFeeConfig and FolioFeeConfig of folio-admin
  roles,        \* role bits of the Actor accounts
  migrated      \* what the successor program's folio has received per mint

Users == 1..NUsers
Roles == {"Owner", "RebalanceManager", "AuctionLauncher", "BrandManager"}
OptionalInstructions == {"kill_folio", "remove_from_basket", "poke_folio"}
NoFee == -1            \* None of an optional number
Recipients == 1..NRecipients
NoKey == 0             \* Pubkey::default(), all zeros
Keys == Recipients \cup {NoKey}

\* Fee recipients' tables: the D18 portion of each key named.
Tables(K) == UNION {[S -> 0..D18] : S \in SUBSET K}
NoTable == [r \in {} |-> 0]
Distributions == [amount: U128, cranker: Actors \cup {Admin}, unpaid: Tables(Recipients)]
NoFeeConfig == [numerator |-> NoFee, floor |-> NoFee]

ASSUME FolioAssumption ==
  /\ NUsers \in Nat /\ NRecipients \in Nat
  /\ MaxBasketTokens \in Nat /\ MaxPendingTokens \in Nat
  /\ MaxRecipients \in Nat
  /\ MinAuctionLength \in Nat /\ MaxAuctionLength \in Nat
  /\ FeeMints \subseteq Mints /\ FolioOwner \in Actors
  /\ \A b \in Batches \cup Donations :
        DOMAIN b \subseteq Mints /\ \A m \in DOMAIN b : b[m] \in U64
  /\ ShareAmounts \subseteq U64
  /\ AnnualFees \subseteq U128 /\ MintFees \subseteq U128
  /\ AuctionLengths \subseteq Nat /\ Grants \subseteq Roles
  /\ Revocations \subseteq SUBSET Roles /\ Issued \subseteq OptionalInstructions
  /\ FeeDetailInputs \subseteq [numerator: U128 \cup {NoFee}, floor: U128 \cup {NoFee}]
  /\ \A x \in Updates :
       /\ x.annual \in AnnualFees \cup {NoFee} /\ x.mint_fee \in MintFees \cup {NoFee}
       /\ x.add \in Tables(Keys) /\ x.remove \subseteq Recipients
       /\ x.length \in AuctionLengths \cup {NoFee}
  /\ MaxTime \in Nat /\ MaxDistributions \in Nat

feeVars   == <<recips, dists, feeCfg>>
userVars  == <<accounts, pendMints, minting, redeeming>>
assetVars == <<ata, basketMints, basket>>
vars == <<now, folio, supply, assetVars, userVars, feeVars, roles, migrated>>

-----------------------------------------------------------------------------
(* Common guards and small accessors *)

\* validate_folio: the signer has one of the roles, the folio one of the statuses.
HasRole(a, required) == roles[a] \cap required # {}
\* Slip: validate_folio called without the allowed statuses.
AnyStatus(allowed) == TRUE

InStatus(allowed) == folio.status \in allowed

\* get_fee_details: a folio's own configuration overrides the DAO's default.
GetFeeDetails == IF feeCfg.folio # NoFeeConfig THEN feeCfg.folio ELSE feeCfg.dao

Amount(b, m) == IF m \in DOMAIN b THEN b[m] ELSE 0

\* SPL transfer of a batch into or out of the folio's token accounts.
CanReceive(b) == \A m \in DOMAIN b : ata[m] + b[m] <= MaxU64
\* Slip: transfers out only while the folio is open.
CanSendWhileOpen(b) == InStatus({"Initialized"}) /\ \A m \in DOMAIN b : ata[m] >= b[m]

CanSend(b) == \A m \in DOMAIN b : ata[m] >= b[m]
\* Slip: no check of the mints.
AnyMint(S) == TRUE

\* TokenUtil::is_supported_spl_token, asked by add_to_basket, by the instructions
\* that give a rebalance its tokens and by bid, and by no user's instruction.
SupportedMints == Mints \ FeeMints
IsSupported(S) == S \subseteq SupportedMints

\* What may arrive of a transfer of b: all of it, or less where the mint takes a
\* fee, which is withheld from the receiver.
Arrivals(b) ==
  {got \in [DOMAIN b -> U64] :
     \A m \in DOMAIN b : got[m] <= b[m] /\ (m \notin FeeMints => got[m] = b[m])}

Received(b) == [m \in Mints |-> ata[m] + Amount(b, m)]
Sent(b) == [m \in Mints |-> ata[m] - Amount(b, m)]

\* Slip: a slot is freed when its minting side alone is empty.
SlotsLeftByMinting(u, b, mi, re) == pendMints[u] \ {m \in DOMAIN b : mi[m] = 0}

\* A pending-basket slot is freed by the removal that leaves it empty, and only
\* when it is one of the slots named in the removal.
SlotsLeft(u, b, mi, re) ==
  pendMints[u] \ {m \in DOMAIN b : mi[m] = 0 /\ re[m] = 0}

-----------------------------------------------------------------------------
(* init_folio: the folio account as its creation leaves it. *)

Init ==
  /\ now \in 0..(DAY - 1)
  /\ \E annual \in AnnualFees, mf \in MintFees, len \in AuctionLengths :
       /\ SetTvlFeeOk(annual) /\ mf <= MaxMintFee
       /\ len \in MinAuctionLength..MaxAuctionLength
       /\ folio = [status |-> "Initializing",
                   tvl_fee |-> ToScaledFloor(PerSecondRate(annual)),
                   mint_fee |-> mf,
                   dao_pending_fee_shares |-> 0,
                   fee_recipients_pending_fee_shares |-> 0,
                   to_be_minted |-> 0,
                   auction_length |-> len,
                   last_poke |-> now]
  /\ supply = 0
  /\ ata = [m \in Mints |-> 0]
  /\ basketMints = {} /\ basket = [m \in Mints |-> 0]
  /\ accounts = {} /\ pendMints = [u \in Users |-> {}]
  /\ minting = [u \in Users |-> [m \in Mints |-> 0]]
  /\ redeeming = [u \in Users |-> [m \in Mints |-> 0]]
  /\ recips = [init |-> FALSE, index |-> 0, table |-> NoTable]
  /\ dists = [i \in {} |-> 0]
  /\ \E fd \in FeeDetailInputs \cap FeeDetails :
        feeCfg = [dao |-> fd, folio |-> NoFeeConfig]
  /\ roles = [a \in Actors |-> IF a = FolioOwner THEN {"Owner"} ELSE {}]
  /\ migrated = [m \in Mints |-> 0]

\* The cluster's clock.
Tick ==
  /\ now < MaxTime
  /\ now' = now + 1
  /\ UNCHANGED <<folio, supply, assetVars, userVars, feeVars, roles, migrated>>

\* Anyone may send tokens to the folio's token accounts without an instruction.
Donate(b) ==
  /\ \E got \in Arrivals(b) : CanReceive(got) /\ ata' = Received(got)
  /\ UNCHANGED <<now, folio, supply, basketMints, basket, userVars, feeVars,
                 roles, migrated>>

-----------------------------------------------------------------------------
(* The owner's basket instructions *)

NoShares == -1

\* add_to_basket: initial shares are minted once, by the call that finds the
\* folio Initializing; a later call that passes them mints nothing.
AddToBasket(a, b, initial) ==
  /\ HasRole(a, {"Owner"}) /\ InStatus({"Initializing", "Initialized"})
  /\ IsSupported(DOMAIN b) /\ CanReceive(b)
  /\ \A m \in DOMAIN b : basket[m] + b[m] <= MaxU64
  /\ Cardinality(basketMints \cup DOMAIN b) <= MaxBasketTokens
  /\ ata' = Received(b)
  /\ basketMints' = basketMints \cup DOMAIN b
  /\ basket' = [m \in Mints |-> basket[m] + Amount(b, m)]
  /\ \/ initial = NoShares /\ UNCHANGED <<folio, supply>>
     \/ /\ initial # NoShares
        /\ IF folio.status = "Initializing"
           THEN supply + initial <= MaxU64 /\ supply' = supply + initial
           ELSE UNCHANGED supply
        /\ folio' = [folio EXCEPT !.status = "Initialized"]
  /\ UNCHANGED <<now, userVars, feeVars, roles, migrated>>

\* Slip: the slot is dropped but its amount is kept.
RemoveSlotOnly(a, m) ==
  /\ HasRole(a, {"Owner"}) /\ InStatus({"Initializing", "Initialized"})
  /\ m \in basketMints
  /\ basketMints' = basketMints \ {m}
  /\ UNCHANGED <<now, folio, supply, ata, basket, userVars, feeVars, roles, migrated>>

\* remove_from_basket: the slot is dropped whatever its amount, and the tokens
\* stay in the folio's account as a surplus nobody is entitled to.
RemoveFromBasket(a, m) ==
  /\ HasRole(a, {"Owner"}) /\ InStatus({"Initializing", "Initialized"})
  /\ m \in basketMints
  /\ basketMints' = basketMints \ {m}
  /\ basket' = [basket EXCEPT ![m] = 0]
  /\ UNCHANGED <<now, folio, supply, ata, userVars, feeVars, roles, migrated>>

KillFolio(a) ==
  /\ HasRole(a, {"Owner"}) /\ InStatus({"Initializing", "Initialized"})
  /\ folio' = [folio EXCEPT !.status = "Killed"]
  /\ UNCHANGED <<now, supply, assetVars, userVars, feeVars, roles, migrated>>

-----------------------------------------------------------------------------
(* The users' instructions *)

\* add_to_pending_basket, the only instruction that creates the account.  It takes
\* any mint and books the amounts sent, whatever arrives of them.
AddToPendingBasket(u, b) ==
  /\ InStatus({"Initialized"})
  /\ \A m \in DOMAIN b : minting[u][m] + b[m] <= MaxU64
  /\ Cardinality(pendMints[u] \cup DOMAIN b) <= MaxPendingTokens
  /\ \E got \in Arrivals(b) : CanReceive(got) /\ ata' = Received(got)
  /\ accounts' = accounts \cup {u}
  /\ pendMints' = [pendMints EXCEPT ![u] = @ \cup DOMAIN b]
  /\ minting' = [minting EXCEPT ![u] = [m \in Mints |-> @[m] + Amount(b, m)]]
  /\ UNCHANGED <<now, folio, supply, basketMints, basket, redeeming, feeVars,
                 roles, migrated>>

\* Slip: more than the record holds may be taken, and the record saturates at zero.
RemoveSaturating(u, b) ==
  /\ u \in accounts
  /\ CanSend(b)
  /\ DOMAIN b \subseteq pendMints[u]
  /\ ata' = Sent(b)
  /\ minting' = [minting EXCEPT ![u] = [m \in Mints |-> SaturatingSub(@[m], Amount(b, m))]]
  /\ pendMints' = [pendMints EXCEPT ![u] = SlotsLeft(u, b, minting'[u], redeeming[u])]
  /\ UNCHANGED <<now, folio, supply, basketMints, basket, accounts, redeeming,
                 feeVars, roles, migrated>>

\* remove_from_pending_basket: in any status.
RemoveFromPendingBasket(u, b) ==
  /\ u \in accounts
  /\ CanSend(b)
  /\ DOMAIN b \subseteq pendMints[u]
  /\ \A m \in DOMAIN b : minting[u][m] >= b[m]
  /\ ata' = Sent(b)
  /\ minting' = [minting EXCEPT ![u] = [m \in Mints |-> @[m] - Amount(b, m)]]
  /\ pendMints' = [pendMints EXCEPT ![u] = SlotsLeft(u, b, minting'[u], redeeming[u])]
  /\ UNCHANGED <<now, folio, supply, basketMints, basket, accounts, redeeming,
                 feeVars, roles, migrated>>

\* to_assets_for_minting: what minting `shares` takes of a basket token.
MintCharge(shares, balance, total) ==
  ToTokenCeil((FromTokenAmount(shares) * FromTokenAmount(balance)) \div total)

\* The shares that a pending amount would pay for.
SharesFor(pending, balance, total) ==
  (FromTokenAmount(pending) * total) \div FromTokenAmount(balance)

\* mint_folio_token: accrue fees, move each basket token's charge from the
\* user's pending amount to the basket, book the mint fee, mint the rest.  The
\* caller's own slippage limits (min_raw_shares, and a burn's minimum_out) only
\* let the caller decline, and are left out.
MintFolioToken(u, shares) ==
  LET fee == GetFeeDetails
      f == Poke(folio, supply, now, fee)
      total == GetTotalSupply(f, supply)
      charge == [m \in Mints |-> IF m \in basketMints
                                 THEN MintCharge(shares, basket[m], total) ELSE 0]
      withheld == MintFeeShares(f, shares, fee)
  IN  /\ InStatus({"Initialized"}) /\ u \in accounts
      /\ PokeOk(folio, supply, now, fee)
      /\ basketMints \subseteq pendMints[u]
      /\ \A m \in basketMints :
           /\ basket[m] # 0 /\ total # 0
           /\ SharesFor(minting[u][m], basket[m], total) >= FromTokenAmount(shares)
           /\ minting[u][m] >= charge[m]
           /\ basket[m] + charge[m] <= MaxU64
      /\ MintFeesOk(f, shares, fee)
      /\ shares >= withheld
      /\ supply + (shares - withheld) <= MaxU64
      /\ minting' = [minting EXCEPT ![u] = [m \in Mints |-> @[m] - charge[m]]]
      /\ basket' = [m \in Mints |-> basket[m] + charge[m]]
      /\ folio' = CalculateFeesForMinting(f, shares, fee)
      /\ supply' = supply + (shares - withheld)
      /\ UNCHANGED <<now, ata, basketMints, accounts, pendMints, redeeming,
                     feeVars, roles, migrated>>

\* Slip: redemptions rounded in the redeemer's favour.
RedeemShareCeil(shares, balance, total) ==
  ToTokenCeil(CeilDiv(FromTokenAmount(shares) * FromTokenAmount(balance), total))

\* to_assets_for_redeeming: what burning `shares` releases of a basket token.
RedeemShare(shares, balance, total) ==
  ToTokenFloor((FromTokenAmount(shares) * FromTokenAmount(balance)) \div total)

\* burn_folio_token: the pending account must already exist.
BurnFolioToken(u, shares) ==
  LET fee == GetFeeDetails
      f == Poke(folio, supply, now, fee)
      total == GetTotalSupply(f, supply)
      share == [m \in Mints |-> IF m \in basketMints
                                THEN RedeemShare(shares, basket[m], total) ELSE 0]
  IN  /\ InStatus({"Initialized", "Killed"}) /\ u \in accounts
      /\ PokeOk(folio, supply, now, fee)
      /\ Cardinality(pendMints[u] \cup basketMints) <= MaxPendingTokens
      /\ \A m \in basketMints :
           /\ total # 0
           /\ redeeming[u][m] + share[m] <= MaxU64
           /\ basket[m] >= share[m]
      /\ supply >= shares
      /\ pendMints' = [pendMints EXCEPT ![u] = @ \cup basketMints]
      /\ redeeming' = [redeeming EXCEPT ![u] = [m \in Mints |-> @[m] + share[m]]]
      /\ basket' = [m \in Mints |-> basket[m] - share[m]]
      /\ folio' = f
      /\ supply' = supply - shares
      /\ UNCHANGED <<now, ata, basketMints, accounts, minting, feeVars, roles,
                     migrated>>

\* redeem_from_pending_basket: in any status.
RedeemFromPendingBasket(u, b) ==
  /\ u \in accounts
  /\ CanSend(b)
  /\ DOMAIN b \subseteq pendMints[u]
  /\ \A m \in DOMAIN b : redeeming[u][m] >= b[m]
  /\ ata' = Sent(b)
  /\ redeeming' = [redeeming EXCEPT ![u] = [m \in Mints |-> @[m] - Amount(b, m)]]
  /\ pendMints' = [pendMints EXCEPT ![u] = SlotsLeft(u, b, minting[u], redeeming'[u])]
  /\ UNCHANGED <<now, folio, supply, basketMints, basket, accounts, minting,
                 feeVars, roles, migrated>>

\* Slip: only the redeeming side is looked at before an account is closed.
NothingToRedeem(u) == \A m \in Mints : redeeming[u][m] = 0

IsEmpty(u) == \A m \in Mints : minting[u][m] = 0 /\ redeeming[u][m] = 0

\* close_user_pending_token_amount: reset and close the account.
CloseUserPendingTokenAmount(u) ==
  /\ u \in accounts /\ IsEmpty(u)
  /\ accounts' = accounts \ {u}
  /\ pendMints' = [pendMints EXCEPT ![u] = {}]
  /\ minting' = [minting EXCEPT ![u] = [m \in Mints |-> 0]]
  /\ redeeming' = [redeeming EXCEPT ![u] = [m \in Mints |-> 0]]
  /\ UNCHANGED <<now, folio, supply, assetVars, feeVars, roles, migrated>>

-----------------------------------------------------------------------------
(* Fees: poke, distribution, crank *)

PokeFolio ==
  /\ InStatus({"Initialized", "Killed"})
  /\ PokeOk(folio, supply, now, GetFeeDetails)
  /\ folio' = Poke(folio, supply, now, GetFeeDetails)
  /\ UNCHANGED <<now, supply, assetVars, userVars, feeVars, roles, migrated>>

\* !is_empty(): some slot names a real recipient.
HasFeeRecipients == DOMAIN recips.table \ {NoKey} # {}

\* Slip: the DAO's shares are rounded up.
DaoDistributesCeil(f) ==
  ToTokenCeil(f.dao_pending_fee_shares)
    + IF HasFeeRecipients THEN 0
      ELSE ToTokenFloor(f.fee_recipients_pending_fee_shares)

\* distribute_fees, shared by the crank, update_folio and the admin program:
\* whole raw shares are paid out and the remainders below D9 stay pending.
DaoDistributes(f) ==
  ToTokenFloor(f.dao_pending_fee_shares)
    + IF HasFeeRecipients THEN 0
      ELSE ToTokenFloor(f.fee_recipients_pending_fee_shares)

RecipientsDistribute(f) ==
  FromTokenAmount(ToTokenFloor(f.fee_recipients_pending_fee_shares))

\* f is the folio account that the poke at the start of the call leaves.
DistributeFeesOk(f) ==
  /\ InStatus({"Initialized", "Killed"})
  /\ recips.init /\ recips.index < MaxDistributions
  /\ PokeOk(folio, supply, now, GetFeeDetails)
  /\ DaoDistributes(f) + supply <= MaxU64
  /\ HasFeeRecipients => f.to_be_minted + RecipientsDistribute(f) <= MaxU128

\* The folio account after a distribution.
DistributedFolio(f) ==
  [f EXCEPT
     !.dao_pending_fee_shares =
        SaturatingSub(@, FromTokenAmount(DaoDistributes(f))),
     !.fee_recipients_pending_fee_shares = @ - RecipientsDistribute(f),
     !.to_be_minted = IF HasFeeRecipients THEN @ + RecipientsDistribute(f) ELSE @]

\* A FeeDistribution account snapshots the recipients' table, to be paid out
\* one crank at a time; without recipients it is closed in the same call.
DistributedDists(f, cranker) ==
  IF ~HasFeeRecipients THEN dists
  ELSE LET new == recips.index + 1 IN
       [i \in DOMAIN dists \cup {new} |->
          IF i # new THEN dists[i]
          ELSE [amount |-> RecipientsDistribute(f),
                cranker |-> cranker,
                unpaid |-> Restrict(recips.table, DOMAIN recips.table \ {NoKey})]]

DistributeFees(cranker) ==
  LET f == Poke(folio, supply, now, GetFeeDetails)
  IN  /\ DistributeFeesOk(f)
      /\ folio' = DistributedFolio(f)
      /\ supply' = supply + DaoDistributes(f)
      /\ dists' = DistributedDists(f, cranker)
      /\ recips' = [recips EXCEPT !.index = @ + 1]
      /\ UNCHANGED <<now, assetVars, userVars, feeCfg, roles, migrated>>

\* Slip: a recipient's part is rounded up.
RecipientPaymentCeil(amount, portion) == ToTokenCeil(CeilDiv(amount * portion, D18))

\* What one recipient of a distribution is minted (raw).
RecipientPayment(amount, portion) == ToTokenFloor((amount * portion) \div D18)

PaymentsTo(d, S) ==
  Total([r \in Recipients |-> IF r \in S THEN RecipientPayment(d.amount, d.unpaid[r])
                              ELSE 0], NRecipients)

\* crank_fee_distribution: pays the recipients at the given indices, each at
\* most once, and closes the account when nobody is left.
CrankFeeDistribution(cranker, i, S) ==
  LET d == dists[i]
      paid == PaymentsTo(d, S)
      left == DOMAIN d.unpaid \ S
  IN  /\ InStatus({"Initialized", "Killed"})
      /\ d.cranker = cranker
      /\ S \subseteq DOMAIN d.unpaid
      /\ supply + paid <= MaxU64
      /\ folio.to_be_minted >= FromTokenAmount(paid)
      /\ supply' = supply + paid
      /\ folio' = [folio EXCEPT !.to_be_minted = @ - FromTokenAmount(paid)]
      /\ dists' = IF left = {}
                  THEN Restrict(dists, DOMAIN dists \ {i})
                  ELSE [dists EXCEPT ![i].unpaid = Restrict(@, left)]
      /\ UNCHANGED <<now, assetVars, userVars, recips, feeCfg, roles, migrated>>

-----------------------------------------------------------------------------
(* update_folio and the folio-admin program *)

\* update_fee_recipients: the recipients kept, then the ones added.
NewTable(add, remove) ==
  LET kept  == DOMAIN recips.table \ (remove \cup {NoKey})
      added == DOMAIN add \ remove
  IN  [r \in kept \cup added |-> IF r \in kept THEN recips.table[r] ELSE add[r]]

Portions(t) ==
  Amount(t, NoKey) + Total([r \in Recipients |-> Amount(t, r)], NRecipients)

NewTableOk(add, remove) ==
  LET kept  == DOMAIN recips.table \ (remove \cup {NoKey})
      added == DOMAIN add \ remove
  IN  /\ kept \cap added = {}
      /\ Cardinality(kept) + Cardinality(added) <= MaxRecipients
      /\ Portions(NewTable(add, remove)) = D18

\* update_folio: the first call creates the FeeRecipients account and skips the
\* distribution; later calls that touch a fee distribute first.
UpdateFolio(a, x) ==
  LET touchesTable == x.add # NoTable \/ x.remove # {}
      touchesFees == x.annual # NoFee \/ x.mint_fee # NoFee \/ touchesTable
      distributes == /\ recips.init /\ touchesFees
                     /\ InStatus({"Initialized", "Killed"})
      p == Poke(folio, supply, now, GetFeeDetails)
      f == IF distributes THEN DistributedFolio(p) ELSE folio
  IN  /\ HasRole(a, {"Owner"})
      /\ x.annual # NoFee => SetTvlFeeOk(x.annual)
      /\ x.mint_fee # NoFee => x.mint_fee <= MaxMintFee
      /\ touchesTable => NewTableOk(x.add, x.remove)
      /\ x.length # NoFee => x.length \in MinAuctionLength..MaxAuctionLength
      /\ distributes => DistributeFeesOk(p)
      /\ folio' = [f EXCEPT
           !.tvl_fee = IF x.annual # NoFee
                       THEN ToScaledFloor(PerSecondRate(x.annual)) ELSE @,
           !.mint_fee = IF x.mint_fee # NoFee THEN x.mint_fee ELSE @,
           !.auction_length = IF x.length # NoFee THEN x.length ELSE @]
      /\ supply' = supply + (IF distributes THEN DaoDistributes(p) ELSE 0)
      /\ dists' = IF distributes THEN DistributedDists(p, a) ELSE dists
      /\ recips' = [init |-> TRUE,
                    index |-> recips.index + (IF distributes THEN 1 ELSE 0),
                    table |-> IF touchesTable THEN NewTable(x.add, x.remove)
                              ELSE recips.table]
      /\ UNCHANGED <<now, assetVars, userVars, feeCfg, roles, migrated>>

\* Both arguments of the configuration instructions are optional; one left out
\* keeps its value, or takes the DAO's in a folio's first configuration.
FeeInputOk(fd) == fd.numerator <= MaxDaoFee /\ fd.floor <= MaxFeeFloor

NewFeeConfig(old, fd) ==
  [numerator |-> IF fd.numerator # NoFee THEN fd.numerator ELSE old.numerator,
   floor |-> IF fd.floor # NoFee THEN fd.floor ELSE old.floor]

\* set_dao_fee_config: the default changes for every folio at once; no folio is
\* poked first.
SetDaoFeeConfig(fd) ==
  /\ FeeInputOk(fd)
  /\ feeCfg' = [feeCfg EXCEPT !.dao = NewFeeConfig(@, fd)]
  /\ UNCHANGED <<now, folio, supply, assetVars, userVars, recips, dists, roles,
                 migrated>>

\* set_folio_fee_config: the fees due under the old configuration are
\* distributed first, by a call into the folio program.
SetFolioFeeConfig(fd) ==
  LET f == Poke(folio, supply, now, GetFeeDetails)
  IN  /\ FeeInputOk(fd)
      /\ DistributeFeesOk(f)
      /\ folio' = DistributedFolio(f)
      /\ supply' = supply + DaoDistributes(f)
      /\ dists' = DistributedDists(f, Admin)
      /\ recips' = [recips EXCEPT !.index = @ + 1]
      /\ feeCfg' = [feeCfg EXCEPT !.folio = NewFeeConfig(GetFeeDetails, fd)]
      /\ UNCHANGED <<now, assetVars, userVars, roles, migrated>>

-----------------------------------------------------------------------------
(* Roles *)

InitOrUpdateActor(a, b, role) ==
  /\ HasRole(a, {"Owner"})
  /\ roles' = [roles EXCEPT ![b] = @ \cup {role}]
  /\ UNCHANGED <<now, folio, supply, assetVars, userVars, feeVars, migrated>>

\* remove_actor: one role, or the whole account.
RemoveActor(a, b, removed) ==
  /\ HasRole(a, {"Owner"})
  /\ roles' = [roles EXCEPT ![b] = @ \ removed]
  /\ UNCHANGED <<now, folio, supply, assetVars, userVars, feeVars, migrated>>

-----------------------------------------------------------------------------
(* Migration to a successor program *)

\* start_folio_migration: fees accrued to date and almost all of them paid.
StartFolioMigration(a, maxAllowed) ==
  /\ HasRole(a, {"Owner"}) /\ InStatus({"Initialized", "Killed"})
  /\ GetAccountFeeUntil(now) <= folio.last_poke
  /\ folio.dao_pending_fee_shares < maxAllowed
  /\ folio.fee_recipients_pending_fee_shares < maxAllowed
  /\ folio.to_be_minted < maxAllowed
  /\ folio' = [folio EXCEPT !.status = "Migrating"]
  /\ UNCHANGED <<now, supply, assetVars, userVars, feeVars, roles, migrated>>

\* Slip: the whole token account is moved, users' pending tokens included.
WholeAccount(m) == ata[m]

\* migrate_folio_tokens: permissionless; moves the basket's amount of each mint
\* and nothing of what users are owed.
MigratedAmount(m) == basket[m]

MigrateFolioTokens(S) ==
  /\ InStatus({"Migrating"})
  /\ S # {} /\ S \subseteq basketMints
  /\ \A m \in S : ata[m] >= MigratedAmount(m)
  /\ ata' = [m \in Mints |-> ata[m] - IF m \in S THEN MigratedAmount(m) ELSE 0]
  /\ migrated' = [m \in Mints |-> migrated[m] + IF m \in S THEN MigratedAmount(m) ELSE 0]
  /\ basket' = [m \in Mints |-> IF m \in S THEN 0 ELSE basket[m]]
  /\ basketMints' = basketMints \ S
  /\ UNCHANGED <<now, folio, supply, userVars, feeVars, roles>>

-----------------------------------------------------------------------------
Crankers == Actors \cup {Admin}

UserNext ==
  \E u \in Users :
    \/ \E b \in Batches : \/ AddToPendingBasket(u, b)
                          \/ RemoveFromPendingBasket(u, b)
                          \/ RedeemFromPendingBasket(u, b)
    \/ \E s \in ShareAmounts : MintFolioToken(u, s) \/ BurnFolioToken(u, s)
    \/ CloseUserPendingTokenAmount(u)

OwnerNext ==
  \E a \in Actors :
    \/ \E b \in Batches, s \in ShareAmounts \cup {NoShares} : AddToBasket(a, b, s)
    \/ "remove_from_basket" \in Issued /\ \E m \in Mints : RemoveFromBasket(a, m)
    \/ "kill_folio" \in Issued /\ KillFolio(a)
    \/ \E x \in Updates : UpdateFolio(a, x)
    \/ \E b \in Actors : \/ \E r \in Grants : InitOrUpdateActor(a, b, r)
                         \/ \E R \in Revocations : RemoveActor(a, b, R)
    \/ \E x \in MaxAllowedPending : StartFolioMigration(a, x)

CrankNext ==
  \/ "poke_folio" \in Issued /\ PokeFolio
  \/ \E c \in Crankers : DistributeFees(c)
  \/ \E c \in Crankers, i \in DOMAIN dists :
       \E S \in SUBSET DOMAIN dists[i].unpaid : CrankFeeDistribution(c, i, S)
  \/ \E S \in SUBSET Mints : MigrateFolioTokens(S)

AdminNext ==
  \E fd \in FeeDetailInputs : SetDaoFeeConfig(fd) \/ SetFolioFeeConfig(fd)

Next ==
  \/ Tick
  \/ \E b \in Donations : Donate(b)
  \/ UserNext \/ OwnerNext \/ CrankNext \/ AdminNext

Spec == Init /\ [][Next]_vars

\* A user who wants a claim paid keeps sending the withdrawal.  Anyone may crank a
\* distribution (its cranker is named to get the rent back and does not sign), and
\* somebody does; neither instruction waits for anyone else.
Fairness ==
  /\ \A u \in Users, b \in Batches :
       /\ WF_vars(RemoveFromPendingBasket(u, b))
       /\ WF_vars(RedeemFromPendingBasket(u, b))
  /\ \A c \in Crankers, i \in 1..MaxDistributions :
       WF_vars(/\ i \in DOMAIN dists
               /\ \E S \in (SUBSET DOMAIN dists[i].unpaid) \ {{}} :
                     CrankFeeDistribution(c, i, S))

LiveSpec == Spec /\ Fairness

-----------------------------------------------------------------------------
(* What the state is made of *)

AssetTypes ==
  ata \in [Mints -> U64] /\ basketMints \subseteq Mints /\ basket \in [Mints -> U64]

UserTypes ==
  /\ accounts \subseteq Users
  /\ pendMints \in [Users -> SUBSET Mints]
  /\ minting \in [Users -> [Mints -> U64]]
  /\ redeeming \in [Users -> [Mints -> U64]]

FeeTypes ==
  /\ recips \in [init: BOOLEAN, index: 0..MaxDistributions, table: Tables(Keys)]
  /\ DOMAIN dists \subseteq 1..recips.index
  /\ \A i \in DOMAIN dists : dists[i] \in Distributions
  /\ feeCfg \in [dao: FeeDetails, folio: FeeDetails \cup {NoFeeConfig}]

\* The accounts keep the types of state.rs: every amount stays within its
\* unsigned width through accruals, mint fees, distributions and cranks, and an
\* open distribution has an index already handed out.
TypeOK ==
  /\ now \in Nat /\ folio \in FolioRecord /\ supply \in U64
  /\ AssetTypes /\ UserTypes /\ FeeTypes
  /\ roles \in [Actors -> SUBSET Roles]
  /\ migrated \in [Mints -> Nat]

\* What the folio owes its users in a mint: deposits not yet minted with and
\* redemptions not yet collected.
Claim(u, m) == minting[u][m] + redeeming[u][m]
Owed(m) == Total([u \in Users |-> Claim(u, m)], NUsers)

\* Custody.  One token account per mint holds the basket's tokens and every
\* user's pending tokens together, while each instruction checks only its own
\* record.  Whatever the interleaving of deposits, mints, burns, redemptions,
\* basket changes, a kill and a migration, the account covers them all: in every
\* mint that backs shares, and in every other one that does not keep a fee of what
\* users deposit, a case that add_to_pending_basket lets in and books in full.
Custody ==
  \A m \in SupportedMints \cup basketMints : ata[m] >= basket[m] + Owed(m)

\* Every claim can be collected: it is recorded in a slot of an existing pending
\* account, which the redemption instructions require, in every status
\* (remove_from_pending_basket and redeem_from_pending_basket check none).
ClaimsReachable ==
  \A u \in Users, m \in Mints :
    Claim(u, m) > 0 => u \in accounts /\ m \in pendMints[u]

\* A basket amount lives in an occupied slot: mint and burn, which visit only
\* occupied slots, miss no part of the backing.
BackingInSlots == \A m \in Mints : basket[m] > 0 => m \in basketMints

\* The shares reserved for open fee distributions cover every payment still to
\* be made, so crank_fee_distribution's checked_sub never strands a recipient.
DistributionsCovered ==
  Total([i \in 1..MaxDistributions |->
           IF i \in DOMAIN dists
           THEN FromTokenAmount(PaymentsTo(dists[i], DOMAIN dists[i].unpaid)) ELSE 0],
        MaxDistributions) <= folio.to_be_minted

-----------------------------------------------------------------------------
(* What a step may never do *)

\* Claims are honoured: a user's claim falls only by being paid out of the token
\* account or by becoming backing of the shares that the same step mints.
ClaimsHonoured ==
  [][\A u \in Users, m \in Mints :
       Claim(u, m)' < Claim(u, m) =>
         \/ ata'[m] = ata[m] - (Claim(u, m) - Claim(u, m)')
         \/ /\ basket'[m] = basket[m] + (Claim(u, m) - Claim(u, m)')
            /\ GetTotalSupply(folio', supply') > GetTotalSupply(folio, supply)]_vars

\* No instruction spends the surplus: tokens in the account beyond the basket and
\* the claims (donations, removed basket tokens) are never paid to anyone.  Not of a
\* mint with a transfer fee, of which a deposit adds less than it books.
Surplus(m) == ata[m] - basket[m] - Owed(m)

SurplusNeverSpent == [][\A m \in SupportedMints : Surplus(m)' >= Surplus(m)]_vars

\* The supply every holder is diluted to once the fees due now are accrued.
AccruedSupply ==
  GetTotalSupply(IF PokeOk(folio, supply, now, GetFeeDetails)
                 THEN Poke(folio, supply, now, GetFeeDetails) ELSE folio, supply)

\* No dilution: as long as no basket token is dropped, no step lowers what a
\* share is worth in any basket token below the accrual of fees already due,
\* except by the rounding of one scaled unit (1/D9 of a base unit) per step.
\* Covers mint and burn rounding, mint fees, distributions and cranks.
NoDilution ==
  [][(folio.status # "Initializing" /\ basketMints \subseteq basketMints') =>
       \A m \in basketMints :
         (FromTokenAmount(basket'[m]) + 1) * AccruedSupply
           >= FromTokenAmount(basket[m]) * GetTotalSupply(folio', supply')]_vars

\* A killed folio is wound down: it is never reopened, nothing is deposited into
\* it or minted but fees, and a migrating folio never leaves that status.
WindDown ==
  [][/\ folio.status = "Killed" =>
          /\ folio'.status \in {"Killed", "Migrating"}
          /\ GetTotalSupply(folio', supply') <= AccruedSupply
          /\ \A u \in Users, m \in Mints : minting'[u][m] <= minting[u][m]
     /\ folio.status = "Migrating" => folio'.status = "Migrating"]_vars

\* The successor receives exactly what backed the shares: a migration moves a
\* mint's basket amount once and leaves every claim behind, covered.
MigrationMovesBacking ==
  [][\A m \in Mints :
       migrated'[m] # migrated[m] =>
         /\ migrated'[m] - migrated[m] = basket[m]
         /\ ata'[m] >= Owed(m)' /\ Owed(m)' = Owed(m)]_vars

-----------------------------------------------------------------------------
(* What must eventually happen *)

\* Once a folio is killed or migrating, every claim of a user who keeps asking is
\* paid in full, although others burn, fees accrue, the owner migrates the basket out
\* of the same token accounts and a mint with a transfer fee lies in other slots.
ClaimsCollected ==
  \A u \in Users, m \in SupportedMints :
    folio.status \in {"Killed", "Migrating"} ~> Claim(u, m) = 0

\* An open distribution is paid to its last recipient and closed, unless the
\* owner starts a migration first, which blocks crank_fee_distribution.
DistributionsPaid ==
  \A i \in 1..MaxDistributions :
    i \in DOMAIN dists ~> (i \notin DOMAIN dists \/ folio.status = "Migrating")

-----------------------------------------------------------------------------
(* What the repository's texts say and the code does not do *)

\* README.md and test_set_tvl_fee_zero: the fee floor may be lowered and the TVL
\* fee may be zero; poke_folio asks for nothing but an open or killed folio.
PokeAvailable ==
  folio.status \in {"Initialized", "Killed"} =>
    PokeOk(folio, supply, now, GetFeeDetails)

=============================================================================
