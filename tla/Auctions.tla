------------------------------ MODULE Auctions ------------------------------
(***************************************************************************)
(* Rebalancing of a folio by dutch auctions (instructions/auction of       *)
(* programs/folio, with utils/accounts/rebalance.rs, auction.rs and        *)
(* auction_ends.rs), composed with the instructions of module Folio: all   *)
(* of them read and write the same folio, basket and token accounts.       *)
(*                                                                         *)
(* A rebalance fixes, per token, a range of amounts per share and a range  *)
(* of prices; auctions of one token for another are opened inside those    *)
(* ranges, several pairs at a time, and anyone bids in them, or in the     *)
(* auctions of another folio, which bid does not tell from this folio's.   *)
(***************************************************************************)
EXTENDS Folio

CONSTANTS
  MaxRate,              \* MAX_RATE, D18 {tok/share}
  MaxTokenPrice,        \* MAX_TOKEN_PRICE
  MaxTokenPriceRange,   \* MAX_TOKEN_PRICE_RANGE
  MaxTTL,               \* MAX_TTL
  MaxDetails            \* MAX_REBALANCE_DETAILS_TOKENS

\* Inputs and bounds of a model.
CONSTANTS
  DetailBatches,  \* functions from mints to [low, spot, high, price_low, price_high]
  RebalanceTimes, \* <<auction_launcher_window, ttl>>
  Configs,        \* the launcher's [sell_limit, buy_limit, start_price, end_price]
  Bids,           \* [sell_amount, max_buy_amount, extra]
  ForeignAuctions, \* Auction accounts of other folios, of whatever nonce is needed
  MaxNonce,       \* bound on the number of rebalances
  MaxAuctions     \* bound on the auctions of one rebalance

VARIABLES
  rebalance,    \* the Rebalance account
  auctions,     \* Auction accounts by <<nonce, id>>
  auctionEnds,  \* end_time of the AuctionEnds accounts by <<nonce, {mint, mint}>>
  released      \* history: the pairs ended by a bid in a foreign auction

auctionVars == <<rebalance, auctions, auctionEnds, released>>
allVars == <<vars, auctionVars>>

TokenDetails == [low: Nat, spot: Nat, high: Nat, price_low: Nat, price_high: Nat]

ASSUME AuctionAssumption ==
  /\ MaxRate \in Nat /\ MaxTokenPrice \in Nat /\ MaxTokenPriceRange \in Nat
  /\ MaxTTL \in Nat /\ MaxDetails \in Nat \ {0}
  /\ MaxNonce \in Nat /\ MaxAuctions \in Nat
  /\ \A d \in DetailBatches :
        /\ DOMAIN d \subseteq Mints /\ IsFiniteSet(DOMAIN d)
        /\ \A m \in DOMAIN d : d[m] \in TokenDetails
  /\ RebalanceTimes \subseteq Nat \X Nat
  /\ Configs \subseteq [sell_limit: Nat, buy_limit: Nat,
                        start_price: Nat, end_price: Nat]
  /\ ForeignAuctions \subseteq
        [sell: Mints, buy: Mints, sell_limit: Nat, buy_limit: Nat,
         start: Nat, end: Nat, start_price: Nat, end_price: Nat]
  /\ \A auc \in ForeignAuctions : auc.sell # auc.buy
  /\ Bids \subseteq [sell_amount: U64, max_buy_amount: U64, extra: U64]

NoDetails == [m \in {} |-> 0]

AuctionInit ==
  /\ Init
  /\ rebalance = [nonce |-> 0, started_at |-> 0, restricted_until |-> 0,
                  available_until |-> 0, ready |-> FALSE,
                  current_auction_id |-> 0, details |-> NoDetails]
  /\ auctions = [k \in {} |-> 0]
  /\ auctionEnds = [k \in {} |-> 0]
  /\ released = {}

-----------------------------------------------------------------------------
(* Starting a rebalance *)

LimitsOk(t) ==
  /\ t.high <= MaxRate /\ t.low <= t.spot /\ t.spot <= t.high
  /\ t.low # 0 \/ t.high = 0

PricesOk(t, deferred) ==
  IF deferred THEN t.price_low = 0 /\ t.price_high = 0
  ELSE /\ t.price_low # 0 /\ t.price_high # 0
       /\ t.price_low <= t.price_high /\ t.price_high <= MaxTokenPrice
       /\ t.price_high \div t.price_low <= MaxTokenPriceRange

\* Slip: no limit on the number of tokens.
FitsAlways(old, new, kept) == kept = DOMAIN new

\* The first tokens of a vector fill the free slots; the ones after them are
\* dropped without an error.
Fits(old, new, kept) ==
  LET free == MaxDetails - Cardinality(DOMAIN old)
  IN  /\ kept \subseteq DOMAIN new
      /\ Cardinality(kept) = IF Cardinality(DOMAIN new) <= free
                             THEN Cardinality(DOMAIN new) ELSE free

\* add_rebalance_details: prices are deferred for all tokens or for none.
AddDetailsOk(old, new, kept) ==
  /\ IsSupported(DOMAIN new)
  /\ \E deferred \in BOOLEAN :
       /\ \A m \in DOMAIN old : deferred = (old[m].price_low = 0)
       /\ \A m \in kept : /\ m \notin DOMAIN old
                          /\ LimitsOk(new[m]) /\ PricesOk(new[m], deferred)

AddedDetails(old, new, kept) ==
  [m \in DOMAIN old \cup kept |-> IF m \in kept THEN new[m] ELSE old[m]]

\* start_rebalance: a new nonce supersedes every auction of the old one.
StartRebalance(a, times, new, kept, ready) ==
  LET fee == GetFeeDetails IN
  /\ HasRole(a, {"RebalanceManager"}) /\ InStatus({"Initialized"})
  /\ PokeOk(folio, supply, now, fee)
  /\ times[2] <= MaxTTL /\ times[2] >= times[1]
  /\ rebalance.nonce < MaxNonce
  /\ Fits(NoDetails, new, kept) /\ AddDetailsOk(NoDetails, new, kept)
  /\ folio' = Poke(folio, supply, now, fee)
  /\ rebalance' = [nonce |-> rebalance.nonce + 1,
                   started_at |-> now,
                   restricted_until |-> now + times[1],
                   available_until |-> now + times[2],
                   ready |-> ready,
                   current_auction_id |-> 0,
                   details |-> AddedDetails(NoDetails, new, kept)]
  /\ UNCHANGED <<now, supply, assetVars, userVars, feeVars, roles, migrated,
                 auctions, auctionEnds, released>>

\* add_rebalance_details: until the details have been declared complete.
AddRebalanceDetails(a, new, kept, ready) ==
  /\ HasRole(a, {"RebalanceManager"}) /\ InStatus({"Initialized"})
  /\ rebalance.nonce > 0 /\ ~rebalance.ready
  /\ Fits(rebalance.details, new, kept) /\ AddDetailsOk(rebalance.details, new, kept)
  /\ rebalance' = [rebalance EXCEPT
                     !.details = AddedDetails(@, new, kept), !.ready = ready]
  /\ UNCHANGED <<vars, auctions, auctionEnds, released>>

-----------------------------------------------------------------------------
(* Opening and closing an auction *)

\* The raw balance at which a token reaches a limit, for the total supply T.
SellLimitBalance(limit, T) == ToTokenCeil((T * limit) \div D18)
BuyLimitBalance(limit, T) == ToTokenFloor((T * limit) \div D18)

StartPrice(sell, buy) == ToScaledCeil((sell.price_high * D18) \div buy.price_low)
EndPrice(sell, buy) == ToScaledCeil((sell.price_low * D18) \div buy.price_high)

\* Slip: the collision check reads an end time that is never set.
NoEndTime(nonce, s, b) == 0

EndTime(nonce, s, b) ==
  IF <<nonce, {s, b}>> \in DOMAIN auctionEnds THEN auctionEnds[<<nonce, {s, b}>>]
  ELSE 0

\* The checks that open_auction and open_auction_permissionless share, for the
\* chosen limits and the total supply T.
OpenOk(s, b, sellLimit, buyLimit, T) ==
  LET d == rebalance.details IN
  /\ InStatus({"Initialized"})
  /\ rebalance.nonce > 0 /\ rebalance.ready
  /\ now >= rebalance.started_at /\ now <= rebalance.available_until
  /\ s # b /\ {s, b} \subseteq DOMAIN d
  /\ now > EndTime(rebalance.nonce, s, b)
  /\ sellLimit \in d[s].low..d[s].high /\ buyLimit \in d[b].low..d[b].high
  /\ s \in basketMints /\ basket[s] > SellLimitBalance(sellLimit, T)
  /\ basket[b] < BuyLimitBalance(buyLimit, T)

\* Slip: only the spot limits are updated, the launcher's range is not.
SpotOnly(d, s, b, sellLimit, buyLimit) ==
  [d EXCEPT ![s].spot = sellLimit, ![b].spot = buyLimit]

\* The limits of the rebalance narrowed to an auction: the sold token may not be
\* bought back above its limit, nor the bought one sold below.
NarrowedDetails(d, s, b, sellLimit, buyLimit) ==
  [d EXCEPT ![s].spot = sellLimit, ![s].high = sellLimit,
            ![b].spot = buyLimit, ![b].low = buyLimit]

\* The accounts f with one that is created, or written again, under the key k.
WithAccount(f, k, account) ==
  [j \in DOMAIN f \cup {k} |-> IF j = k THEN account ELSE f[j]]

OpenedAuction(s, b, sellLimit, buyLimit, startPrice, endPrice, f) ==
  LET id == rebalance.current_auction_id + 1
      end == now + f.auction_length
  IN  /\ id <= MaxAuctions
      /\ folio' = f
      /\ rebalance' = [rebalance EXCEPT
           !.current_auction_id = id,
           !.details = NarrowedDetails(@, s, b, sellLimit, buyLimit)]
      /\ auctions' = WithAccount(auctions, <<rebalance.nonce, id>>,
           [sell |-> s, buy |-> b, sell_limit |-> sellLimit,
            buy_limit |-> buyLimit, start |-> now, end |-> end,
            start_price |-> startPrice, end_price |-> endPrice])
      /\ auctionEnds' = WithAccount(auctionEnds, <<rebalance.nonce, {s, b}>>, end)
      /\ UNCHANGED <<now, supply, assetVars, userVars, feeVars, roles, migrated,
                     released>>

\* open_auction: the launcher chooses limits in range and may raise prices.
OpenAuction(a, s, b, c) ==
  LET fee == GetFeeDetails
      f == Poke(folio, supply, now, fee)
      d == rebalance.details
  IN  /\ HasRole(a, {"AuctionLauncher"})
      /\ PokeOk(folio, supply, now, fee)
      /\ OpenOk(s, b, c.sell_limit, c.buy_limit, GetTotalSupply(f, supply))
      /\ d[b].price_low # 0 =>
           /\ c.start_price >= StartPrice(d[s], d[b])
           /\ c.start_price <= 100 * StartPrice(d[s], d[b])
           /\ c.end_price >= EndPrice(d[s], d[b])
      /\ OpenedAuction(s, b, c.sell_limit, c.buy_limit, c.start_price, c.end_price, f)

\* open_auction_permissionless: after the launcher's window, at the spot limits
\* and the prices of the rebalance.
OpenAuctionPermissionless(s, b) ==
  LET fee == GetFeeDetails
      f == Poke(folio, supply, now, fee)
      d == rebalance.details
  IN  /\ PokeOk(folio, supply, now, fee)
      /\ {s, b} \subseteq DOMAIN d
      /\ now >= rebalance.restricted_until
      /\ d[b].price_low # 0
      /\ OpenOk(s, b, d[s].spot, d[b].spot, GetTotalSupply(f, supply))
      /\ OpenedAuction(s, b, d[s].spot, d[b].spot,
                       StartPrice(d[s], d[b]), EndPrice(d[s], d[b]), f)

\* Slip: the pair is released but the auction stays open.
ReleasePairOnly(k) ==
  /\ UNCHANGED auctions
  /\ auctionEnds' =
       [auctionEnds EXCEPT ![<<k[1], {auctions[k].sell, auctions[k].buy}>>] = now - 1]

\* An auction and the end time kept for its pair are ended together.
EndAuction(k) ==
  /\ auctions' = [auctions EXCEPT ![k].end = now - 1]
  /\ auctionEnds' =
       [auctionEnds EXCEPT ![<<k[1], {auctions[k].sell, auctions[k].buy}>>] = now - 1]

\* Slip: an auction that has already ended is ended once more.
CloseAgain(a, k) ==
  /\ HasRole(a, {"Owner", "RebalanceManager", "AuctionLauncher"})
  /\ InStatus({"Initialized", "Initializing"})
  /\ now > 0 /\ EndAuction(k)
  /\ UNCHANGED <<vars, rebalance, released>>

CloseAuction(a, k) ==
  /\ HasRole(a, {"Owner", "RebalanceManager", "AuctionLauncher"})
  /\ InStatus({"Initialized", "Initializing"})
  /\ IF auctions[k].end > now
     THEN now > 0 /\ EndAuction(k)
     ELSE UNCHANGED <<auctions, auctionEnds>>
  /\ UNCHANGED <<vars, rebalance, released>>

-----------------------------------------------------------------------------
(* Bidding *)

IsOpen(auc) == auc.start <= now /\ now <= auc.end

\* get_price: exact at both ends; in between, the exponential decay is
\* abstracted to its bounds (rounded up, never below the end price).  The
\* logarithm fails when the end price is zero or above the start price.
GetPrice(auc) ==
  CASE now = auc.start -> {auc.start_price}
    [] now # auc.start /\ now = auc.end -> {auc.end_price}
    [] OTHER -> IF auc.end_price \in 1..auc.start_price
                THEN auc.end_price..(auc.start_price + 1) ELSE {}

\* Slip: only the sell side bounds a bid.
SellSideOnly(auc, price, T) ==
  SaturatingSub(basket[auc.sell], SellLimitBalance(auc.sell_limit, T))

\* get_bid: how much of the sell token is on offer ...
SellAvailable(auc, price, T) ==
  LET fromSell == SaturatingSub(basket[auc.sell], SellLimitBalance(auc.sell_limit, T))
      buyRoom  == SaturatingSub(BuyLimitBalance(auc.buy_limit, T), basket[auc.buy])
      fromBuy  == ToTokenFloor((FromTokenAmount(buyRoom) * D18) \div price)
  IN  IF fromBuy < fromSell THEN fromBuy ELSE fromSell

\* ... and what it costs.
BidAmount(amount, price) == ToTokenFloor((FromTokenAmount(amount) * price) \div D18)

\* get_token_presence_per_share_in_basket
Presence(balance, T) ==
  IF balance = 0 \/ T = 0 THEN 0
  ELSE ToScaledCeil((FromTokenAmount(balance) * D18) \div T)

\* Slip: the callback's payment is not verified.
AtaAfterUnpaidBid(auc, sold, received) == [ata EXCEPT ![auc.sell] = @ - sold]

AtaAfterBid(auc, sold, received) ==
  [ata EXCEPT ![auc.sell] = @ - sold, ![auc.buy] = @ + received]

\* What bid does in an auction: x.sell_amount is sold to the bidder, who pays by a
\* transfer or, in a callback that may not reenter this program, at least the price
\* (x.extra is what it sends beyond it).
Trade(auc, x, price) ==
  LET fee == GetFeeDetails
      f == Poke(folio, supply, now, fee)
      T == GetTotalSupply(f, supply)
      bought == BidAmount(x.sell_amount, price)
      sellLeft == basket[auc.sell] - x.sell_amount
      buyNow == basket[auc.buy] + bought
  IN  /\ InStatus({"Initialized"})
      /\ IsOpen(auc)
      /\ IsSupported({auc.buy})
      /\ PokeOk(folio, supply, now, fee)
      /\ price # 0
      /\ auc.sell \in basketMints
      /\ SellAvailable(auc, price, T) >= x.sell_amount
      /\ bought # 0 /\ bought <= x.max_buy_amount
      /\ sellLeft >= 0
      /\ Presence(sellLeft, T) >= auc.sell_limit
      /\ ata[auc.sell] >= x.sell_amount
      /\ ata[auc.buy] + bought + x.extra <= MaxU64
      /\ buyNow <= MaxU64
      /\ LET left == basketMints \ (IF sellLeft = 0 THEN {auc.sell} ELSE {})
         IN  /\ Cardinality(left \cup {auc.buy}) <= MaxBasketTokens
             /\ basketMints' = left \cup {auc.buy}
      /\ basket' = [basket EXCEPT ![auc.sell] = sellLeft, ![auc.buy] = buyNow]
      /\ ata' = AtaAfterBid(auc, x.sell_amount, bought + x.extra)
      /\ folio' = f
      /\ UNCHANGED <<now, supply, userVars, feeVars, roles, migrated, rebalance>>

\* A trade that leaves a balance at its limit ends the auction.
ReachesLimit(auc) ==
  LET T == GetTotalSupply(folio', supply)
  IN  \/ Presence(basket'[auc.sell], T) = auc.sell_limit
      \/ Presence(basket'[auc.buy], T) >= auc.buy_limit

\* bid, in an auction of this folio's current rebalance.
Bid(k, x, price) ==
  /\ k[1] = rebalance.nonce
  /\ Trade(auctions[k], x, price)
  /\ IF ReachesLimit(auctions[k])
     THEN now > 0 /\ EndAuction(k)
     ELSE UNCHANGED <<auctions, auctionEnds>>
  /\ UNCHANGED released

\* bid, in an auction of another folio.  Its handler compares the auction's nonce and
\* its pair, through the AuctionEnds account, with this folio's, and never asks whose
\* auction it is: the trade is made under the limits and the prices of the other
\* folio's owner, and the end is written to that auction and to this folio's pair.
ForeignBid(auc, x, price) ==
  LET pair == <<rebalance.nonce, {auc.sell, auc.buy}>>
  IN  /\ pair \in DOMAIN auctionEnds
      /\ Trade(auc, x, price)
      /\ IF ReachesLimit(auc)
         THEN /\ now > 0
              /\ auctionEnds' = [auctionEnds EXCEPT ![pair] = now - 1]
              /\ released' = released \cup {pair}
         ELSE UNCHANGED <<auctionEnds, released>>
      /\ UNCHANGED auctions

-----------------------------------------------------------------------------
RebalanceNext ==
  \E a \in Actors, new \in DetailBatches, ready \in BOOLEAN :
    \E kept \in SUBSET DOMAIN new :
      \/ \E times \in RebalanceTimes : StartRebalance(a, times, new, kept, ready)
      \/ AddRebalanceDetails(a, new, kept, ready)

AuctionNext ==
  \/ \E s, b \in Mints :
       \/ \E a \in Actors, c \in Configs : OpenAuction(a, s, b, c)
       \/ OpenAuctionPermissionless(s, b)
  \/ \E k \in DOMAIN auctions :
       \/ \E a \in Actors : CloseAuction(a, k)
       \/ \E x \in Bids, price \in GetPrice(auctions[k]) : Bid(k, x, price)
  \/ \E auc \in ForeignAuctions, x \in Bids :
       \E price \in GetPrice(auc) : ForeignBid(auc, x, price)

FolioNext == Next /\ UNCHANGED auctionVars

SystemNext == FolioNext \/ RebalanceNext \/ AuctionNext

AuctionSpec == AuctionInit /\ [][SystemNext]_allVars

-----------------------------------------------------------------------------
(* Properties *)

\* The accounts of a rebalance keep their shape: nonces and ids are those handed
\* out, every auction is of two different tokens and has its pair's end time.
AuctionTypeOK ==
  /\ TypeOK
  /\ rebalance.nonce \in 0..MaxNonce
  /\ DOMAIN rebalance.details \subseteq Mints /\ released \subseteq DOMAIN auctionEnds
  /\ Cardinality(DOMAIN rebalance.details) <= MaxDetails
  /\ \A m \in DOMAIN rebalance.details : rebalance.details[m] \in TokenDetails
  /\ \A k \in DOMAIN auctions :
       /\ k[1] \in 1..rebalance.nonce /\ k[2] \in 1..MaxAuctions
       /\ k[1] = rebalance.nonce => k[2] <= rebalance.current_auction_id
       /\ auctions[k].sell # auctions[k].buy
       /\ <<k[1], {auctions[k].sell, auctions[k].buy}>> \in DOMAIN auctionEnds

\* No double trading: within one rebalance, no auction may buy a token above the
\* level down to which another one sells it, so that selling and buying back
\* the same token cannot be repeated at the folio's expense, whatever limits
\* the launcher picks and in whatever order pairs are opened and closed.
NoDoubleTrading ==
  \A j, k \in DOMAIN auctions :
    (j[1] = k[1] /\ auctions[j].sell = auctions[k].buy)
      => auctions[j].sell_limit >= auctions[k].buy_limit

\* Not after a bid in a foreign auction ended the pair, which leaves this folio's own
\* auction of it open; no other instruction does that.
Released(k) == <<k[1], {auctions[k].sell, auctions[k].buy}>> \in released

\* At most one auction of a pair of tokens, in either direction, is open at any
\* time in a rebalance: AuctionEnds is keyed by pair and shared by all of them.
OneAuctionPerPair ==
  \A j, k \in DOMAIN auctions :
    (/\ j[1] = k[1] /\ IsOpen(auctions[j]) /\ IsOpen(auctions[k])
     /\ {auctions[j].sell, auctions[j].buy} = {auctions[k].sell, auctions[k].buy}
     /\ ~Released(k))
      => j = k

\* The end time kept for a pair is the one of its open auction: closing and
\* filling an auction update two accounts, never one without the other, except
\* by a bid in a foreign auction.
EndsAgree ==
  \A k \in DOMAIN auctions :
    IsOpen(auctions[k]) /\ ~Released(k) =>
      auctionEnds[<<k[1], {auctions[k].sell, auctions[k].buy}>>] = auctions[k].end

\* The launcher's start price may be the lower one: open_auction compares each price
\* with the rebalance's, not with the other.
LowerPrice(auc) ==
  IF auc.start_price < auc.end_price THEN auc.start_price ELSE auc.end_price

\* The auctions that bid takes for one of the current rebalance.
Biddable ==
  {auctions[k] : k \in {j \in DOMAIN auctions : j[1] = rebalance.nonce}}
    \cup ForeignAuctions

\* Every trade is an auctioned one: when a step turns basket tokens s into basket
\* tokens b, this folio's current rebalance has had an auction of that pair, some
\* biddable auction is open for it, the folio is paid at least the lower of that
\* auction's two prices (rounded down), and neither of its limits is crossed at the
\* total supply after accrual.
TradesWithinLimits ==
  [][\A s, b \in Mints :
       (basket'[s] < basket[s] /\ basket'[b] > basket[b]) =>
         /\ <<rebalance.nonce, {s, b}>> \in DOMAIN auctionEnds
         /\ \E auc \in Biddable :
              LET T == GetTotalSupply(folio', supply')
              IN  /\ auc.sell = s /\ auc.buy = b /\ IsOpen(auc)
                  /\ basket'[b] - basket[b]
                       >= ToTokenFloor((FromTokenAmount(basket[s] - basket'[s])
                                          * LowerPrice(auc)) \div D18)
                  /\ basket'[s] >= SellLimitBalance(auc.sell_limit, T)
                  /\ basket'[b] <= BuyLimitBalance(auc.buy_limit, T)]_allVars

\* An auction that has ended, by time, by close_auction or by a bid that reached
\* a limit, is never open again, and nothing but its end time ever changes.
EndedForGood ==
  [][\A k \in DOMAIN auctions :
       /\ k \in DOMAIN auctions'
       /\ [auctions[k] EXCEPT !.end = 0] = [auctions'[k] EXCEPT !.end = 0]
       /\ auctions[k].end < now => auctions'[k] = auctions[k]]_allVars

=============================================================================
