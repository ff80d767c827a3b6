--------------------------- MODULE AuctionsProofs ---------------------------
(***************************************************************************)
(* Auctions for every number of tokens, rebalances and auctions, whatever  *)
(* limits and prices the launcher chooses and whatever auctions of other   *)
(* folios are bid in: types, one open auction for each pair that no such   *)
(* bid has ended, no double trading, trades within limits and prices, and  *)
(* the custody of module CustodyProofs with bids among the instructions.   *)
(***************************************************************************)
EXTENDS Auctions, CustodyProofs, FiniteSetTheorems

-----------------------------------------------------------------------------
(* Types *)

AuctionRecord ==
  [sell : Mints, buy : Mints, sell_limit : Nat, buy_limit : Nat,
   start : Nat, end : Nat, start_price : Nat, end_price : Nat]

DetailTables == UNION {[S -> TokenDetails] : S \in SUBSET Mints}

RebalanceRecord ==
  [nonce : 0..MaxNonce, started_at : Nat, restricted_until : Nat, available_until : Nat,
   ready : BOOLEAN, current_auction_id : Nat, details : DetailTables]

\* The key of the end time kept for the pair of an auction.
PairKey(k, auc) == <<k[1], {auc.sell, auc.buy}>>

RebalanceTypes ==
  /\ rebalance \in RebalanceRecord
  /\ IsFiniteSet(DOMAIN rebalance.details)
  /\ Cardinality(DOMAIN rebalance.details) <= MaxDetails
  /\ \A m \in DOMAIN rebalance.details :
       rebalance.details[m].price_low = 0 <=> rebalance.details[m].price_high = 0

AuctionTypes ==
  /\ \A k \in DOMAIN auctions :
       /\ k \in (1..rebalance.nonce) \X (1..MaxAuctions)
       /\ k[1] = rebalance.nonce =>
            /\ k[2] <= rebalance.current_auction_id
            /\ {auctions[k].sell, auctions[k].buy} \subseteq DOMAIN rebalance.details
       /\ auctions[k] \in AuctionRecord
       /\ auctions[k].sell # auctions[k].buy
       /\ auctions[k].start <= now
       /\ PairKey(k, auctions[k]) \in DOMAIN auctionEnds
  /\ \A x \in DOMAIN auctionEnds : auctionEnds[x] \in Nat
  /\ released \subseteq DOMAIN auctionEnds

AuctionTypeInv == TypeOK /\ RebalanceTypes /\ AuctionTypes

LEMMA TypeInvTypeOK == AuctionTypeInv => AuctionTypeOK
<1> SUFFICES ASSUME AuctionTypeInv PROVE AuctionTypeOK
  OBVIOUS
<1>1. PICK S \in SUBSET Mints : rebalance.details \in [S -> TokenDetails]
  BY DEF AuctionTypeInv, RebalanceTypes, RebalanceRecord, DetailTables
<1>2. \A k \in DOMAIN auctions :
        /\ k[1] \in 1..rebalance.nonce /\ k[2] \in 1..MaxAuctions
        /\ k[1] = rebalance.nonce => k[2] <= rebalance.current_auction_id
        /\ auctions[k].sell # auctions[k].buy
        /\ <<k[1], {auctions[k].sell, auctions[k].buy}>> \in DOMAIN auctionEnds
  BY DEF AuctionTypeInv, AuctionTypes, PairKey
<1>3. released \subseteq DOMAIN auctionEnds
  BY DEF AuctionTypeInv, AuctionTypes
<1> QED BY <1>1, <1>2, <1>3 DEF AuctionTypeInv, AuctionTypeOK, RebalanceTypes, RebalanceRecord

LEMMA DetailsOf ==
  ASSUME RebalanceTypes
  PROVE  /\ DOMAIN rebalance.details \subseteq Mints
         /\ \A m \in DOMAIN rebalance.details :
              /\ rebalance.details[m] \in TokenDetails
              /\ rebalance.details[m].price_low # 0 => rebalance.details[m].price_high # 0
<1>1. PICK S \in SUBSET Mints : rebalance.details \in [S -> TokenDetails]
  BY DEF RebalanceTypes, RebalanceRecord, DetailTables
<1> QED BY <1>1 DEF RebalanceTypes

LEMMA AuctionInitTypes == AuctionInit => AuctionTypeInv
<1> SUFFICES ASSUME AuctionInit PROVE AuctionTypeInv
  OBVIOUS
<1>1. TypeOK
  BY InitType DEF AuctionInit
<1>2. /\ NoDetails \in DetailTables /\ DOMAIN NoDetails = {}
      /\ 0 \in 0..MaxNonce /\ MaxDetails \in Nat
  <2>1. NoDetails \in [{} -> TokenDetails] /\ DOMAIN NoDetails = {}
    BY DEF NoDetails
  <2>2. \E S \in SUBSET Mints : NoDetails \in [S -> TokenDetails]
    <3>1. {} \in SUBSET Mints
      OBVIOUS
    <3> QED BY <2>1, <3>1, Zenon
  <2>3. NoDetails \in DetailTables
    BY <2>2 DEF DetailTables
  <2> QED BY <2>1, <2>3, AuctionAssumption
<1>3. RebalanceTypes
  BY <1>2, FS_EmptySet DEF AuctionInit, RebalanceTypes, RebalanceRecord
<1>4. AuctionTypes
  BY DEF AuctionInit, AuctionTypes
<1> QED BY <1>1, <1>3, <1>4 DEF AuctionTypeInv

\* The details of the tokens S: no more than there are slots, both prices or none.
DetailsFor(d, S) ==
  /\ d \in [S -> TokenDetails] /\ S \in SUBSET Mints
  /\ IsFiniteSet(S) /\ Cardinality(S) <= MaxDetails
  /\ \A m \in S : d[m].price_low = 0 <=> d[m].price_high = 0

\* Details are added for tokens that have none, as many as there are free slots.
LEMMA DetailsAdded ==
  ASSUME NEW old, NEW S, DetailsFor(old, S), NEW new \in DetailBatches, NEW kept,
         Fits(old, new, kept), AddDetailsOk(old, new, kept)
  PROVE  /\ DetailsFor(AddedDetails(old, new, kept), S \cup kept)
         /\ \A m \in S : AddedDetails(old, new, kept)[m] = old[m]
<1> USE DEF DetailsFor
<1>1. /\ DOMAIN new \subseteq Mints /\ IsFiniteSet(DOMAIN new)
      /\ \A m \in DOMAIN new : new[m] \in TokenDetails
      /\ MaxDetails \in Nat
  BY AuctionAssumption
<1>2. /\ kept \subseteq DOMAIN new
      /\ Cardinality(kept) =
           IF Cardinality(DOMAIN new) <= MaxDetails - Cardinality(S)
           THEN Cardinality(DOMAIN new) ELSE MaxDetails - Cardinality(S)
  BY DEF Fits
<1>3. IsFiniteSet(kept)
  BY <1>1, <1>2, FS_Subset
<1>4. /\ Cardinality(S) \in Nat /\ Cardinality(kept) \in Nat
      /\ Cardinality(DOMAIN new) \in Nat
  BY <1>1, <1>3, FS_CardinalityType
<1>5. Cardinality(kept) <= MaxDetails - Cardinality(S)
  BY <1>1, <1>2, <1>4
<1>6. IsFiniteSet(S \cup kept) /\ Cardinality(S \cup kept) <= MaxDetails
  <2>1. /\ IsFiniteSet(S \cup kept)
        /\ Cardinality(S \cup kept) =
             Cardinality(S) + Cardinality(kept) - Cardinality(S \cap kept)
    BY <1>3, FS_Union
  <2>2. Cardinality(S \cap kept) \in Nat
    BY FS_Subset, FS_CardinalityType
  <2> QED BY <1>1, <1>4, <1>5, <2>1, <2>2
<1>7. \A m \in kept : /\ m \notin S
                      /\ new[m].price_low = 0 <=> new[m].price_high = 0
  BY DEF AddDetailsOk, PricesOk
<1>8. /\ AddedDetails(old, new, kept) \in [S \cup kept -> TokenDetails]
      /\ \A m \in S : AddedDetails(old, new, kept)[m] = old[m]
      /\ \A m \in kept : AddedDetails(old, new, kept)[m] = new[m]
  BY <1>1, <1>2, <1>7 DEF AddedDetails
<1> QED BY <1>1, <1>2, <1>6, <1>7, <1>8

-----------------------------------------------------------------------------
(* Steps of the folio, and what they share with the auctions *)

\* Time only goes forward, and only with the clock.
LEMMA NowStep ==
  ASSUME TypeOK, [Next]_vars
  PROVE  now' \in Nat /\ now' >= now
<1>0. now \in Nat
  BY DEF TypeOK
<1>1. Tick => now' = now + 1
  BY DEF Tick
<1>2. \A b \in Donations : Donate(b) => now' = now
  BY DEF Donate
<1>3. UserNext => now' = now
  BY DEF UserNext, AddToPendingBasket, RemoveFromPendingBasket, RedeemFromPendingBasket,
         MintFolioToken, BurnFolioToken, CloseUserPendingTokenAmount
<1>4. OwnerNext => now' = now
  BY DEF OwnerNext, AddToBasket, RemoveFromBasket, KillFolio, UpdateFolio,
         InitOrUpdateActor, RemoveActor, StartFolioMigration
<1>5. CrankNext => now' = now
  BY DEF CrankNext, PokeFolio, DistributeFees, CrankFeeDistribution, MigrateFolioTokens
<1>6. AdminNext => now' = now
  BY DEF AdminNext, SetDaoFeeConfig, SetFolioFeeConfig
<1>7. UNCHANGED vars => now' = now
  BY DEF vars
<1> QED BY <1>0, <1>1, <1>2, <1>3, <1>4, <1>5, <1>6, <1>7 DEF Next

\* The folio's instructions leave rebalances and auctions alone.
LEMMA FolioTypes ==
  ASSUME AuctionTypeInv, [Next]_vars, UNCHANGED auctionVars
  PROVE  AuctionTypeInv'
<1>1. TypeOK' /\ now' \in Nat /\ now' >= now /\ now \in Nat
  BY TypeStep, NowStep DEF AuctionTypeInv, TypeOK
<1>2. /\ rebalance' = rebalance /\ auctions' = auctions /\ auctionEnds' = auctionEnds
      /\ released' = released
  BY DEF auctionVars
<1>3. RebalanceTypes'
  BY <1>2 DEF AuctionTypeInv, RebalanceTypes
<1>4. \A k \in DOMAIN auctions : auctions[k].start <= now'
  BY <1>1 DEF AuctionTypeInv, AuctionTypes, AuctionRecord
<1>5. AuctionTypes'
  BY <1>2, <1>4 DEF AuctionTypeInv, AuctionTypes, PairKey
<1> QED BY <1>1, <1>3, <1>5 DEF AuctionTypeInv

\* An instruction that only pokes the folio keeps the types of Folio.
LEMMA PokedTypes ==
  ASSUME TypeOK, PokeOk(folio, supply, now, GetFeeDetails),
         folio' = Poke(folio, supply, now, GetFeeDetails),
         UNCHANGED <<now, supply, assetVars, userVars, feeVars, roles, migrated>>
  PROVE  TypeOK'
<1>1. folio' \in FolioRecord
  BY PokeType DEF TypeOK
<1> QED BY <1>1 DEF TypeOK, AssetTypes, UserTypes, FeeTypes, assetVars, userVars, feeVars

\* Prices derived from a rebalance's are numbers.
LEMMA PriceNat ==
  ASSUME NEW x \in Nat, NEW y \in Nat, y # 0
  PROVE  ToScaledCeil((x * D18) \div y) \in Nat
<1>1. (x * D18) \div y \in Nat
  BY D18Pos, NatOps
<1>2. \A z \in Nat : ToScaledCeil(z) \in Nat
  BY DecimalAssumption DEF ToScaledCeil, SatU128
<1> QED BY <1>1, <1>2

-----------------------------------------------------------------------------
(* Starting a rebalance *)

\* A new rebalance has no auction yet: those there are belong to older nonces.
LEMMA StartRebalanceTypes ==
  ASSUME AuctionTypeInv, NEW a, NEW times \in RebalanceTimes, NEW new \in DetailBatches,
         NEW kept, NEW ready \in BOOLEAN, StartRebalance(a, times, new, kept, ready)
  PROVE  /\ AuctionTypeInv'
         /\ rebalance'.nonce = rebalance.nonce + 1
         /\ UNCHANGED <<auctions, auctionEnds, released, now>>
         /\ UNCHANGED <<assetVars, userVars>>
<1>1. UNCHANGED <<auctions, auctionEnds, released>>
      /\ UNCHANGED <<now, supply, assetVars, userVars, feeVars, roles, migrated>>
  BY DEF StartRebalance
<1>2. TypeOK'
  BY PokedTypes DEF StartRebalance, AuctionTypeInv
<1>3. /\ rebalance.nonce \in Nat /\ MaxNonce \in Nat /\ MaxDetails \in Nat /\ now \in Nat
      /\ times[1] \in Nat /\ times[2] \in Nat /\ rebalance.nonce < MaxNonce
  BY AuctionAssumption DEF AuctionTypeInv, RebalanceTypes, RebalanceRecord, TypeOK,
                           StartRebalance
<1> DEFINE added == AddedDetails(NoDetails, new, kept)
<1>4. DetailsFor(added, {} \cup kept)
  <2>1. NoDetails \in [{} -> TokenDetails]
    BY DEF NoDetails
  <2>2. IsFiniteSet({}) /\ Cardinality({}) <= MaxDetails
    BY <1>3, FS_EmptySet
  <2>3. Fits(NoDetails, new, kept) /\ AddDetailsOk(NoDetails, new, kept)
    BY DEF StartRebalance
  <2>4. DetailsFor(NoDetails, {})
    BY <2>1, <2>2 DEF DetailsFor
  <2> HIDE DEF added
  <2> QED BY <2>3, <2>4, DetailsAdded, Zenon DEF added
<1>5. rebalance' = [nonce |-> rebalance.nonce + 1, started_at |-> now,
                    restricted_until |-> now + times[1],
                    available_until |-> now + times[2], ready |-> ready,
                    current_auction_id |-> 0, details |-> added]
  BY DEF StartRebalance
<1> HIDE DEF added
<1>6. added \in DetailTables /\ DOMAIN added = {} \cup kept
  BY <1>4 DEF DetailTables, DetailsFor
<1>7. RebalanceTypes'
  BY <1>3, <1>4, <1>5, <1>6 DEF RebalanceTypes, RebalanceRecord, DetailsFor
<1>8. AuctionTypes'
  BY <1>1, <1>3, <1>5 DEF AuctionTypeInv, AuctionTypes, PairKey
<1> QED BY <1>1, <1>2, <1>5, <1>7, <1>8 DEF AuctionTypeInv

\* Details are only added: those that auctions were opened with stay.
LEMMA AddRebalanceDetailsTypes ==
  ASSUME AuctionTypeInv, NEW a, NEW new \in DetailBatches, NEW kept, NEW ready \in BOOLEAN,
         AddRebalanceDetails(a, new, kept, ready)
  PROVE  /\ AuctionTypeInv'
         /\ rebalance'.nonce = rebalance.nonce
         /\ DOMAIN rebalance.details \subseteq DOMAIN rebalance'.details
         /\ \A m \in DOMAIN rebalance.details :
              rebalance'.details[m] = rebalance.details[m]
         /\ UNCHANGED <<vars, auctions, auctionEnds, released>>
<1>1. UNCHANGED <<vars, auctions, auctionEnds, released>>
  BY DEF AddRebalanceDetails
<1>2. TypeOK'
  BY <1>1, TypeStep DEF AuctionTypeInv
<1> DEFINE old == rebalance.details
           added == AddedDetails(old, new, kept)
<1>3. PICK S \in SUBSET Mints : old \in [S -> TokenDetails]
  BY DEF AuctionTypeInv, RebalanceTypes, RebalanceRecord, DetailTables
<1>4. DetailsFor(old, S)
  BY <1>3 DEF AuctionTypeInv, RebalanceTypes, DetailsFor
<1>5. Fits(old, new, kept) /\ AddDetailsOk(old, new, kept)
  BY DEF AddRebalanceDetails
<1>6. rebalance' = [rebalance EXCEPT !.details = added, !.ready = ready]
  BY DEF AddRebalanceDetails
<1> HIDE DEF old, added
<1>7. DetailsFor(added, S \cup kept) /\ \A m \in S : added[m] = old[m]
  <2>1. /\ DetailsFor(AddedDetails(old, new, kept), S \cup kept)
        /\ \A m \in S : AddedDetails(old, new, kept)[m] = old[m]
    BY <1>4, <1>5, DetailsAdded
  <2> QED BY <2>1, Zenon DEF added
<1>8. added \in DetailTables /\ DOMAIN added = S \cup kept /\ DOMAIN old = S
  BY <1>3, <1>7 DEF DetailTables, DetailsFor
<1>9. /\ rebalance'.nonce = rebalance.nonce /\ rebalance'.details = added
      /\ rebalance'.current_auction_id = rebalance.current_auction_id
      /\ rebalance' \in RebalanceRecord
  BY <1>6, <1>8 DEF AuctionTypeInv, RebalanceTypes, RebalanceRecord
<1>10. RebalanceTypes'
  BY <1>7, <1>8, <1>9 DEF RebalanceTypes, DetailsFor
<1>11. /\ now' = now /\ auctions' = auctions /\ auctionEnds' = auctionEnds
       /\ released' = released
  BY <1>1 DEF vars
<1>12. AuctionTypes'
  BY <1>8, <1>9, <1>11 DEF AuctionTypeInv, AuctionTypes, PairKey, old
<1> QED BY <1>1, <1>2, <1>7, <1>8, <1>9, <1>10, <1>12 DEF AuctionTypeInv, old

-----------------------------------------------------------------------------
(* Opening, ending and filling an auction *)

\* The two instructions that open an auction check the same things.
LEMMA OpenSteps ==
  ASSUME AuctionTypeInv, NEW s \in Mints, NEW b \in Mints,
         \/ \E a \in Actors, c \in Configs : OpenAuction(a, s, b, c)
         \/ OpenAuctionPermissionless(s, b)
  PROVE  \E sl, bl, sp, ep \in Nat : \E T :
           /\ OpenOk(s, b, sl, bl, T)
           /\ OpenedAuction(s, b, sl, bl, sp, ep, Poke(folio, supply, now, GetFeeDetails))
           /\ PokeOk(folio, supply, now, GetFeeDetails)
<1>1. ASSUME NEW a \in Actors, NEW c \in Configs, OpenAuction(a, s, b, c)
      PROVE  \E sl, bl, sp, ep \in Nat : \E T :
               /\ OpenOk(s, b, sl, bl, T)
               /\ OpenedAuction(s, b, sl, bl, sp, ep, Poke(folio, supply, now, GetFeeDetails))
               /\ PokeOk(folio, supply, now, GetFeeDetails)
  <2>1. /\ c.sell_limit \in Nat /\ c.buy_limit \in Nat
        /\ c.start_price \in Nat /\ c.end_price \in Nat
    BY AuctionAssumption
  <2>2. PICK T : OpenOk(s, b, c.sell_limit, c.buy_limit, T)
    BY <1>1 DEF OpenAuction
  <2>3. /\ OpenedAuction(s, b, c.sell_limit, c.buy_limit, c.start_price, c.end_price,
                         Poke(folio, supply, now, GetFeeDetails))
        /\ PokeOk(folio, supply, now, GetFeeDetails)
    BY <1>1 DEF OpenAuction
  <2> QED BY <2>1, <2>2, <2>3, Zenon
<1>2. ASSUME OpenAuctionPermissionless(s, b)
      PROVE  \E sl, bl, sp, ep \in Nat : \E T :
               /\ OpenOk(s, b, sl, bl, T)
               /\ OpenedAuction(s, b, sl, bl, sp, ep, Poke(folio, supply, now, GetFeeDetails))
               /\ PokeOk(folio, supply, now, GetFeeDetails)
  <2> DEFINE d == rebalance.details
  <2>1. PICK T : OpenOk(s, b, d[s].spot, d[b].spot, T)
    BY <1>2 DEF OpenAuctionPermissionless
  <2>2. /\ OpenedAuction(s, b, d[s].spot, d[b].spot, StartPrice(d[s], d[b]),
                         EndPrice(d[s], d[b]), Poke(folio, supply, now, GetFeeDetails))
        /\ PokeOk(folio, supply, now, GetFeeDetails)
        /\ s \in DOMAIN d /\ b \in DOMAIN d /\ d[b].price_low # 0
    BY <1>2 DEF OpenAuctionPermissionless
  <2>3. d[s] \in TokenDetails /\ d[b] \in TokenDetails /\ d[b].price_high # 0
    BY <2>2, DetailsOf DEF AuctionTypeInv
  <2>4. d[s].spot \in Nat /\ d[b].spot \in Nat
    BY <2>3 DEF TokenDetails
  <2>5. StartPrice(d[s], d[b]) \in Nat /\ EndPrice(d[s], d[b]) \in Nat
    BY <2>2, <2>3, PriceNat DEF TokenDetails, StartPrice, EndPrice
  <2> HIDE DEF d
  <2> QED BY <2>1, <2>2, <2>4, <2>5, Zenon
<1> QED BY <1>1, <1>2

\* The accounts that opening an auction leaves: one new auction, under an id never
\* used before, and the end time of its pair.
NewAuction(kk, new, s, b, sl, bl) ==
  LET pair == <<rebalance.nonce, {s, b}>> IN
  /\ kk = <<rebalance.nonce, rebalance.current_auction_id + 1>>
  /\ kk \in (1..rebalance.nonce) \X (1..MaxAuctions)
  /\ kk \notin DOMAIN auctions
  /\ new \in AuctionRecord
  /\ new.sell = s /\ new.buy = b /\ new.start = now /\ new.end >= now
  /\ new.sell_limit = sl /\ new.buy_limit = bl
  /\ DOMAIN auctions' = DOMAIN auctions \cup {kk}
  /\ auctions'[kk] = new
  /\ \A k \in DOMAIN auctions : auctions'[k] = auctions[k]
  /\ DOMAIN auctionEnds' = DOMAIN auctionEnds \cup {pair}
  /\ auctionEnds'[pair] = new.end
  /\ \A x \in DOMAIN auctionEnds : x # pair => auctionEnds'[x] = auctionEnds[x]

LEMMA OpenedFacts ==
  ASSUME AuctionTypeInv, NEW s \in Mints, NEW b \in Mints,
         NEW sl \in Nat, NEW bl \in Nat, NEW sp \in Nat, NEW ep \in Nat, NEW T,
         OpenOk(s, b, sl, bl, T), PokeOk(folio, supply, now, GetFeeDetails),
         OpenedAuction(s, b, sl, bl, sp, ep, Poke(folio, supply, now, GetFeeDetails))
  PROVE  \E kk, new : NewAuction(kk, new, s, b, sl, bl)
<1> DEFINE f == Poke(folio, supply, now, GetFeeDetails)
           id == rebalance.current_auction_id + 1
           end == now + f.auction_length
           kk == <<rebalance.nonce, id>>
           pair == <<rebalance.nonce, {s, b}>>
           new == [sell |-> s, buy |-> b, sell_limit |-> sl, buy_limit |-> bl,
                   start |-> now, end |-> end, start_price |-> sp, end_price |-> ep]
<1>1. f \in FolioRecord /\ now \in Nat
  BY PokeType DEF AuctionTypeInv, TypeOK
<1>2. end \in Nat /\ end >= now
  BY <1>1 DEF FolioRecord
<1>3. /\ rebalance.nonce \in Nat /\ rebalance.current_auction_id \in Nat
      /\ MaxAuctions \in Nat
  BY AuctionAssumption DEF AuctionTypeInv, RebalanceTypes, RebalanceRecord
<1>4. id <= MaxAuctions /\ rebalance.nonce > 0
  BY DEF OpenedAuction, OpenOk
<1>5. kk \in (1..rebalance.nonce) \X (1..MaxAuctions)
  BY <1>3, <1>4
<1>6. kk \notin DOMAIN auctions
  BY <1>3 DEF AuctionTypeInv, AuctionTypes
<1>7. new \in AuctionRecord
  BY <1>1, <1>2 DEF AuctionRecord
<1>8. /\ auctions' = WithAccount(auctions, kk, new)
      /\ auctionEnds' = WithAccount(auctionEnds, pair, end)
  BY DEF OpenedAuction
<1>9. /\ new.sell = s /\ new.buy = b /\ new.start = now /\ new.end = end
      /\ new.sell_limit = sl /\ new.buy_limit = bl
  OBVIOUS
<1> HIDE DEF f, id, end, kk, pair, new
<1>10. /\ DOMAIN auctions' = DOMAIN auctions \cup {kk} /\ auctions'[kk] = new
       /\ \A k \in DOMAIN auctions : auctions'[k] = auctions[k]
  BY <1>6, <1>8 DEF WithAccount
<1>11. /\ DOMAIN auctionEnds' = DOMAIN auctionEnds \cup {pair}
       /\ auctionEnds'[pair] = end
       /\ \A x \in DOMAIN auctionEnds : x # pair => auctionEnds'[x] = auctionEnds[x]
  BY <1>8 DEF WithAccount
<1>12. /\ kk = <<rebalance.nonce, rebalance.current_auction_id + 1>>
       /\ new.end >= now
  BY <1>2, <1>9 DEF kk, id
<1>13. NewAuction(kk, new, s, b, sl, bl)
  BY <1>5, <1>6, <1>7, <1>9, <1>10, <1>11, <1>12 DEF pair, NewAuction
<1> QED BY <1>13, Zenon

\* Narrowing moves the upper limit of the sold token and the lower of the bought one.
LEMMA NarrowedTypes ==
  ASSUME NEW d, NEW S, DetailsFor(d, S), NEW s \in S, NEW b \in S, s # b,
         NEW sl \in Nat, NEW bl \in Nat
  PROVE  LET e == NarrowedDetails(d, s, b, sl, bl)
         IN  /\ DetailsFor(e, S)
             /\ e[s].high = sl /\ e[s].low = d[s].low
             /\ e[b].low = bl /\ e[b].high = d[b].high
             /\ \A m \in S : m # s /\ m # b => e[m] = d[m]
<1> DEFINE e == NarrowedDetails(d, s, b, sl, bl)
           ds == [d[s] EXCEPT !.spot = sl, !.high = sl]
           d1 == [d EXCEPT ![s] = ds]
           db == [d1[b] EXCEPT !.spot = bl, !.low = bl]
<1>a. d \in [S -> TokenDetails]
  BY DEF DetailsFor
<1>b. ds \in TokenDetails /\ ds.price_low = d[s].price_low /\ ds.price_high = d[s].price_high
  BY <1>a DEF TokenDetails
<1>c. d1 \in [S -> TokenDetails] /\ d1[s] = ds /\ \A m \in S : m # s => d1[m] = d[m]
  BY <1>a, <1>b
<1>f. ds.high = sl /\ ds.low = d[s].low
  BY <1>a DEF TokenDetails
<1> HIDE DEF ds
<1>d. db \in TokenDetails /\ db.price_low = d1[b].price_low /\ db.price_high = d1[b].price_high
  BY <1>c DEF TokenDetails
<1>e. e = [d1 EXCEPT ![b] = db]
  BY <1>a DEF NarrowedDetails, ds
<1>g. db.low = bl /\ db.high = d1[b].high
  BY <1>c DEF TokenDetails
<1> HIDE DEF e, d1, db
<1>1. e \in [S -> TokenDetails] /\ e[b] = db /\ \A m \in S : m # b => e[m] = d1[m]
  BY <1>c, <1>d, <1>e
<1>2. \A m \in S : e[m].price_low = d[m].price_low /\ e[m].price_high = d[m].price_high
  BY <1>1, <1>b, <1>c, <1>d
<1>3. DetailsFor(e, S)
  BY <1>1, <1>2 DEF DetailsFor
<1>4. /\ e[s] = ds /\ e[b] = db /\ d1[b] = d[b]
      /\ \A m \in S : m # s /\ m # b => e[m] = d[m]
  BY <1>1, <1>c
<1> QED BY <1>3, <1>4, <1>f, <1>g DEF e

\* The rebalance after an auction was opened: one more id, the same nonce, the limits
\* of the two tokens narrowed.
LEMMA NarrowedRebalance ==
  ASSUME AuctionTypeInv, NEW s \in Mints, NEW b \in Mints,
         NEW sl \in Nat, NEW bl \in Nat, NEW sp, NEW ep, NEW T, NEW f,
         OpenOk(s, b, sl, bl, T), OpenedAuction(s, b, sl, bl, sp, ep, f)
  PROVE  LET d == rebalance.details
             e == rebalance'.details
         IN  /\ RebalanceTypes' /\ rebalance'.nonce = rebalance.nonce
             /\ rebalance'.current_auction_id = rebalance.current_auction_id + 1
             /\ s # b /\ s \in DOMAIN d /\ b \in DOMAIN d /\ DOMAIN e = DOMAIN d
             /\ e[s].high = sl /\ e[s].low = d[s].low /\ e[b].low = bl /\ e[b].high = d[b].high
             /\ \A m \in DOMAIN d : m # s /\ m # b => e[m] = d[m]
<1> DEFINE d == rebalance.details
           e == NarrowedDetails(d, s, b, sl, bl)
<1>1. PICK S \in SUBSET Mints : d \in [S -> TokenDetails]
  BY DEF AuctionTypeInv, RebalanceTypes, RebalanceRecord, DetailTables
<1>2. DetailsFor(d, S) /\ DOMAIN d = S
  BY <1>1 DEF AuctionTypeInv, RebalanceTypes, DetailsFor
<1>3. s # b /\ s \in S /\ b \in S
  BY <1>2 DEF OpenOk
<1>4. rebalance' = [rebalance EXCEPT
                      !.current_auction_id = rebalance.current_auction_id + 1,
                      !.details = e]
  BY DEF OpenedAuction
<1> HIDE DEF d, e
<1>5. /\ DetailsFor(e, S)
      /\ e[s].high = sl /\ e[s].low = d[s].low /\ e[b].low = bl /\ e[b].high = d[b].high
      /\ \A m \in S : m # s /\ m # b => e[m] = d[m]
  <2>1. LET n == NarrowedDetails(d, s, b, sl, bl)
        IN  /\ DetailsFor(n, S)
            /\ n[s].high = sl /\ n[s].low = d[s].low
            /\ n[b].low = bl /\ n[b].high = d[b].high
            /\ \A m \in S : m # s /\ m # b => n[m] = d[m]
    <3>1. DetailsFor(d, S)
      BY <1>2
    <3>2. s \in S /\ b \in S /\ s # b
      BY <1>3
    <3> QED BY <3>1, <3>2, NarrowedTypes
  <2> QED BY <2>1, Zenon DEF e
<1>6. e \in DetailTables /\ DOMAIN e = S
  BY <1>5 DEF DetailTables, DetailsFor
<1>7. /\ rebalance' \in RebalanceRecord /\ rebalance'.nonce = rebalance.nonce
      /\ rebalance'.current_auction_id = rebalance.current_auction_id + 1
      /\ rebalance'.details = e
  <2>1. rebalance \in RebalanceRecord
    BY DEF AuctionTypeInv, RebalanceTypes
  <2>2. rebalance.current_auction_id + 1 \in Nat
    BY <2>1 DEF RebalanceRecord
  <2> QED BY <1>4, <1>6, <2>1, <2>2 DEF RebalanceRecord
<1>8. RebalanceTypes'
  BY <1>5, <1>6, <1>7 DEF RebalanceTypes, DetailsFor
<1> QED BY <1>2, <1>3, <1>5, <1>6, <1>7, <1>8 DEF d

LEMMA OpenedTypes ==
  ASSUME AuctionTypeInv, NEW s \in Mints, NEW b \in Mints,
         NEW sl \in Nat, NEW bl \in Nat, NEW sp \in Nat, NEW ep \in Nat, NEW T,
         OpenOk(s, b, sl, bl, T), PokeOk(folio, supply, now, GetFeeDetails),
         OpenedAuction(s, b, sl, bl, sp, ep, Poke(folio, supply, now, GetFeeDetails))
  PROVE  AuctionTypeInv' /\ UNCHANGED <<now, assetVars, userVars>>
<1>1. /\ folio' = Poke(folio, supply, now, GetFeeDetails)
      /\ UNCHANGED <<now, supply, assetVars, userVars, feeVars, roles, migrated, released>>
  BY DEF OpenedAuction
<1>2. TypeOK' /\ TypeOK /\ now \in Nat
  BY <1>1, PokedTypes DEF AuctionTypeInv, TypeOK
<1>a. PICK kk, new : NewAuction(kk, new, s, b, sl, bl)
  BY OpenedFacts
<1>3.   /\ kk = <<rebalance.nonce, rebalance.current_auction_id + 1>>
        /\ kk \in (1..rebalance.nonce) \X (1..MaxAuctions)
        /\ new \in AuctionRecord
        /\ new.sell = s /\ new.buy = b /\ new.start = now /\ new.end >= now
        /\ DOMAIN auctions' = DOMAIN auctions \cup {kk}
        /\ auctions'[kk] = new
        /\ \A k \in DOMAIN auctions : auctions'[k] = auctions[k]
        /\ DOMAIN auctionEnds' = DOMAIN auctionEnds \cup {<<rebalance.nonce, {s, b}>>}
        /\ auctionEnds'[<<rebalance.nonce, {s, b}>>] = new.end
        /\ \A x \in DOMAIN auctionEnds :
             x # <<rebalance.nonce, {s, b}>> => auctionEnds'[x] = auctionEnds[x]
  BY <1>a DEF NewAuction
<1>4. /\ RebalanceTypes' /\ rebalance'.nonce = rebalance.nonce
      /\ rebalance'.current_auction_id = rebalance.current_auction_id + 1
      /\ s # b /\ s \in DOMAIN rebalance.details /\ b \in DOMAIN rebalance.details
      /\ DOMAIN rebalance'.details = DOMAIN rebalance.details
  BY NarrowedRebalance
<1>5. rebalance.nonce \in Nat /\ rebalance.current_auction_id \in Nat
  BY DEF AuctionTypeInv, RebalanceTypes, RebalanceRecord
<1>6. (\A x \in DOMAIN auctionEnds' : auctionEnds'[x] \in Nat)
      /\ released' \subseteq DOMAIN auctionEnds'
  <2>0. released' \subseteq DOMAIN auctionEnds
    BY <1>1 DEF AuctionTypeInv, AuctionTypes
  <2>1. new.end \in Nat /\ \A x \in DOMAIN auctionEnds : auctionEnds[x] \in Nat
    BY <1>3 DEF AuctionRecord, AuctionTypeInv, AuctionTypes
  <2> QED BY <1>3, <2>0, <2>1
<1>7. ASSUME NEW k \in DOMAIN auctions'
      PROVE  /\ k \in (1..rebalance'.nonce) \X (1..MaxAuctions)
             /\ k[1] = rebalance'.nonce =>
                  /\ k[2] <= rebalance'.current_auction_id
                  /\ {auctions'[k].sell, auctions'[k].buy} \subseteq DOMAIN rebalance'.details
             /\ auctions'[k] \in AuctionRecord
             /\ auctions'[k].sell # auctions'[k].buy
             /\ auctions'[k].start <= now'
             /\ <<k[1], {auctions'[k].sell, auctions'[k].buy}>> \in DOMAIN auctionEnds'
  <2>1. CASE k = kk
    <3>1. /\ k[1] = rebalance.nonce /\ k[2] = rebalance.current_auction_id + 1
          /\ auctions'[k].sell = s /\ auctions'[k].buy = b
      BY <1>3, <2>1
    <3>2. auctions'[k] \in AuctionRecord /\ auctions'[k].start <= now'
      BY <1>1, <1>2, <1>3, <2>1
    <3>3. k[2] <= rebalance'.current_auction_id
      BY <1>4, <1>5, <3>1
    <3>4. k \in (1..rebalance'.nonce) \X (1..MaxAuctions)
      BY <1>3, <1>4, <2>1
    <3>5. <<k[1], {auctions'[k].sell, auctions'[k].buy}>> \in DOMAIN auctionEnds'
      BY <1>3, <3>1
    <3> QED BY <1>4, <3>1, <3>2, <3>3, <3>4, <3>5
  <2>2. CASE k \in DOMAIN auctions
    <3>1. auctions'[k] = auctions[k]
      BY <1>3, <2>2
    <3>2. /\ k \in (1..rebalance.nonce) \X (1..MaxAuctions)
          /\ k[1] = rebalance.nonce =>
               /\ k[2] <= rebalance.current_auction_id
               /\ {auctions[k].sell, auctions[k].buy} \subseteq DOMAIN rebalance.details
          /\ auctions[k] \in AuctionRecord
          /\ auctions[k].sell # auctions[k].buy
          /\ auctions[k].start <= now
          /\ <<k[1], {auctions[k].sell, auctions[k].buy}>> \in DOMAIN auctionEnds
      BY <2>2 DEF AuctionTypeInv, AuctionTypes, PairKey
    <3>3. k[2] \in Nat
      BY <3>2
    <3>4. k[1] = rebalance.nonce => k[2] <= rebalance'.current_auction_id
      BY <1>4, <1>5, <3>2, <3>3
    <3>5. now' = now
      BY <1>1
    <3>6. <<k[1], {auctions'[k].sell, auctions'[k].buy}>> \in DOMAIN auctionEnds'
      BY <1>3, <3>1, <3>2
    <3> QED BY <1>4, <3>1, <3>2, <3>4, <3>5, <3>6
  <2> QED BY <1>3, <2>1, <2>2
<1>8. AuctionTypes'
  BY <1>6, <1>7 DEF AuctionTypes, PairKey
<1> QED BY <1>1, <1>2, <1>4, <1>8 DEF AuctionTypeInv

\* Ending an auction changes its end time and the one kept for its pair, no other.
LEMMA EndedFacts ==
  ASSUME AuctionTypeInv, NEW k \in DOMAIN auctions, EndAuction(k), now > 0
  PROVE  /\ DOMAIN auctions' = DOMAIN auctions
         /\ auctions'[k] = [auctions[k] EXCEPT !.end = now - 1]
         /\ \A j \in DOMAIN auctions : j # k => auctions'[j] = auctions[j]
         /\ \A j \in DOMAIN auctions :
              /\ auctions'[j] \in AuctionRecord
              /\ auctions'[j].sell = auctions[j].sell /\ auctions'[j].buy = auctions[j].buy
              /\ auctions'[j].sell_limit = auctions[j].sell_limit
              /\ auctions'[j].buy_limit = auctions[j].buy_limit
              /\ auctions'[j].start = auctions[j].start
         /\ DOMAIN auctionEnds' = DOMAIN auctionEnds
         /\ auctionEnds'[PairKey(k, auctions[k])] = now - 1
         /\ \A x \in DOMAIN auctionEnds :
              x # PairKey(k, auctions[k]) => auctionEnds'[x] = auctionEnds[x]
         /\ now - 1 \in Nat
<1>1. now \in Nat /\ now - 1 \in Nat
  BY DEF AuctionTypeInv, TypeOK
<1>2. /\ \A j \in DOMAIN auctions : auctions[j] \in AuctionRecord
      /\ PairKey(k, auctions[k]) \in DOMAIN auctionEnds
  BY DEF AuctionTypeInv, AuctionTypes
<1> DEFINE e == [auctions[k] EXCEPT !.end = now - 1]
           pair == PairKey(k, auctions[k])
<1>3. /\ auctions' = [auctions EXCEPT ![k] = e]
      /\ auctionEnds' = [auctionEnds EXCEPT ![pair] = now - 1]
  BY DEF EndAuction, PairKey
<1>4. /\ e \in AuctionRecord
      /\ e.sell = auctions[k].sell /\ e.buy = auctions[k].buy
      /\ e.sell_limit = auctions[k].sell_limit /\ e.buy_limit = auctions[k].buy_limit
      /\ e.start = auctions[k].start
  BY <1>1, <1>2 DEF AuctionRecord
<1> HIDE DEF e, pair
<1>5. /\ DOMAIN auctions' = DOMAIN auctions /\ auctions'[k] = e
      /\ \A j \in DOMAIN auctions : j # k => auctions'[j] = auctions[j]
  BY <1>3
<1>6. /\ DOMAIN auctionEnds' = DOMAIN auctionEnds /\ auctionEnds'[pair] = now - 1
      /\ \A x \in DOMAIN auctionEnds : x # pair => auctionEnds'[x] = auctionEnds[x]
  BY <1>2, <1>3 DEF pair
<1>7. ASSUME NEW j \in DOMAIN auctions
      PROVE  /\ auctions'[j] \in AuctionRecord
             /\ auctions'[j].sell = auctions[j].sell /\ auctions'[j].buy = auctions[j].buy
             /\ auctions'[j].sell_limit = auctions[j].sell_limit
             /\ auctions'[j].buy_limit = auctions[j].buy_limit
             /\ auctions'[j].start = auctions[j].start
  BY <1>2, <1>4, <1>5
<1>8. auctions'[k] = [auctions[k] EXCEPT !.end = now - 1]
  BY <1>5 DEF e
<1> QED BY <1>1, <1>5, <1>6, <1>7, <1>8 DEF pair

\* The types of auctions do not depend on the end times.
LEMMA EndedTypes ==
  ASSUME AuctionTypeInv, NEW k \in DOMAIN auctions, EndAuction(k), now > 0,
         UNCHANGED <<now, rebalance, released>>
  PROVE  AuctionTypes'
<1>1. /\ DOMAIN auctions' = DOMAIN auctions
      /\ \A j \in DOMAIN auctions :
           /\ auctions'[j] \in AuctionRecord
           /\ auctions'[j].sell = auctions[j].sell /\ auctions'[j].buy = auctions[j].buy
           /\ auctions'[j].start = auctions[j].start
      /\ DOMAIN auctionEnds' = DOMAIN auctionEnds
      /\ \A x \in DOMAIN auctionEnds : auctionEnds'[x] \in Nat
  <2>1. \A x \in DOMAIN auctionEnds : auctionEnds[x] \in Nat
    BY DEF AuctionTypeInv, AuctionTypes
  <2> QED BY <2>1, EndedFacts
<1> QED BY <1>1 DEF AuctionTypeInv, AuctionTypes, PairKey

LEMMA CloseAuctionTypes ==
  ASSUME AuctionTypeInv, NEW a, NEW k \in DOMAIN auctions, CloseAuction(a, k)
  PROVE  /\ AuctionTypeInv' /\ UNCHANGED <<vars, rebalance, released>>
         /\ \/ UNCHANGED <<auctions, auctionEnds>>
            \/ EndAuction(k) /\ now > 0 /\ now <= auctions[k].end
<1>1. UNCHANGED <<vars, rebalance, released>> /\ now' = now
  BY DEF CloseAuction, vars
<1>2. now \in Nat /\ auctions[k].end \in Nat
  BY DEF AuctionTypeInv, AuctionTypes, AuctionRecord, TypeOK
<1>3. \/ UNCHANGED <<auctions, auctionEnds>>
      \/ EndAuction(k) /\ now > 0 /\ now <= auctions[k].end
  BY <1>2 DEF CloseAuction
<1>4. TypeOK'
  BY <1>1, TypeStep DEF AuctionTypeInv
<1>5. RebalanceTypes'
  BY <1>1 DEF AuctionTypeInv, RebalanceTypes
<1>6. AuctionTypes'
  <2>1. CASE UNCHANGED <<auctions, auctionEnds>>
    BY <1>1, <2>1 DEF AuctionTypeInv, AuctionTypes, PairKey
  <2>2. CASE EndAuction(k) /\ now > 0
    BY <1>1, <2>2, EndedTypes
  <2> QED BY <1>3, <2>1, <2>2
<1> QED BY <1>1, <1>3, <1>4, <1>5, <1>6 DEF AuctionTypeInv

\* The price of the moment is a number, between the two of the auction.
LEMMA PriceBounds ==
  ASSUME NEW auc \in AuctionRecord, NEW price \in GetPrice(auc)
  PROVE  price \in Nat /\ price >= LowerPrice(auc) /\ LowerPrice(auc) \in Nat
<1>1. auc.start_price \in Nat /\ auc.end_price \in Nat
  BY DEF AuctionRecord
<1>2. \/ price = auc.start_price \/ price = auc.end_price
      \/ /\ auc.end_price <= auc.start_price
         /\ price \in auc.end_price..(auc.start_price + 1)
  BY <1>1 DEF GetPrice
<1> QED BY <1>1, <1>2 DEF LowerPrice

\* An auction of this folio's rebalance or of another folio sells one token for another.
LEMMA BiddableTypes ==
  ASSUME AuctionTypeInv, NEW auc \in Biddable
  PROVE  auc \in AuctionRecord /\ auc.sell # auc.buy
<1>1. CASE auc \in ForeignAuctions
  BY <1>1, AuctionAssumption DEF AuctionRecord
<1>2. CASE \E k \in DOMAIN auctions : auc = auctions[k]
  BY <1>2 DEF AuctionTypeInv, AuctionTypes
<1> QED BY <1>1, <1>2 DEF Biddable

\* What a bid does to the two tokens of the auction it is made in.
LEMMA TradeFacts ==
  ASSUME AuctionTypeInv, NEW auc \in Biddable, NEW x \in Bids,
         NEW price \in GetPrice(auc), Trade(auc, x, price)
  PROVE  LET s == auc.sell
             b == auc.buy
             bought == BidAmount(x.sell_amount, price)
         IN  /\ s \in Mints /\ b \in Mints /\ s # b
             /\ bought \in U64 /\ x.sell_amount \in U64 /\ x.extra \in U64
             /\ basket' = [basket EXCEPT ![s] = basket[s] - x.sell_amount,
                                         ![b] = basket[b] + bought]
             /\ basket[s] - x.sell_amount \in U64 /\ basket[b] + bought \in U64
             /\ ata' = [ata EXCEPT ![s] = ata[s] - x.sell_amount,
                                   ![b] = ata[b] + (bought + x.extra)]
             /\ ata[s] - x.sell_amount \in U64 /\ ata[b] + (bought + x.extra) \in U64
<1> DEFINE s == auc.sell
           b == auc.buy
           bought == BidAmount(x.sell_amount, price)
<1>1. auc \in AuctionRecord /\ s # b
  BY BiddableTypes
<1>2. s \in Mints /\ b \in Mints
  BY <1>1 DEF AuctionRecord
<1>3. x.sell_amount \in U64 /\ x.extra \in U64 /\ MaxU64 \in Nat
  BY AuctionAssumption, DecimalAssumption
<1>4. bought \in U64
  <2>1. price \in Nat
    BY <1>1, PriceBounds
  <2>2. FromTokenAmount(x.sell_amount) \in Nat
    BY <1>3, Conversions DEF U64
  <2>3. (FromTokenAmount(x.sell_amount) * price) \div D18 \in Nat
    BY <2>1, <2>2, NatOps, D18Pos
  <2> QED BY <2>3, Conversions DEF BidAmount
<1>5. /\ ata[s] \in U64 /\ ata[b] \in U64 /\ basket[s] \in U64 /\ basket[b] \in U64
  BY <1>2 DEF AuctionTypeInv, TypeOK, AssetTypes
<1>6. /\ basket[s] - x.sell_amount >= 0 /\ ata[s] >= x.sell_amount
      /\ ata[b] + bought + x.extra <= MaxU64 /\ basket[b] + bought <= MaxU64
      /\ basket' = [basket EXCEPT ![s] = basket[s] - x.sell_amount,
                                  ![b] = basket[b] + bought]
      /\ ata' = AtaAfterBid(auc, x.sell_amount, bought + x.extra)
  BY DEF Trade
<1> HIDE DEF bought
<1>7. ata' = [ata EXCEPT ![s] = ata[s] - x.sell_amount, ![b] = ata[b] + (bought + x.extra)]
  BY <1>1, <1>6 DEF AtaAfterBid
<1>8. /\ basket[s] - x.sell_amount \in U64 /\ basket[b] + bought \in U64
      /\ ata[s] - x.sell_amount \in U64 /\ ata[b] + (bought + x.extra) \in U64
  BY <1>3, <1>4, <1>5, <1>6 DEF U64
<1> QED BY <1>1, <1>2, <1>3, <1>4, <1>6, <1>7, <1>8 DEF bought

LEMMA TradeTypes ==
  ASSUME AuctionTypeInv, NEW auc \in Biddable, NEW x \in Bids,
         NEW price \in GetPrice(auc), Trade(auc, x, price)
  PROVE  /\ TypeOK' /\ RebalanceTypes' /\ UNCHANGED <<now, userVars, rebalance>>
         /\ now <= auc.end
<1>1. /\ UNCHANGED <<now, supply, userVars, feeVars, roles, migrated, rebalance>>
      /\ folio' = Poke(folio, supply, now, GetFeeDetails)
      /\ PokeOk(folio, supply, now, GetFeeDetails)
      /\ basketMints' \subseteq basketMints \cup {auc.buy}
      /\ now <= auc.end
  BY DEF Trade, IsOpen
<1> DEFINE s == auc.sell
           b == auc.buy
           bought == BidAmount(x.sell_amount, price)
<1>2. /\ s \in Mints /\ b \in Mints
      /\ basket' = [basket EXCEPT ![s] = basket[s] - x.sell_amount,
                                  ![b] = basket[b] + bought]
      /\ basket[s] - x.sell_amount \in U64 /\ basket[b] + bought \in U64
      /\ ata' = [ata EXCEPT ![s] = ata[s] - x.sell_amount,
                            ![b] = ata[b] + (bought + x.extra)]
      /\ ata[s] - x.sell_amount \in U64 /\ ata[b] + (bought + x.extra) \in U64
  BY TradeFacts
<1> HIDE DEF s, b, bought
<1>3. folio' \in FolioRecord
  BY <1>1, PokeType DEF AuctionTypeInv, TypeOK
<1>4. AssetTypes'
  <2>1. AssetTypes
    BY DEF AuctionTypeInv, TypeOK
  <2>2. ata' \in [Mints -> U64] /\ basket' \in [Mints -> U64]
    BY <1>2, <2>1 DEF AssetTypes
  <2>3. basketMints' \subseteq Mints
    BY <1>1, <1>2, <2>1 DEF AssetTypes, b
  <2> QED BY <2>2, <2>3 DEF AssetTypes
<1>5. TypeOK'
  BY <1>1, <1>3, <1>4 DEF AuctionTypeInv, TypeOK, UserTypes, FeeTypes, userVars, feeVars
<1>6. RebalanceTypes'
  BY <1>1 DEF AuctionTypeInv, RebalanceTypes
<1> QED BY <1>1, <1>5, <1>6

LEMMA BidTypes ==
  ASSUME AuctionTypeInv, NEW k \in DOMAIN auctions, NEW x \in Bids,
         NEW price \in GetPrice(auctions[k]), Bid(k, x, price)
  PROVE  /\ AuctionTypeInv' /\ UNCHANGED <<now, userVars, rebalance, released>>
         /\ \/ UNCHANGED <<auctions, auctionEnds>>
            \/ EndAuction(k) /\ now > 0 /\ now <= auctions[k].end
<1>1. /\ UNCHANGED released
      /\ \/ UNCHANGED <<auctions, auctionEnds>>
         \/ EndAuction(k) /\ now > 0
  BY DEF Bid
<1>2. auctions[k] \in Biddable /\ Trade(auctions[k], x, price)
  BY DEF Biddable, Bid
<1>3. /\ TypeOK' /\ RebalanceTypes' /\ UNCHANGED <<now, userVars, rebalance>>
      /\ now <= auctions[k].end
  BY <1>2, TradeTypes
<1>4. AuctionTypes'
  <2>1. CASE UNCHANGED <<auctions, auctionEnds>>
    BY <1>1, <1>3, <2>1 DEF AuctionTypeInv, AuctionTypes, PairKey
  <2>2. CASE EndAuction(k) /\ now > 0
    BY <1>1, <1>3, <2>2, EndedTypes
  <2> QED BY <1>1, <2>1, <2>2
<1> QED BY <1>1, <1>3, <1>4 DEF AuctionTypeInv

\* A bid in an auction of another folio touches none of this folio's auctions: it may
\* end the pair under them.
LEMMA ForeignBidTypes ==
  ASSUME AuctionTypeInv, NEW auc \in ForeignAuctions, NEW x \in Bids,
         NEW price \in GetPrice(auc), ForeignBid(auc, x, price)
  PROVE  /\ AuctionTypeInv' /\ UNCHANGED <<now, userVars, rebalance, auctions>>
         /\ released \subseteq released'
         /\ DOMAIN auctionEnds' = DOMAIN auctionEnds
         /\ \A y \in DOMAIN auctionEnds :
              y \notin released' => auctionEnds'[y] = auctionEnds[y]
<1> DEFINE pair == <<rebalance.nonce, {auc.sell, auc.buy}>>
<1>1. /\ auctions' = auctions /\ pair \in DOMAIN auctionEnds
      /\ \/ UNCHANGED <<auctionEnds, released>>
         \/ /\ now > 0 /\ auctionEnds' = [auctionEnds EXCEPT ![pair] = now - 1]
            /\ released' = released \cup {pair}
  BY DEF ForeignBid
<1>2. auc \in Biddable /\ Trade(auc, x, price)
  BY DEF Biddable, ForeignBid
<1>3. TypeOK' /\ RebalanceTypes' /\ UNCHANGED <<now, userVars, rebalance>>
  BY <1>2, TradeTypes
<1>4. /\ released \subseteq DOMAIN auctionEnds
      /\ \A y \in DOMAIN auctionEnds : auctionEnds[y] \in Nat
      /\ now \in Nat
  BY DEF AuctionTypeInv, AuctionTypes, TypeOK
<1> HIDE DEF pair
<1>5. /\ released \subseteq released' /\ released' \subseteq DOMAIN auctionEnds
      /\ DOMAIN auctionEnds' = DOMAIN auctionEnds
      /\ \A y \in DOMAIN auctionEnds : auctionEnds'[y] \in Nat
      /\ \A y \in DOMAIN auctionEnds : y \notin released' => auctionEnds'[y] = auctionEnds[y]
  BY <1>1, <1>4
<1>6. AuctionTypes'
  BY <1>1, <1>3, <1>5 DEF AuctionTypeInv, AuctionTypes, PairKey
<1> QED BY <1>1, <1>3, <1>5, <1>6 DEF AuctionTypeInv

-----------------------------------------------------------------------------
(* Type correctness *)

\* An auction opened by either instruction.
Opens(s, b, sl, bl, sp, ep) ==
  /\ \E T : OpenOk(s, b, sl, bl, T)
  /\ PokeOk(folio, supply, now, GetFeeDetails)
  /\ OpenedAuction(s, b, sl, bl, sp, ep, Poke(folio, supply, now, GetFeeDetails))

Opened ==
  \E s, b \in Mints, sl, bl, sp, ep \in Nat : Opens(s, b, sl, bl, sp, ep)

Started ==
  \E a \in Actors, times \in RebalanceTimes, new \in DetailBatches, ready \in BOOLEAN :
    \E kept : StartRebalance(a, times, new, kept, ready)

Detailed ==
  \E a \in Actors, new \in DetailBatches, ready \in BOOLEAN :
    \E kept : AddRebalanceDetails(a, new, kept, ready)

Closed == \E k \in DOMAIN auctions, a \in Actors : CloseAuction(a, k)

Filled ==
  \E k \in DOMAIN auctions, x \in Bids : \E price \in GetPrice(auctions[k]) : Bid(k, x, price)

FilledElsewhere ==
  \E auc \in ForeignAuctions, x \in Bids :
    \E price \in GetPrice(auc) : ForeignBid(auc, x, price)

\* Every step of the system is one of these.
LEMMA SystemSteps ==
  ASSUME AuctionTypeInv, [SystemNext]_allVars
  PROVE  \/ [Next]_vars /\ UNCHANGED auctionVars
         \/ Started \/ Detailed \/ Opened \/ Closed \/ Filled \/ FilledElsewhere
<1>1. CASE FolioNext \/ UNCHANGED allVars
  BY <1>1 DEF FolioNext, allVars
<1>2. CASE RebalanceNext
  BY <1>2, Zenon DEF RebalanceNext, Started, Detailed
<1>3. ASSUME NEW s \in Mints, NEW b \in Mints,
             \/ \E a \in Actors, c \in Configs : OpenAuction(a, s, b, c)
             \/ OpenAuctionPermissionless(s, b)
      PROVE  Opened
  <2>1. \E sl, bl, sp, ep \in Nat : Opens(s, b, sl, bl, sp, ep)
    BY <1>3, OpenSteps DEF Opens
  <2> QED BY <2>1, Zenon DEF Opened
<1>4. CASE AuctionNext
  <2>1. CASE \E s, b \in Mints :
               \/ \E a \in Actors, c \in Configs : OpenAuction(a, s, b, c)
               \/ OpenAuctionPermissionless(s, b)
    BY <1>3, <2>1, Zenon
  <2>2. CASE \E k \in DOMAIN auctions : \E a \in Actors : CloseAuction(a, k)
    BY <2>2, Zenon DEF Closed
  <2>3. CASE \E k \in DOMAIN auctions :
               \E x \in Bids, price \in GetPrice(auctions[k]) : Bid(k, x, price)
    BY <2>3, Zenon DEF Filled
  <2> QED BY <1>4, <2>1, <2>2, <2>3, Zenon DEF AuctionNext, FilledElsewhere
<1> QED BY <1>1, <1>2, <1>4 DEF SystemNext

\* Only bids and the instructions of module Folio move a token or touch a user.
LEMMA AssetsAside ==
  ASSUME Started \/ Detailed \/ Opened \/ Closed
  PROVE  UNCHANGED assetVars /\ UNCHANGED userVars
<1>1. Started => UNCHANGED assetVars /\ UNCHANGED userVars
  <2>1. ASSUME NEW a, NEW times, NEW new, NEW kept, NEW ready,
               StartRebalance(a, times, new, kept, ready)
        PROVE  UNCHANGED assetVars /\ UNCHANGED userVars
    BY <2>1, Zenon DEF StartRebalance
  <2> QED BY <2>1, Zenon DEF Started
<1>2. Opened => UNCHANGED assetVars /\ UNCHANGED userVars
  <2>1. ASSUME NEW s, NEW b, NEW sl, NEW bl, NEW sp, NEW ep, Opens(s, b, sl, bl, sp, ep)
        PROVE  UNCHANGED assetVars /\ UNCHANGED userVars
    BY <2>1, Zenon DEF Opens, OpenedAuction
  <2> QED BY <2>1, Zenon DEF Opened
<1>3. Detailed \/ Closed => UNCHANGED vars
  BY DEF Detailed, AddRebalanceDetails, Closed, CloseAuction
<1> QED BY <1>1, <1>2, <1>3 DEF vars

\* A bid in any auction is a trade for a pair that the rebalance has auctioned.
Traded ==
  \E auc \in Biddable, x \in Bids : \E price \in GetPrice(auc) :
    Trade(auc, x, price) /\ <<rebalance.nonce, {auc.sell, auc.buy}>> \in DOMAIN auctionEnds

LEMMA FilledTrades ==
  ASSUME AuctionTypeInv, Filled \/ FilledElsewhere
  PROVE  Traded
<1>1. ASSUME NEW k \in DOMAIN auctions, NEW x \in Bids,
             NEW price \in GetPrice(auctions[k]), Bid(k, x, price)
      PROVE  Traded
  <2>1. /\ auctions[k] \in Biddable /\ Trade(auctions[k], x, price)
        /\ <<rebalance.nonce, {auctions[k].sell, auctions[k].buy}>> \in DOMAIN auctionEnds
    BY <1>1 DEF Bid, Biddable, AuctionTypeInv, AuctionTypes, PairKey
  <2> QED BY <2>1, Zenon DEF Traded
<1>2. ASSUME NEW auc \in ForeignAuctions, NEW x \in Bids,
             NEW price \in GetPrice(auc), ForeignBid(auc, x, price)
      PROVE  Traded
  <2>1. /\ auc \in Biddable /\ Trade(auc, x, price)
        /\ <<rebalance.nonce, {auc.sell, auc.buy}>> \in DOMAIN auctionEnds
    BY <1>2 DEF ForeignBid, Biddable
  <2> QED BY <2>1, Zenon DEF Traded
<1> QED BY <1>1, <1>2, Zenon DEF Filled, FilledElsewhere

LEMMA AuctionTypeStep == AuctionTypeInv /\ [SystemNext]_allVars => AuctionTypeInv'
<1> SUFFICES ASSUME AuctionTypeInv, [SystemNext]_allVars PROVE AuctionTypeInv'
  OBVIOUS
<1>1. [Next]_vars /\ UNCHANGED auctionVars => AuctionTypeInv'
  BY FolioTypes
<1>2. Started => AuctionTypeInv'
  BY StartRebalanceTypes DEF Started
<1>3. Detailed => AuctionTypeInv'
  BY AddRebalanceDetailsTypes DEF Detailed
<1>4. Opened => AuctionTypeInv'
  <2>1. ASSUME NEW s \in Mints, NEW b \in Mints, NEW sl \in Nat, NEW bl \in Nat,
               NEW sp \in Nat, NEW ep \in Nat, Opens(s, b, sl, bl, sp, ep)
        PROVE  AuctionTypeInv'
    BY <2>1, OpenedTypes DEF Opens
  <2> QED BY <2>1, Zenon DEF Opened
<1>5. Closed => AuctionTypeInv'
  BY CloseAuctionTypes DEF Closed
<1>6. Filled => AuctionTypeInv'
  <2>1. ASSUME NEW k \in DOMAIN auctions, NEW x \in Bids,
               NEW price \in GetPrice(auctions[k]), Bid(k, x, price)
        PROVE  AuctionTypeInv'
    BY <2>1, BidTypes
  <2> QED BY <2>1, Zenon DEF Filled
<1>7. FilledElsewhere => AuctionTypeInv'
  <2>1. ASSUME NEW auc \in ForeignAuctions, NEW x \in Bids,
               NEW price \in GetPrice(auc), ForeignBid(auc, x, price)
        PROVE  AuctionTypeInv'
    BY <2>1, ForeignBidTypes
  <2> QED BY <2>1, Zenon DEF FilledElsewhere
<1> QED BY <1>1, <1>2, <1>3, <1>4, <1>5, <1>6, <1>7, SystemSteps

LEMMA AuctionTypesHold == AuctionSpec => []AuctionTypeInv
<1> QED BY AuctionInitTypes, AuctionTypeStep, PTL DEF AuctionSpec

\* The accounts of rebalances and auctions keep their shape, for every number of
\* tokens, rebalances and auctions: ids are never reused and no table outgrows its
\* slots.
THEOREM AuctionTypeCorrect == AuctionSpec => []AuctionTypeOK
<1> QED BY AuctionTypesHold, TypeInvTypeOK, PTL

-----------------------------------------------------------------------------
(* One open auction for each pair *)

\* Unless a bid in another folio's auction has ended the pair, an auction that is not
\* over has its end time kept for its pair, and no other auction of the pair is still
\* to end.
PairEnds ==
  /\ \A k \in DOMAIN auctions :
       now <= auctions[k].end /\ PairKey(k, auctions[k]) \notin released
         => auctionEnds[PairKey(k, auctions[k])] = auctions[k].end
  /\ \A j, k \in DOMAIN auctions :
       (/\ now <= auctions[j].end /\ now <= auctions[k].end
        /\ PairKey(j, auctions[j]) = PairKey(k, auctions[k])
        /\ PairKey(k, auctions[k]) \notin released) => j = k

\* Time and changes elsewhere only end auctions.
LEMMA PairEndsLater ==
  ASSUME AuctionTypeInv, PairEnds, now' \in Nat, now' >= now, UNCHANGED auctions,
         released \subseteq released',
         \A y \in DOMAIN auctionEnds : y \notin released' => auctionEnds'[y] = auctionEnds[y]
  PROVE  PairEnds'
<1>1. \A k \in DOMAIN auctions :
        /\ now' <= auctions[k].end => now <= auctions[k].end
        /\ PairKey(k, auctions[k]) \in DOMAIN auctionEnds
  BY DEF AuctionTypeInv, AuctionTypes, AuctionRecord, TypeOK
<1>2. ASSUME NEW k \in DOMAIN auctions, now' <= auctions[k].end,
             PairKey(k, auctions[k]) \notin released'
      PROVE  auctionEnds'[PairKey(k, auctions[k])] = auctions[k].end
  BY <1>1, <1>2 DEF PairEnds
<1>3. ASSUME NEW j \in DOMAIN auctions, NEW k \in DOMAIN auctions,
             now' <= auctions[j].end, now' <= auctions[k].end,
             PairKey(j, auctions[j]) = PairKey(k, auctions[k]),
             PairKey(k, auctions[k]) \notin released'
      PROVE  j = k
  BY <1>1, <1>3 DEF PairEnds
<1> QED BY <1>2, <1>3 DEF PairEnds, PairKey

\* An auction is opened only when the end time kept for its pair has passed, so that
\* no auction of the pair is still to end.
LEMMA PairEndsOpened ==
  ASSUME AuctionTypeInv, PairEnds, NEW s \in Mints, NEW b \in Mints,
         NEW sl \in Nat, NEW bl \in Nat, NEW sp \in Nat, NEW ep \in Nat,
         Opens(s, b, sl, bl, sp, ep)
  PROVE  PairEnds'
<1> DEFINE pair == <<rebalance.nonce, {s, b}>>
<1>1. PICK kk, new : NewAuction(kk, new, s, b, sl, bl)
  BY OpenedFacts DEF Opens
<1>2. now' = now /\ now \in Nat /\ released' = released
  BY DEF Opens, OpenedAuction, AuctionTypeInv, TypeOK
<1>3. ASSUME NEW k \in DOMAIN auctions, PairKey(k, auctions[k]) = pair, pair \notin released
      PROVE  ~(now <= auctions[k].end)
  <2>1. pair \in DOMAIN auctionEnds /\ auctions[k].end \in Nat
    BY <1>3 DEF AuctionTypeInv, AuctionTypes, AuctionRecord
  <2>2. now > auctionEnds[pair]
    BY <2>1 DEF Opens, OpenOk, EndTime
  <2> QED BY <1>2, <1>3, <2>1, <2>2 DEF PairEnds
<1>4. /\ kk \notin DOMAIN auctions
      /\ PairKey(kk, new) = pair
      /\ DOMAIN auctions' = DOMAIN auctions \cup {kk}
      /\ auctions'[kk] = new
      /\ \A k \in DOMAIN auctions : auctions'[k] = auctions[k]
      /\ auctionEnds'[pair] = new.end
      /\ \A x \in DOMAIN auctionEnds : x # pair => auctionEnds'[x] = auctionEnds[x]
  BY <1>1 DEF NewAuction, PairKey
<1>5. \A k \in DOMAIN auctions : PairKey(k, auctions[k]) \in DOMAIN auctionEnds
  BY DEF AuctionTypeInv, AuctionTypes
<1> HIDE DEF pair
<1>6. ASSUME NEW k \in DOMAIN auctions', now' <= auctions'[k].end,
             PairKey(k, auctions'[k]) \notin released'
      PROVE  auctionEnds'[PairKey(k, auctions'[k])] = auctions'[k].end
  <2>1. CASE k = kk
    BY <1>4, <2>1
  <2>2. CASE k \in DOMAIN auctions
    <3>1. /\ auctions'[k] = auctions[k] /\ now <= auctions[k].end
          /\ PairKey(k, auctions[k]) \notin released
      BY <1>2, <1>4, <1>6, <2>2
    <3>2. PairKey(k, auctions[k]) # pair
      BY <1>3, <2>2, <3>1
    <3> QED BY <1>4, <1>5, <2>2, <3>1, <3>2 DEF PairEnds
  <2> QED BY <1>4, <2>1, <2>2
<1>7. ASSUME NEW j \in DOMAIN auctions', NEW k \in DOMAIN auctions',
             now' <= auctions'[j].end, now' <= auctions'[k].end,
             PairKey(j, auctions'[j]) = PairKey(k, auctions'[k]),
             PairKey(k, auctions'[k]) \notin released'
      PROVE  j = k
  <2>1. CASE j \in DOMAIN auctions /\ k \in DOMAIN auctions
    BY <1>2, <1>4, <1>7, <2>1 DEF PairEnds
  <2>2. CASE j = kk /\ k \in DOMAIN auctions
    BY <1>2, <1>3, <1>4, <1>7, <2>2
  <2>3. CASE k = kk /\ j \in DOMAIN auctions
    BY <1>2, <1>3, <1>4, <1>7, <2>3
  <2> QED BY <1>4, <2>1, <2>2, <2>3
<1>8. \A k \in DOMAIN auctions' : PairKey(k, auctions[k])' = PairKey(k, auctions'[k])
  BY DEF PairKey
<1> QED BY <1>6, <1>7 DEF PairEnds, PairKey

\* An open auction that ends takes the end time of its pair with it.
LEMMA PairEndsEnded ==
  ASSUME AuctionTypeInv, PairEnds, NEW k \in DOMAIN auctions, EndAuction(k), now > 0,
         now <= auctions[k].end, UNCHANGED <<now, released>>
  PROVE  PairEnds'
<1>1. now \in Nat /\ now - 1 \in Nat /\ auctions[k] \in AuctionRecord
  BY EndedFacts DEF AuctionTypeInv, AuctionTypes, TypeOK
<1>2. /\ DOMAIN auctions' = DOMAIN auctions
      /\ auctions'[k].end = now - 1
      /\ \A j \in DOMAIN auctions : j # k => auctions'[j] = auctions[j]
      /\ \A j \in DOMAIN auctions : PairKey(j, auctions'[j]) = PairKey(j, auctions[j])
      /\ \A x \in DOMAIN auctionEnds :
           x # PairKey(k, auctions[k]) => auctionEnds'[x] = auctionEnds[x]
  BY <1>1, EndedFacts DEF PairKey, AuctionRecord
<1>3. \A j \in DOMAIN auctions' : now' <= auctions'[j].end => j # k /\ now <= auctions[j].end
  BY <1>1, <1>2
<1>4. ASSUME NEW j \in DOMAIN auctions', now' <= auctions'[j].end,
             PairKey(j, auctions'[j]) \notin released'
      PROVE  auctionEnds'[PairKey(j, auctions'[j])] = auctions'[j].end
  <2>1. /\ j # k /\ j \in DOMAIN auctions /\ now <= auctions[j].end
        /\ auctions'[j] = auctions[j] /\ PairKey(j, auctions[j]) \notin released
    BY <1>2, <1>3, <1>4
  <2>2. PairKey(j, auctions[j]) # PairKey(k, auctions[k])
    BY <2>1 DEF PairEnds
  <2>3. PairKey(j, auctions[j]) \in DOMAIN auctionEnds
    BY <2>1 DEF AuctionTypeInv, AuctionTypes
  <2> QED BY <1>2, <2>1, <2>2, <2>3 DEF PairEnds
<1>5. ASSUME NEW i \in DOMAIN auctions', NEW j \in DOMAIN auctions',
             now' <= auctions'[i].end, now' <= auctions'[j].end,
             PairKey(i, auctions'[i]) = PairKey(j, auctions'[j]),
             PairKey(j, auctions'[j]) \notin released'
      PROVE  i = j
  BY <1>2, <1>3, <1>5 DEF PairEnds
<1> QED BY <1>4, <1>5 DEF PairEnds, PairKey

LEMMA PairEndsStep == AuctionTypeInv /\ PairEnds /\ [SystemNext]_allVars => PairEnds'
<1> SUFFICES ASSUME AuctionTypeInv, PairEnds, [SystemNext]_allVars PROVE PairEnds'
  OBVIOUS
<1>0. now \in Nat /\ now >= now
  BY DEF AuctionTypeInv, TypeOK
<1>1. CASE [Next]_vars /\ UNCHANGED auctionVars
  BY <1>1, NowStep, PairEndsLater DEF AuctionTypeInv, auctionVars
<1>2. CASE Started
  <2>1. UNCHANGED <<auctions, auctionEnds, released, now>>
    BY <1>2 DEF Started, StartRebalance
  <2> QED BY <1>0, <2>1, PairEndsLater
<1>3. CASE Detailed
  <2>1. UNCHANGED <<auctions, auctionEnds, released, now>>
    BY <1>3 DEF Detailed, AddRebalanceDetails, vars
  <2> QED BY <1>0, <2>1, PairEndsLater
<1>4. CASE Opened
  <2>1. ASSUME NEW s \in Mints, NEW b \in Mints, NEW sl \in Nat, NEW bl \in Nat,
               NEW sp \in Nat, NEW ep \in Nat, Opens(s, b, sl, bl, sp, ep)
        PROVE  PairEnds'
    BY <2>1, PairEndsOpened
  <2> QED BY <1>4, <2>1, Zenon DEF Opened
<1>5. CASE Closed
  <2>1. PICK k \in DOMAIN auctions : \E a \in Actors : CloseAuction(a, k)
    BY <1>5 DEF Closed
  <2>2. /\ now' = now /\ released' = released
        /\ \/ UNCHANGED <<auctions, auctionEnds>>
           \/ EndAuction(k) /\ now > 0 /\ now <= auctions[k].end
    BY <2>1, CloseAuctionTypes DEF vars
  <2> QED BY <1>0, <2>2, PairEndsLater, PairEndsEnded
<1>6. CASE Filled
  <2>1. ASSUME NEW k \in DOMAIN auctions, NEW x \in Bids,
               NEW price \in GetPrice(auctions[k]), Bid(k, x, price)
        PROVE  PairEnds'
    <3>1. /\ now' = now /\ released' = released
          /\ \/ UNCHANGED <<auctions, auctionEnds>>
             \/ EndAuction(k) /\ now > 0 /\ now <= auctions[k].end
      BY <2>1, BidTypes
    <3> QED BY <1>0, <3>1, PairEndsLater, PairEndsEnded
  <2> QED BY <1>6, <2>1, Zenon DEF Filled
<1>7. CASE FilledElsewhere
  <2>1. ASSUME NEW auc \in ForeignAuctions, NEW x \in Bids,
               NEW price \in GetPrice(auc), ForeignBid(auc, x, price)
        PROVE  PairEnds'
    BY <1>0, <2>1, ForeignBidTypes, PairEndsLater
  <2> QED BY <1>7, <2>1, Zenon DEF FilledElsewhere
<1> QED BY <1>1, <1>2, <1>3, <1>4, <1>5, <1>6, <1>7, SystemSteps

LEMMA PairEndsHold == AuctionSpec => []PairEnds
<1>1. AuctionInit => PairEnds
  BY DEF AuctionInit, PairEnds
<1> QED BY <1>1, PairEndsStep, AuctionTypesHold, PTL DEF AuctionSpec

\* Whatever is opened, closed, filled or left to expire, the end time kept for a
\* pair is that of its open auction, unless a bid in another folio's auction, which
\* the code takes for one of this folio's, has ended the pair.
THEOREM EndTimesAgree == AuctionSpec => []EndsAgree
<1>1. PairEnds => EndsAgree
  BY DEF PairEnds, EndsAgree, IsOpen, PairKey, Released
<1> QED BY <1>1, PairEndsHold, PTL

\* No pair of tokens has two open auctions, whatever their directions, with the same
\* exception: no other instruction releases a pair whose auction is open.
THEOREM PairsTradedOnce == AuctionSpec => []OneAuctionPerPair
<1>1. PairEnds => OneAuctionPerPair
  <2> SUFFICES ASSUME PairEnds, NEW j \in DOMAIN auctions, NEW k \in DOMAIN auctions,
                      j[1] = k[1], IsOpen(auctions[j]), IsOpen(auctions[k]),
                      {auctions[j].sell, auctions[j].buy} = {auctions[k].sell, auctions[k].buy},
                      ~Released(k)
               PROVE  j = k
    BY DEF OneAuctionPerPair
  <2>1. /\ PairKey(j, auctions[j]) = PairKey(k, auctions[k])
        /\ PairKey(k, auctions[k]) \notin released
    BY DEF PairKey, Released
  <2>2. now <= auctions[j].end /\ now <= auctions[k].end
    BY DEF IsOpen
  <2> QED BY <2>1, <2>2 DEF PairEnds
<1> QED BY <1>1, PairEndsHold, PTL

-----------------------------------------------------------------------------
(* No double trading *)

\* The range kept for a token by the current rebalance lies below the level down to
\* which any of its auctions sells it, and above the one up to which any buys it.
RangesNarrowed ==
  \A k \in DOMAIN auctions :
    k[1] = rebalance.nonce =>
      /\ rebalance.details[auctions[k].sell].high <= auctions[k].sell_limit
      /\ rebalance.details[auctions[k].buy].low >= auctions[k].buy_limit

LimitsInv == NoDoubleTrading /\ RangesNarrowed

\* Neither property looks at an end time.
LEMMA LimitsKept ==
  ASSUME AuctionTypeInv, LimitsInv, DOMAIN auctions' = DOMAIN auctions,
         \A k \in DOMAIN auctions :
           /\ auctions'[k].sell = auctions[k].sell /\ auctions'[k].buy = auctions[k].buy
           /\ auctions'[k].sell_limit = auctions[k].sell_limit
           /\ auctions'[k].buy_limit = auctions[k].buy_limit,
         rebalance'.nonce = rebalance.nonce,
         \A m \in DOMAIN rebalance.details : rebalance'.details[m] = rebalance.details[m]
  PROVE  LimitsInv'
<1>1. \A k \in DOMAIN auctions :
        k[1] = rebalance.nonce => /\ auctions[k].sell \in DOMAIN rebalance.details
                                  /\ auctions[k].buy \in DOMAIN rebalance.details
  BY DEF AuctionTypeInv, AuctionTypes
<1>2. NoDoubleTrading'
  BY DEF LimitsInv, NoDoubleTrading
<1>3. RangesNarrowed'
  BY <1>1 DEF LimitsInv, RangesNarrowed
<1> QED BY <1>2, <1>3 DEF LimitsInv

\* A new rebalance has new limits and no auction yet.
LEMMA LimitsStarted ==
  ASSUME AuctionTypeInv, LimitsInv, Started
  PROVE  LimitsInv'
<1>1. rebalance'.nonce = rebalance.nonce + 1 /\ UNCHANGED auctions
  BY StartRebalanceTypes DEF Started
<1>2. \A k \in DOMAIN auctions : k[1] # rebalance.nonce + 1
  BY DEF AuctionTypeInv, AuctionTypes, RebalanceTypes, RebalanceRecord
<1>3. RangesNarrowed'
  BY <1>1, <1>2 DEF RangesNarrowed
<1>4. NoDoubleTrading'
  BY <1>1 DEF LimitsInv, NoDoubleTrading
<1> QED BY <1>3, <1>4 DEF LimitsInv

\* The limits of a new auction lie in the ranges that the earlier ones have left.
LEMMA LimitsOpened ==
  ASSUME AuctionTypeInv, LimitsInv, NEW s \in Mints, NEW b \in Mints,
         NEW sl \in Nat, NEW bl \in Nat, NEW sp \in Nat, NEW ep \in Nat,
         Opens(s, b, sl, bl, sp, ep)
  PROVE  LimitsInv'
<1> DEFINE d == rebalance.details
           e == rebalance'.details
<1>1. PICK kk, new : NewAuction(kk, new, s, b, sl, bl)
  BY OpenedFacts DEF Opens
<1>2. /\ kk \notin DOMAIN auctions
      /\ kk[1] = rebalance.nonce
      /\ new.sell = s /\ new.buy = b /\ new.sell_limit = sl /\ new.buy_limit = bl
      /\ DOMAIN auctions' = DOMAIN auctions \cup {kk}
      /\ auctions'[kk] = new
      /\ \A k \in DOMAIN auctions : auctions'[k] = auctions[k]
  BY <1>1 DEF NewAuction
<1>3. /\ rebalance'.nonce = rebalance.nonce
      /\ s # b /\ s \in DOMAIN d /\ b \in DOMAIN d /\ DOMAIN e = DOMAIN d
      /\ e[s].high = sl /\ e[s].low = d[s].low /\ e[b].low = bl /\ e[b].high = d[b].high
      /\ \A m \in DOMAIN d : m # s /\ m # b => e[m] = d[m]
  BY NarrowedRebalance DEF Opens
<1>4. \A m \in DOMAIN d : d[m].low \in Nat /\ d[m].high \in Nat
  BY DetailsOf DEF AuctionTypeInv, TokenDetails
<1>5. d[s].low <= sl /\ sl <= d[s].high /\ d[b].low <= bl /\ bl <= d[b].high
  BY <1>3, <1>4 DEF Opens, OpenOk
<1>6. \A m \in DOMAIN d :
        /\ e[m].high <= d[m].high /\ e[m].low >= d[m].low
        /\ e[m].low \in Nat /\ e[m].high \in Nat
  BY <1>3, <1>4, <1>5
<1>7. \A k \in DOMAIN auctions :
        /\ auctions[k].sell_limit \in Nat /\ auctions[k].buy_limit \in Nat
        /\ auctions[k].sell # auctions[k].buy
        /\ k[1] = rebalance.nonce => /\ auctions[k].sell \in DOMAIN d
                                     /\ auctions[k].buy \in DOMAIN d
  BY DEF AuctionTypeInv, AuctionTypes, AuctionRecord
<1>8. \A k \in DOMAIN auctions :
        k[1] = rebalance.nonce => /\ d[auctions[k].sell].high <= auctions[k].sell_limit
                                  /\ d[auctions[k].buy].low >= auctions[k].buy_limit
  BY DEF LimitsInv, RangesNarrowed
<1> HIDE DEF d, e
<1>9. ASSUME NEW k \in DOMAIN auctions', k[1] = rebalance'.nonce
      PROVE  /\ e[auctions'[k].sell].high <= auctions'[k].sell_limit
             /\ e[auctions'[k].buy].low >= auctions'[k].buy_limit
  <2>1. CASE k = kk
    BY <1>2, <1>3, <2>1
  <2>2. CASE k \in DOMAIN auctions
    <3>1. auctions'[k] = auctions[k] /\ k[1] = rebalance.nonce
      BY <1>2, <1>3, <1>9, <2>2
    <3>2. auctions[k].sell \in DOMAIN d /\ auctions[k].buy \in DOMAIN d
      BY <1>7, <2>2, <3>1
    <3> QED BY <1>4, <1>6, <1>7, <1>8, <2>2, <3>1, <3>2
  <2> QED BY <1>2, <2>1, <2>2
<1>10. ASSUME NEW j \in DOMAIN auctions', NEW k \in DOMAIN auctions',
              j[1] = k[1], auctions'[j].sell = auctions'[k].buy
       PROVE  auctions'[j].sell_limit >= auctions'[k].buy_limit
  <2>1. CASE j \in DOMAIN auctions /\ k \in DOMAIN auctions
    BY <1>2, <1>10, <2>1 DEF LimitsInv, NoDoubleTrading
  <2>2. CASE j = kk /\ k = kk
    BY <1>2, <1>3, <1>10, <2>2
  <2>3. CASE j = kk /\ k \in DOMAIN auctions
    <3>1. /\ auctions'[k] = auctions[k] /\ k[1] = rebalance.nonce /\ auctions[k].buy = s
          /\ auctions'[j].sell_limit = sl
      BY <1>2, <1>10, <2>3
    <3>2. d[s].low >= auctions[k].buy_limit /\ auctions[k].buy_limit \in Nat
      BY <1>7, <1>8, <2>3, <3>1
    <3> QED BY <1>3, <1>4, <1>5, <3>1, <3>2
  <2>4. CASE k = kk /\ j \in DOMAIN auctions
    <3>1. /\ auctions'[j] = auctions[j] /\ j[1] = rebalance.nonce /\ auctions[j].sell = b
          /\ auctions'[k].buy_limit = bl
      BY <1>2, <1>10, <2>4
    <3>2. d[b].high <= auctions[j].sell_limit /\ auctions[j].sell_limit \in Nat
      BY <1>7, <1>8, <2>4, <3>1
    <3> QED BY <1>3, <1>4, <1>5, <3>1, <3>2
  <2> QED BY <1>2, <2>1, <2>2, <2>3, <2>4
<1> QED BY <1>9, <1>10 DEF LimitsInv, NoDoubleTrading, RangesNarrowed, e

LEMMA LimitsStep == AuctionTypeInv /\ LimitsInv /\ [SystemNext]_allVars => LimitsInv'
<1> SUFFICES ASSUME AuctionTypeInv, LimitsInv, [SystemNext]_allVars PROVE LimitsInv'
  OBVIOUS
<1>1. CASE [Next]_vars /\ UNCHANGED auctionVars
  BY <1>1, LimitsKept DEF auctionVars
<1>2. CASE Started
  BY <1>2, LimitsStarted
<1>3. CASE Detailed
  <2>1. /\ rebalance'.nonce = rebalance.nonce /\ UNCHANGED auctions
        /\ \A m \in DOMAIN rebalance.details : rebalance'.details[m] = rebalance.details[m]
    BY <1>3, AddRebalanceDetailsTypes DEF Detailed
  <2> QED BY <2>1, LimitsKept
<1>4. CASE Opened
  <2>1. ASSUME NEW s \in Mints, NEW b \in Mints, NEW sl \in Nat, NEW bl \in Nat,
               NEW sp \in Nat, NEW ep \in Nat, Opens(s, b, sl, bl, sp, ep)
        PROVE  LimitsInv'
    BY <2>1, LimitsOpened
  <2> QED BY <1>4, <2>1, Zenon DEF Opened
<1>5. ASSUME NEW k \in DOMAIN auctions, UNCHANGED rebalance,
             \/ UNCHANGED <<auctions, auctionEnds>>
             \/ EndAuction(k) /\ now > 0
      PROVE  LimitsInv'
  <2>1. CASE UNCHANGED auctions
    BY <1>5, <2>1, LimitsKept
  <2>2. CASE EndAuction(k) /\ now > 0
    <3>1. /\ DOMAIN auctions' = DOMAIN auctions
          /\ \A j \in DOMAIN auctions :
               /\ auctions'[j].sell = auctions[j].sell /\ auctions'[j].buy = auctions[j].buy
               /\ auctions'[j].sell_limit = auctions[j].sell_limit
               /\ auctions'[j].buy_limit = auctions[j].buy_limit
      BY <2>2, EndedFacts
    <3> QED BY <1>5, <3>1, LimitsKept
  <2> QED BY <1>5, <2>1, <2>2
<1>6. CASE Closed
  BY <1>5, <1>6, CloseAuctionTypes DEF Closed
<1>7. CASE Filled
  <2>1. ASSUME NEW k \in DOMAIN auctions, NEW x \in Bids,
               NEW price \in GetPrice(auctions[k]), Bid(k, x, price)
        PROVE  LimitsInv'
    BY <1>5, <2>1, BidTypes
  <2> QED BY <1>7, <2>1, Zenon DEF Filled
<1>8. CASE FilledElsewhere
  <2>1. UNCHANGED <<auctions, rebalance>>
    BY <1>8 DEF FilledElsewhere, ForeignBid, Trade
  <2> QED BY <2>1, LimitsKept
<1> QED BY <1>1, <1>2, <1>3, <1>4, <1>6, <1>7, <1>8, SystemSteps

\* No auction of a rebalance buys a token above the level down to which another one
\* sells it, whatever limits the launcher picks and in whatever order.
THEOREM NeverTradedTwice == AuctionSpec => []NoDoubleTrading
<1>1. AuctionInit => LimitsInv
  BY DEF AuctionInit, LimitsInv, NoDoubleTrading, RangesNarrowed
<1>2. LimitsInv => NoDoubleTrading
  BY DEF LimitsInv
<1> QED BY <1>1, <1>2, LimitsStep, AuctionTypesHold, PTL DEF AuctionSpec

-----------------------------------------------------------------------------
(* An ended auction stays ended *)

Unreopened ==
  \A k \in DOMAIN auctions :
    /\ k \in DOMAIN auctions'
    /\ [auctions[k] EXCEPT !.end = 0] = [auctions'[k] EXCEPT !.end = 0]
    /\ auctions[k].end < now => auctions'[k] = auctions[k]

LEMMA UnreopenedStep ==
  ASSUME AuctionTypeInv, [SystemNext]_allVars
  PROVE  Unreopened
<1>0. \A k \in DOMAIN auctions : auctions[k] \in AuctionRecord
  BY DEF AuctionTypeInv, AuctionTypes
<1>1. CASE UNCHANGED auctions
  BY <1>1 DEF Unreopened
<1>2. CASE Opened
  <2>1. ASSUME NEW s \in Mints, NEW b \in Mints, NEW sl \in Nat, NEW bl \in Nat,
               NEW sp \in Nat, NEW ep \in Nat, Opens(s, b, sl, bl, sp, ep)
        PROVE  Unreopened
    <3>1. PICK kk, new : NewAuction(kk, new, s, b, sl, bl)
      BY <2>1, OpenedFacts DEF Opens
    <3>2. /\ DOMAIN auctions' = DOMAIN auctions \cup {kk}
          /\ \A k \in DOMAIN auctions : auctions'[k] = auctions[k]
      BY <3>1 DEF NewAuction
    <3> QED BY <3>2 DEF Unreopened
  <2> QED BY <1>2, <2>1, Zenon DEF Opened
<1>3. ASSUME NEW k \in DOMAIN auctions, EndAuction(k), now > 0, now <= auctions[k].end
      PROVE  Unreopened
  <2>1. /\ DOMAIN auctions' = DOMAIN auctions
        /\ auctions'[k] = [auctions[k] EXCEPT !.end = now - 1]
        /\ \A j \in DOMAIN auctions : j # k => auctions'[j] = auctions[j]
    BY <1>3, EndedFacts
  <2>2. [auctions[k] EXCEPT !.end = 0] = [auctions'[k] EXCEPT !.end = 0]
    BY <1>0, <2>1 DEF AuctionRecord
  <2>3. ~(auctions[k].end < now)
    BY <1>0, <1>3 DEF AuctionRecord, AuctionTypeInv, TypeOK
  <2>4. ASSUME NEW j \in DOMAIN auctions
        PROVE  /\ j \in DOMAIN auctions'
               /\ [auctions[j] EXCEPT !.end = 0] = [auctions'[j] EXCEPT !.end = 0]
               /\ auctions[j].end < now => auctions'[j] = auctions[j]
    <3>1. CASE j = k
      BY <2>1, <2>2, <2>3, <3>1
    <3>2. CASE j # k
      BY <2>1, <3>2
    <3> QED BY <3>1, <3>2
  <2> QED BY <2>4 DEF Unreopened
<1>4. CASE Closed
  BY <1>1, <1>3, <1>4, CloseAuctionTypes DEF Closed
<1>5. CASE Filled
  <2>1. ASSUME NEW k \in DOMAIN auctions, NEW x \in Bids,
               NEW price \in GetPrice(auctions[k]), Bid(k, x, price)
        PROVE  Unreopened
    BY <1>1, <1>3, <2>1, BidTypes
  <2> QED BY <1>5, <2>1, Zenon DEF Filled
<1>6. CASE \/ ([Next]_vars /\ UNCHANGED auctionVars) \/ Started \/ Detailed
           \/ FilledElsewhere
  <2>1. UNCHANGED auctions
    BY <1>6 DEF auctionVars, Started, StartRebalance, Detailed, AddRebalanceDetails,
                FilledElsewhere, ForeignBid
  <2> QED BY <1>1, <2>1
<1> QED BY <1>2, <1>4, <1>5, <1>6, SystemSteps

\* An auction that is over is never open again, and only its end ever changes.
THEOREM EndsAreFinal == AuctionSpec => EndedForGood
<1>1. AuctionTypeInv /\ [SystemNext]_allVars => [Unreopened]_allVars
  BY UnreopenedStep
<1> QED BY <1>1, AuctionTypesHold, PTL DEF AuctionSpec, EndedForGood, Unreopened

-----------------------------------------------------------------------------
(* Trades stay within prices and limits *)

\* The conversion to a token amount keeps an order.
LEMMA TokenFloorMonotone ==
  ASSUME NEW x \in Nat, NEW y \in Nat, x <= y
  PROVE  ToTokenFloor(x) <= ToTokenFloor(y)
<1>1. x \div D9 <= y \div D9 /\ x \div D9 \in Nat /\ y \div D9 \in Nat
  BY QuotientMonotone, D18Pos, NatOps
<1> QED BY <1>1, DecimalAssumption DEF ToTokenFloor, SatU64

\* A bid at a higher price costs no less.
LEMMA BidAmountMonotone ==
  ASSUME NEW amount \in Nat, NEW p \in Nat, NEW q \in Nat, p <= q
  PROVE  BidAmount(amount, p) <= BidAmount(amount, q)
<1>1. FromTokenAmount(amount) \in Nat
  BY Conversions
<1>2. \A n \in Nat : n * p <= n * q /\ n * p \in Nat /\ n * q \in Nat
  OBVIOUS
<1>3. /\ (FromTokenAmount(amount) * p) \div D18 <= (FromTokenAmount(amount) * q) \div D18
      /\ (FromTokenAmount(amount) * p) \div D18 \in Nat
      /\ (FromTokenAmount(amount) * q) \div D18 \in Nat
  BY <1>1, <1>2, QuotientMonotone, D18Pos, NatOps
<1> QED BY <1>3, TokenFloorMonotone DEF BidAmount

\* What the room below the buy limit pays for never costs more than that room.
LEMMA RoomSuffices ==
  ASSUME NEW amount \in Nat, NEW price \in Nat, price > 0, NEW room \in Nat,
         amount <= ToTokenFloor((FromTokenAmount(room) * D18) \div price)
  PROVE  BidAmount(amount, price) <= room
<1> DEFINE R == FromTokenAmount(room)
           A == FromTokenAmount(amount)
           q == (R * D18) \div price
<1>1. R \in Nat /\ A \in Nat /\ R * D18 \in Nat /\ R = room * D9 /\ A = amount * D9
  BY Conversions, D18Pos, NatOps DEF FromTokenAmount
<1>2. q \in Nat /\ q * price <= R * D18
  BY <1>1, NatOps, FloorBound
<1> HIDE DEF q
<1>3. FromTokenAmount(ToTokenFloor(q)) <= q /\ ToTokenFloor(q) \in Nat
  BY <1>2, Conversions DEF U64
<1>4. A <= q
  <2>1. \A m, n, z \in Nat : m <= n => m * z <= n * z /\ m * z \in Nat /\ n * z \in Nat
    OBVIOUS
  <2>2. amount <= ToTokenFloor(q)
    BY DEF q
  <2>3. amount * D9 <= ToTokenFloor(q) * D9 /\ ToTokenFloor(q) * D9 \in Nat
    BY <1>3, <2>1, <2>2, D18Pos
  <2> QED BY <1>1, <1>2, <1>3, <2>3 DEF FromTokenAmount
<1> HIDE DEF A, R
<1>5. A * price <= R * D18 /\ A * price \in Nat
  <2>1. \A m, n, z \in Nat : m <= n => m * z <= n * z /\ m * z \in Nat /\ n * z \in Nat
    OBVIOUS
  <2>2. A * price <= q * price /\ A * price \in Nat /\ q * price \in Nat
    BY <1>1, <1>2, <1>4, <2>1
  <2> QED BY <1>1, <1>2, <2>2
<1>6. (A * price) \div D18 <= R /\ (A * price) \div D18 \in Nat
  BY <1>1, <1>5, QuotientBound, D18Pos, NatOps
<1> DEFINE c == (A * price) \div D18
<1> HIDE DEF c
<1>7. c <= room * D9 /\ c \in Nat
  BY <1>1, <1>6 DEF c
<1>8. c \div D9 <= room /\ c \div D9 \in Nat
  BY <1>7, QuotientBound, D18Pos, NatOps
<1>9. ToTokenFloor(c) <= room
  BY <1>8, DecimalAssumption DEF ToTokenFloor, SatU64
<1> QED BY <1>9 DEF BidAmount, c, A

\* The instructions of module Folio turn no basket token into another: each of them
\* moves all the amounts it changes in the same direction.
LEMMA OneWay ==
  ASSUME TypeOK, [Next]_vars
  PROVE  \/ \A m \in Mints : basket'[m] >= basket[m]
         \/ \A m \in Mints : basket'[m] <= basket[m]
<1>0. basket \in [Mints -> U64] /\ \A m \in Mints : basket[m] \in Nat
  BY DecimalAssumption DEF TypeOK, AssetTypes, U64
<1>1. \/ basket' = basket
      \/ \E g \in [Mints -> Nat] :
           \/ basket' = [m \in Mints |-> basket[m] + g[m]]
           \/ basket' = [m \in Mints |-> basket[m] - g[m]]
  <2>1. ASSUME NEW u \in Users, NEW s \in ShareAmounts, MintFolioToken(u, s)
        PROVE  \E g \in [Mints -> Nat] : basket' = [m \in Mints |-> basket[m] + g[m]]
    BY <2>1, MintFolioTokenType, DecimalAssumption DEF U64
  <2>2. ASSUME NEW u \in Users, NEW s \in ShareAmounts, BurnFolioToken(u, s)
        PROVE  \E g \in [Mints -> Nat] : basket' = [m \in Mints |-> basket[m] - g[m]]
    BY <2>2, BurnFolioTokenType, DecimalAssumption DEF U64
  <2>3. ASSUME NEW a, NEW b \in Batches, NEW s, AddToBasket(a, b, s)
        PROVE  \E g \in [Mints -> Nat] : basket' = [m \in Mints |-> basket[m] + g[m]]
    <3> DEFINE g == [m \in Mints |-> Amount(b, m)]
    <3>1. g \in [Mints -> Nat]
      BY AmountType, DecimalAssumption DEF U64
    <3>2. basket' = [m \in Mints |-> basket[m] + g[m]]
      BY <2>3 DEF AddToBasket
    <3> QED BY <3>1, <3>2
  <2>4. ASSUME NEW a, NEW n \in Mints, RemoveFromBasket(a, n)
        PROVE  \E g \in [Mints -> Nat] : basket' = [m \in Mints |-> basket[m] - g[m]]
    <3> DEFINE g == [m \in Mints |-> IF m = n THEN basket[m] ELSE 0]
    <3>1. g \in [Mints -> Nat]
      BY <1>0
    <3>2. basket' = [m \in Mints |-> basket[m] - g[m]]
      <4>1. basket' = [basket EXCEPT ![n] = 0]
        BY <2>4 DEF RemoveFromBasket
      <4>2. basket' = [m \in Mints |-> IF m = n THEN 0 ELSE basket[m]]
        BY <1>0, <4>1
      <4>3. \A m \in Mints : basket[m] - g[m] = IF m = n THEN 0 ELSE basket[m]
        BY <1>0
      <4> QED BY <4>2, <4>3
    <3> QED BY <3>1, <3>2
  <2>5. ASSUME NEW S, MigrateFolioTokens(S)
        PROVE  \E g \in [Mints -> Nat] : basket' = [m \in Mints |-> basket[m] - g[m]]
    <3> DEFINE g == [m \in Mints |-> IF m \in S THEN basket[m] ELSE 0]
    <3>1. g \in [Mints -> Nat]
      BY <1>0
    <3>2. basket' = [m \in Mints |-> basket[m] - g[m]]
      BY <1>0, <2>5 DEF MigrateFolioTokens
    <3> QED BY <3>1, <3>2
  <2>6. ASSUME \/ StaysPut
               \/ \E u \in Users, b \in Batches :
                    \/ AddToPendingBasket(u, b)
                    \/ RemoveFromPendingBasket(u, b)
                    \/ RedeemFromPendingBasket(u, b)
               \/ \E u \in Users : CloseUserPendingTokenAmount(u)
               \/ \E b \in Donations : Donate(b)
        PROVE  basket' = basket
    BY <2>6 DEF StaysPut, AddToPendingBasket, RemoveFromPendingBasket,
                RedeemFromPendingBasket, CloseUserPendingTokenAmount, Donate, assetVars
  <2> QED BY <2>1, <2>2, <2>3, <2>4, <2>5, <2>6, StepCases
<1>2. CASE basket' = basket
  BY <1>0, <1>2
<1>3. ASSUME NEW g \in [Mints -> Nat], basket' = [m \in Mints |-> basket[m] + g[m]]
      PROVE  \A m \in Mints : basket'[m] >= basket[m]
  BY <1>0, <1>3
<1>4. ASSUME NEW g \in [Mints -> Nat], basket' = [m \in Mints |-> basket[m] - g[m]]
      PROVE  \A m \in Mints : basket'[m] <= basket[m]
  BY <1>0, <1>4
<1> QED BY <1>1, <1>2, <1>3, <1>4

WithinLimits ==
  \A s, b \in Mints :
    (basket'[s] < basket[s] /\ basket'[b] > basket[b]) =>
      /\ <<rebalance.nonce, {s, b}>> \in DOMAIN auctionEnds
      /\ \E auc \in Biddable :
           LET T == GetTotalSupply(folio', supply')
           IN  /\ auc.sell = s /\ auc.buy = b /\ IsOpen(auc)
               /\ basket'[b] - basket[b]
                    >= ToTokenFloor((FromTokenAmount(basket[s] - basket'[s])
                                       * LowerPrice(auc)) \div D18)
               /\ basket'[s] >= SellLimitBalance(auc.sell_limit, T)
               /\ basket'[b] <= BuyLimitBalance(auc.buy_limit, T)

\* A bid is bounded by both limits at the supply it accrues to.
LEMMA TradeWithinLimits ==
  ASSUME AuctionTypeInv, NEW auc \in Biddable, NEW x \in Bids,
         NEW price \in GetPrice(auc), Trade(auc, x, price),
         <<rebalance.nonce, {auc.sell, auc.buy}>> \in DOMAIN auctionEnds
  PROVE  WithinLimits
<1> DEFINE s == auc.sell
           b == auc.buy
           amount == x.sell_amount
           bought == BidAmount(amount, price)
           T == GetTotalSupply(Poke(folio, supply, now, GetFeeDetails), supply)
           sellLimit == SellLimitBalance(auc.sell_limit, T)
           buyLimit == BuyLimitBalance(auc.buy_limit, T)
<1>1. /\ s \in Mints /\ b \in Mints /\ s # b
      /\ bought \in Nat /\ amount \in Nat
      /\ basket' = [basket EXCEPT ![s] = basket[s] - amount, ![b] = basket[b] + bought]
      /\ basket \in [Mints -> U64] /\ \A m \in Mints : basket[m] \in Nat
  BY TradeFacts, DecimalAssumption DEF AuctionTypeInv, TypeOK, AssetTypes, U64
<1>2. /\ IsOpen(auc) /\ price # 0 /\ bought # 0
      /\ T = GetTotalSupply(folio', supply')
  BY DEF Trade
<1>3. /\ auc \in AuctionRecord
      /\ price \in Nat /\ price >= LowerPrice(auc) /\ LowerPrice(auc) \in Nat
  BY BiddableTypes, PriceBounds
<1>4. T \in Nat
  BY PokeType, TotalSupplyNat DEF Trade, AuctionTypeInv, TypeOK
<1>5. sellLimit \in Nat /\ buyLimit \in Nat
  <2>1. auc.sell_limit \in Nat /\ auc.buy_limit \in Nat
    BY <1>3 DEF AuctionRecord
  <2>2. (T * auc.sell_limit) \div D18 \in Nat /\ (T * auc.buy_limit) \div D18 \in Nat
    BY <1>4, <2>1, NatOps, D18Pos
  <2> QED BY <2>2, Conversions DEF SellLimitBalance, BuyLimitBalance, U64
<1> DEFINE room == SaturatingSub(buyLimit, basket[b])
<1>6. /\ amount <= SaturatingSub(basket[s], sellLimit)
      /\ amount <= ToTokenFloor((FromTokenAmount(room) * D18) \div price)
  <2>1. SellAvailable(auc, price, T) >= amount
    BY DEF Trade
  <2>2. SaturatingSub(basket[s], sellLimit) \in Nat /\ room \in Nat
    BY <1>1, <1>5 DEF SaturatingSub
  <2>3. ToTokenFloor((FromTokenAmount(room) * D18) \div price) \in Nat
    <3>1. FromTokenAmount(room) * D18 \in Nat
      BY <2>2, Conversions, NatOps, D18Pos
    <3>2. (FromTokenAmount(room) * D18) \div price \in Nat
      <4>1. price \in Nat /\ price > 0
        BY <1>2, <1>3
      <4>2. \A n \in Nat : n \div price \in Nat
        BY <4>1, NatOps
      <4> HIDE DEF room
      <4> QED BY <3>1, <4>2, Zenon
    <3> QED BY <3>2, Conversions DEF U64
  <2> QED BY <1>1, <2>1, <2>2, <2>3 DEF SellAvailable
<1>7. bought >= BidAmount(amount, LowerPrice(auc))
  BY <1>1, <1>3, BidAmountMonotone
<1>8. room \in Nat /\ bought <= room
  <2>1. room \in Nat
    BY <1>1, <1>5 DEF SaturatingSub
  <2> QED BY <1>1, <1>2, <1>3, <1>6, <2>1, RoomSuffices
<1> HIDE DEF bought, T, sellLimit, buyLimit, amount
<1>9. basket[b] + bought <= buyLimit
  BY <1>1, <1>2, <1>5, <1>8 DEF SaturatingSub
<1> SUFFICES ASSUME NEW m \in Mints, NEW n \in Mints,
                    basket'[m] < basket[m], basket'[n] > basket[n]
             PROVE  /\ s = m /\ b = n
                    /\ basket'[n] - basket[n] >= BidAmount(basket[m] - basket'[m], LowerPrice(auc))
                    /\ basket'[m] >= sellLimit
                    /\ basket'[n] <= buyLimit
  BY <1>2 DEF WithinLimits, BidAmount, sellLimit, buyLimit
<1>10. s = m /\ b = n
  BY <1>1
<1>11. /\ basket'[m] = basket[m] - amount /\ basket'[n] = basket[n] + bought
       /\ basket[m] \in Nat /\ basket[n] \in Nat
  BY <1>1, <1>10
<1>12. basket[m] - basket'[m] = amount /\ basket'[n] - basket[n] = bought /\ amount > 0
  BY <1>1, <1>11
<1>13. basket'[m] >= sellLimit
  BY <1>1, <1>5, <1>6, <1>10, <1>11, <1>12 DEF SaturatingSub
<1> QED BY <1>7, <1>9, <1>10, <1>11, <1>12, <1>13

LEMMA WithinLimitsStep ==
  ASSUME AuctionTypeInv, [SystemNext]_allVars
  PROVE  WithinLimits
<1>0. TypeOK /\ \A m \in Mints : basket[m] \in Nat
  BY DecimalAssumption DEF AuctionTypeInv, TypeOK, AssetTypes, U64
<1>1. CASE [Next]_vars /\ UNCHANGED auctionVars
  <2>1. \A m \in Mints : basket'[m] \in Nat
    BY <1>0, <1>1, TypeStep, DecimalAssumption DEF TypeOK, AssetTypes, U64
  <2>2. CASE \A m \in Mints : basket'[m] >= basket[m]
    BY <1>0, <2>1, <2>2 DEF WithinLimits
  <2>3. CASE \A m \in Mints : basket'[m] <= basket[m]
    BY <1>0, <2>1, <2>3 DEF WithinLimits
  <2> QED BY <1>0, <1>1, <2>2, <2>3, OneWay
<1>2. CASE Started \/ Detailed \/ Opened \/ Closed
  <2>1. basket' = basket
    BY <1>2, AssetsAside DEF assetVars
  <2> QED BY <1>0, <2>1 DEF WithinLimits
<1>3. CASE Filled \/ FilledElsewhere
  <2>1. PICK auc \in Biddable, x \in Bids : \E price \in GetPrice(auc) :
          /\ Trade(auc, x, price)
          /\ <<rebalance.nonce, {auc.sell, auc.buy}>> \in DOMAIN auctionEnds
    BY <1>3, FilledTrades DEF Traded
  <2> QED BY <2>1, TradeWithinLimits
<1> QED BY <1>1, <1>2, <1>3, SystemSteps

\* Whatever is traded is of a pair that the current rebalance has auctioned, and is
\* traded in an open auction, of this folio or of another one, at no less than the
\* lower of its prices and inside its limits at the supply of the moment.
THEOREM TradesAreBounded == AuctionSpec => TradesWithinLimits
<1>1. AuctionTypeInv /\ [SystemNext]_allVars => [WithinLimits]_allVars
  BY WithinLimitsStep
<1> QED BY <1>1, AuctionTypesHold, PTL DEF AuctionSpec, TradesWithinLimits, WithinLimits

-----------------------------------------------------------------------------
(* Custody, with auctions *)

\* A bid takes from the basket what leaves the account, and adds to it at most what
\* arrives.
LEMMA AuctionSurplusStep ==
  ASSUME AuctionTypeInv, [SystemNext]_allVars, NEW m \in SupportedMints
  PROVE  Surplus(m)' >= Surplus(m)
<1>0. TypeOK /\ TypeOK' /\ m \in Mints
  BY AuctionTypeStep DEF AuctionTypeInv, SupportedMints
<1>1. CASE [Next]_vars /\ UNCHANGED auctionVars
  BY <1>0, <1>1, SurplusStep
<1>2. CASE Started \/ Detailed \/ Opened \/ Closed
  <2>1. UNCHANGED assetVars /\ UNCHANGED userVars
    BY <1>2, AssetsAside
  <2>2. ata'[m] - basket'[m] >= ata[m] - basket[m] /\ UNCHANGED <<minting, redeeming>>
    BY <1>0, <2>1, SurplusInt DEF assetVars, userVars
  <2> QED BY <1>0, <2>2, NoUserStep
<1>3. CASE Filled \/ FilledElsewhere
  <2>1. ASSUME NEW auc \in Biddable, NEW x \in Bids,
               NEW price \in GetPrice(auc), Trade(auc, x, price)
        PROVE  Surplus(m)' >= Surplus(m)
    <3> DEFINE s == auc.sell
               b == auc.buy
               amount == x.sell_amount
               bought == BidAmount(x.sell_amount, price)
    <3>1. /\ s \in Mints /\ b \in Mints /\ s # b
          /\ bought \in Nat /\ amount \in Nat /\ x.extra \in Nat
          /\ basket' = [basket EXCEPT ![s] = basket[s] - amount, ![b] = basket[b] + bought]
          /\ ata' = [ata EXCEPT ![s] = ata[s] - amount, ![b] = ata[b] + (bought + x.extra)]
      BY <2>1, TradeFacts, DecimalAssumption DEF U64
    <3>2. UNCHANGED <<minting, redeeming>>
      BY <2>1, TradeTypes DEF userVars
    <3>3. /\ ata \in [Mints -> U64] /\ basket \in [Mints -> U64]
          /\ \A n \in Mints : ata[n] \in Nat /\ basket[n] \in Nat
      BY <1>0, SurplusInt DEF TypeOK, AssetTypes
    <3> HIDE DEF s, b, bought, amount
    <3>4. ata'[m] - basket'[m] >= ata[m] - basket[m]
      <4>1. CASE m = s
        BY <3>1, <3>3, <4>1
      <4>2. CASE m = b
        BY <3>1, <3>3, <4>2
      <4>3. CASE m # s /\ m # b
        BY <1>0, <3>1, <3>3, <4>3
      <4> QED BY <4>1, <4>2, <4>3
    <3> QED BY <1>0, <3>2, <3>4, NoUserStep
  <2>2. Traded
    BY <1>3, FilledTrades
  <2> QED BY <2>1, <2>2, Zenon DEF Traded
<1> QED BY <1>1, <1>2, <1>3, SystemSteps

\* A bid asks is_supported_spl_token of the token it brings into the basket.
LEMMA SupportedWithBids == AuctionSpec => []BasketSupported
<1>1. AuctionInit => BasketSupported
  BY DEF AuctionInit, Init, BasketSupported
<1>2. AuctionTypeInv /\ BasketSupported /\ [SystemNext]_allVars => BasketSupported'
  <2> SUFFICES ASSUME AuctionTypeInv, BasketSupported, [SystemNext]_allVars
               PROVE  BasketSupported'
    OBVIOUS
  <2>1. CASE [Next]_vars /\ UNCHANGED auctionVars
    BY <2>1, SupportedStep
  <2>2. CASE Started \/ Detailed \/ Opened \/ Closed
    BY <2>2, AssetsAside DEF assetVars, BasketSupported, SupportedMints
  <2>3. CASE Filled \/ FilledElsewhere
    <3>1. PICK auc \in Biddable, x \in Bids : \E price \in GetPrice(auc) : Trade(auc, x, price)
      BY <2>3, FilledTrades DEF Traded
    <3>2. auc.buy \in SupportedMints /\ basketMints' \subseteq basketMints \cup {auc.buy}
      BY <3>1 DEF Trade, IsSupported
    <3> QED BY <3>2 DEF BasketSupported, SupportedMints
  <2> QED BY <2>1, <2>2, <2>3, SystemSteps
<1> QED BY <1>1, <1>2, AuctionTypesHold, PTL DEF AuctionSpec

\* With auctions among the instructions too, those of other folios included, the
\* folio's token accounts cover the basket and, of every mint without a transfer fee,
\* every claim of a user: bids pay for what they take.
THEOREM CustodyWithBids == AuctionSpec => []Custody
<1>1. AuctionInit => Custody
  BY InitCustody DEF AuctionInit
<1>2. AuctionTypeInv /\ BasketSupported /\ BasketSupported' /\ Custody /\ [SystemNext]_allVars
        => Custody'
  <2> SUFFICES ASSUME AuctionTypeInv, BasketSupported, BasketSupported', Custody,
                      [SystemNext]_allVars
               PROVE  Custody'
    OBVIOUS
  <2>1. TypeOK /\ TypeOK'
    BY AuctionTypeStep DEF AuctionTypeInv
  <2> QED BY <2>1, AuctionSurplusStep, CustodyStays
<1> QED BY <1>1, <1>2, AuctionTypesHold, SupportedWithBids, PTL DEF AuctionSpec

\* Nor does any of them, bids included, spend the surplus of such a mint.
THEOREM SurplusSafeFromBids == AuctionSpec => SurplusNeverSpent
<1>1. AuctionTypeInv /\ [SystemNext]_allVars
        => [\A m \in SupportedMints : Surplus(m)' >= Surplus(m)]_vars
  BY AuctionSurplusStep
<1> QED BY <1>1, AuctionTypesHold, PTL DEF AuctionSpec, SurplusNeverSpent

\* Bids leave users' accounts alone, so that claims stay in their slots.
THEOREM ClaimsReachableWithBids == AuctionSpec => []ClaimsReachable
<1>1. AuctionInit => ClaimsReachable
  BY DEF AuctionInit, Init, ClaimsReachable, Claim
<1>2. AuctionTypeInv /\ ClaimsReachable /\ [SystemNext]_allVars => ClaimsReachable'
  <2> SUFFICES ASSUME AuctionTypeInv, ClaimsReachable, [SystemNext]_allVars
               PROVE  ClaimsReachable'
    OBVIOUS
  <2>1. CASE [Next]_vars /\ UNCHANGED auctionVars
    BY <2>1, ReachableStep DEF AuctionTypeInv
  <2>2. CASE UNCHANGED userVars
    BY <2>2 DEF ClaimsReachable, Claim, userVars
  <2>3. Started \/ Detailed \/ Opened \/ Closed => UNCHANGED userVars
    BY AssetsAside
  <2>4. ASSUME Filled \/ FilledElsewhere PROVE UNCHANGED userVars
    <3>1. Traded
      BY <2>4, FilledTrades
    <3> QED BY <3>1 DEF Traded, Trade
  <2> QED BY <2>1, <2>2, <2>3, <2>4, SystemSteps
<1> QED BY <1>1, <1>2, AuctionTypesHold, PTL DEF AuctionSpec

\* A bid that empties a slot frees it, one that buys a new token takes one: what mint
\* and burn visit stays the whole backing.
THEOREM BackingInSlotsWithBids == AuctionSpec => []BackingInSlots
<1>1. AuctionInit => BackingInSlots
  BY DEF AuctionInit, Init, BackingInSlots
<1>2. AuctionTypeInv /\ BackingInSlots /\ [SystemNext]_allVars => BackingInSlots'
  <2> SUFFICES ASSUME AuctionTypeInv, BackingInSlots, [SystemNext]_allVars
               PROVE  BackingInSlots'
    OBVIOUS
  <2>1. CASE [Next]_vars /\ UNCHANGED auctionVars
    BY <2>1, BackingStep DEF AuctionTypeInv
  <2>2. CASE UNCHANGED assetVars
    BY <2>2 DEF BackingInSlots, assetVars
  <2>3. Started \/ Detailed \/ Opened \/ Closed => UNCHANGED assetVars
    BY AssetsAside
  <2>4. ASSUME NEW auc \in Biddable, NEW x \in Bids,
               NEW price \in GetPrice(auc), Trade(auc, x, price)
        PROVE  BackingInSlots'
    <3> DEFINE s == auc.sell
               b == auc.buy
               left == basket[s] - x.sell_amount
               bought == BidAmount(x.sell_amount, price)
    <3>1. /\ s \in Mints /\ b \in Mints /\ s # b
          /\ basket' = [basket EXCEPT ![s] = left, ![b] = basket[b] + bought]
      BY <2>4, TradeFacts
    <3>2. basketMints' = (basketMints \ (IF left = 0 THEN {s} ELSE {})) \cup {b}
      BY <2>4 DEF Trade
    <3>3. basket \in [Mints -> U64] /\ s \in basketMints
      BY <2>4 DEF AuctionTypeInv, TypeOK, AssetTypes, Trade
    <3> HIDE DEF s, b, left, bought
    <3>4. ASSUME NEW m \in Mints, basket'[m] > 0 PROVE m \in basketMints'
      <4>1. CASE m = b
        BY <3>2, <4>1
      <4>2. CASE m = s /\ m # b
        BY <3>1, <3>2, <3>3, <3>4, <4>2
      <4>3. CASE m # s /\ m # b
        BY <3>1, <3>2, <3>3, <3>4, <4>3 DEF BackingInSlots
      <4> QED BY <4>1, <4>2, <4>3
    <3> QED BY <3>4 DEF BackingInSlots
  <2>5. Filled \/ FilledElsewhere => Traded
    BY FilledTrades
  <2> QED BY <2>1, <2>2, <2>3, <2>4, <2>5, SystemSteps, Zenon DEF Traded
<1> QED BY <1>1, <1>2, AuctionTypesHold, PTL DEF AuctionSpec

=============================================================================
