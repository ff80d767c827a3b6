--------------------------- MODULE CustodyProofs ---------------------------
(***************************************************************************)
(* Custody for every number of users and mints: the token accounts of a    *)
(* folio cover its basket and, of a mint without a transfer fee, every     *)
(* claim of its users; the tokens beyond them are never paid out; and      *)
(* claims and backing stay in the slots that the instructions look at.     *)
(* Two facts carry the first two: no step lowers the surplus of a mint     *)
(* without a transfer fee, and no other mint gets into the basket.  What   *)
(* else the instructions promise to holders and users follows: what a      *)
(* migration moves, what a killed folio still does, that mints and burns   *)
(* do not dilute the other holders, that claims fall only by being         *)
(* honoured, and that the fee reserve covers every open distribution.      *)
(***************************************************************************)
EXTENDS FolioProofs

-----------------------------------------------------------------------------
(* What a user is owed *)

\* Claims and their sum are natural numbers.
LEMMA ClaimNat ==
  ASSUME TypeOK, NEW m \in Mints
  PROVE  /\ \A u \in Users : Claim(u, m) \in Nat
         /\ [u \in Users |-> Claim(u, m)] \in [1..NUsers -> Nat]
         /\ NUsers \in Nat
         /\ Owed(m) \in Nat
<1>1. \A u \in Users : minting[u][m] \in Nat /\ redeeming[u][m] \in Nat
  BY DecimalAssumption DEF TypeOK, UserTypes, U64
<1>2. \A u \in Users : Claim(u, m) \in Nat
  BY <1>1 DEF Claim
<1>3. [u \in Users |-> Claim(u, m)] \in [1..NUsers -> Nat]
  BY <1>2 DEF Users
<1>4. NUsers \in Nat
  BY FolioAssumption
<1> QED BY <1>2, <1>3, <1>4, TotalNat DEF Owed

\* The balances of a mint are natural numbers, its surplus an integer.
LEMMA SurplusInt ==
  ASSUME TypeOK, NEW m \in Mints
  PROVE  ata[m] \in Nat /\ basket[m] \in Nat /\ Surplus(m) \in Int
<1>1. ata[m] \in Nat /\ basket[m] \in Nat
  BY DecimalAssumption DEF TypeOK, AssetTypes, U64
<1> QED BY <1>1, ClaimNat DEF Surplus

\* The types of the next state, as facts of this one.
LEMMA NextNat ==
  ASSUME TypeOK', NEW m \in Mints
  PROVE  /\ \A u \in Users : Claim(u, m)' \in Nat
         /\ [u \in Users |-> Claim(u, m)'] \in [1..NUsers -> Nat]
         /\ Owed(m)' = Total([u \in Users |-> Claim(u, m)'], NUsers)
         /\ Owed(m)' \in Nat
         /\ ata'[m] \in Nat /\ basket'[m] \in Nat
<1>1. \A u \in Users : minting'[u][m] \in Nat /\ redeeming'[u][m] \in Nat
  BY DecimalAssumption DEF TypeOK, UserTypes, U64
<1>2. \A u \in Users : Claim(u, m)' \in Nat
  BY <1>1 DEF Claim
<1>3. [u \in Users |-> Claim(u, m)'] \in [1..NUsers -> Nat]
  BY <1>2 DEF Users
<1>4. Owed(m)' = Total([u \in Users |-> Claim(u, m)'], NUsers)
  BY DEF Owed, Users
<1>5. NUsers \in Nat
  BY FolioAssumption
<1>6. Owed(m)' \in Nat
  BY <1>3, <1>4, <1>5, TotalNat
<1>7. ata'[m] \in Nat /\ basket'[m] \in Nat
  BY DecimalAssumption DEF TypeOK, AssetTypes, U64
<1> QED BY <1>2, <1>3, <1>4, <1>6, <1>7

\* A step of one user is judged by that user's claim alone.
LEMMA OneUserStep ==
  ASSUME TypeOK, TypeOK', NEW u \in Users, NEW m \in Mints,
         \A v \in Users : v # u => Claim(v, m)' = Claim(v, m),
         ata'[m] - basket'[m] - Claim(u, m)' >= ata[m] - basket[m] - Claim(u, m)
  PROVE  Surplus(m)' >= Surplus(m)
<1> DEFINE f == [v \in Users |-> Claim(v, m)]
           g == [v \in Users |-> Claim(v, m)']
<1>1. /\ f \in [1..NUsers -> Nat] /\ NUsers \in Nat /\ u \in 1..NUsers
      /\ f[u] = Claim(u, m) /\ Owed(m) = Total(f, NUsers)
      /\ f[u] \in Nat /\ Owed(m) \in Nat
  BY ClaimNat DEF Users, Owed
<1>2. /\ g \in [1..NUsers -> Nat] /\ g[u] = Claim(u, m)'
      /\ Owed(m)' = Total(g, NUsers) /\ g[u] \in Nat /\ Owed(m)' \in Nat
  BY NextNat
<1>3. \A i \in 1..NUsers : i # u => g[i] = f[i]
  BY DEF Users
<1>4. ata[m] \in Nat /\ basket[m] \in Nat /\ ata'[m] \in Nat /\ basket'[m] \in Nat
  BY SurplusInt, NextNat
<1> HIDE DEF f, g
<1>5. Owed(m)' = Owed(m) + g[u] - f[u]
  BY <1>1, <1>2, <1>3, TotalUpdate
<1>6. Surplus(m)' = ata'[m] - basket'[m] - Owed(m)'
  BY DEF Surplus
<1>7. ata'[m] - basket'[m] - g[u] >= ata[m] - basket[m] - f[u]
  BY <1>1, <1>2
<1>8. Surplus(m) = ata[m] - basket[m] - Owed(m)
  BY DEF Surplus
<1>9. g[u] \in Nat /\ f[u] \in Nat /\ Owed(m) \in Nat
  BY <1>1, <1>2, Zenon
<1>10. ata'[m] - basket'[m] - (Owed(m) + g[u] - f[u]) >= ata[m] - basket[m] - Owed(m)
  BY <1>4, <1>7, <1>9
<1> QED BY <1>5, <1>6, <1>8, <1>10

\* A step that touches no pending basket is judged by the two balances alone.
LEMMA NoUserStep ==
  ASSUME TypeOK, TypeOK', UNCHANGED <<minting, redeeming>>, NEW m \in Mints,
         ata'[m] - basket'[m] >= ata[m] - basket[m]
  PROVE  Surplus(m)' >= Surplus(m)
<1>1. Owed(m)' = Owed(m)
  BY DEF Owed, Claim
<1>2. Owed(m) \in Nat
  BY ClaimNat
<1>3. ata[m] \in Nat /\ basket[m] \in Nat /\ ata'[m] \in Nat /\ basket'[m] \in Nat
  BY SurplusInt, NextNat
<1>4. Surplus(m)' = ata'[m] - basket'[m] - Owed(m)'
  BY DEF Surplus
<1> QED BY <1>1, <1>2, <1>3, <1>4 DEF Surplus

-----------------------------------------------------------------------------
(* No instruction lowers a surplus *)

\* Something arrives of what is sent, and all of it where the mint takes no fee.
LEMMA ArrivalAmount ==
  ASSUME NEW b, NEW got \in Arrivals(b), NEW m
  PROVE  Amount(got, m) \in Nat /\ (m \notin FeeMints => Amount(got, m) = Amount(b, m))
<1>1. /\ got \in [DOMAIN b -> U64]
      /\ m \in DOMAIN b => (m \notin FeeMints => got[m] = b[m])
  BY DEF Arrivals
<1> QED BY <1>1, DecimalAssumption DEF Amount, U64

\* A deposit adds the same amount to the token account and to the claim, unless
\* the mint keeps a fee of the transfer.
LEMMA AddToPendingBasketSurplus ==
  ASSUME TypeOK, TypeOK', NEW u \in Users, NEW b \in Batches,
         AddToPendingBasket(u, b), NEW m \in SupportedMints
  PROVE  Surplus(m)' >= Surplus(m)
<1>0. m \in Mints /\ m \notin FeeMints
  BY DEF SupportedMints
<1>1. PICK got \in Arrivals(b) : ata' = Received(got)
  BY DEF AddToPendingBasket
<1>2. ata'[m] = ata[m] + Amount(b, m)
  BY <1>0, <1>1, ArrivalAmount DEF Received
<1>3. /\ basket'[m] = basket[m] /\ redeeming' = redeeming
      /\ minting' = [minting EXCEPT ![u] = [n \in Mints |-> minting[u][n] + Amount(b, n)]]
  BY DEF AddToPendingBasket
<1>4. minting \in [Users -> [Mints -> U64]]
  BY DEF TypeOK, UserTypes
<1>5. \A v \in Users : v # u => Claim(v, m)' = Claim(v, m)
  BY <1>3, <1>4 DEF Claim
<1>6. Claim(u, m)' = minting[u][m] + Amount(b, m) + redeeming[u][m]
  BY <1>0, <1>3, <1>4 DEF Claim
<1>7. Amount(b, m) \in Nat /\ minting[u][m] \in Nat /\ redeeming[u][m] \in Nat
  BY <1>0, AmountType, DecimalAssumption DEF TypeOK, UserTypes, U64
<1>8. ata'[m] - basket'[m] - Claim(u, m)' >= ata[m] - basket[m] - Claim(u, m)
  BY <1>0, <1>2, <1>3, <1>6, <1>7, SurplusInt DEF Claim
<1> QED BY <1>0, <1>5, <1>8, OneUserStep

\* A withdrawal takes the same amount from both.
LEMMA RemoveFromPendingBasketSurplus ==
  ASSUME TypeOK, TypeOK', NEW u \in Users, NEW b \in Batches,
         RemoveFromPendingBasket(u, b), NEW m \in Mints
  PROVE  Surplus(m)' >= Surplus(m)
<1>1. /\ ata'[m] = ata[m] - Amount(b, m) /\ basket'[m] = basket[m]
      /\ redeeming' = redeeming
      /\ minting' = [minting EXCEPT ![u] = [n \in Mints |-> minting[u][n] - Amount(b, n)]]
  BY DEF RemoveFromPendingBasket, Sent
<1>2. minting \in [Users -> [Mints -> U64]]
  BY DEF TypeOK, UserTypes
<1>3. \A v \in Users : v # u => Claim(v, m)' = Claim(v, m)
  BY <1>1, <1>2 DEF Claim
<1>4. Claim(u, m)' = minting[u][m] - Amount(b, m) + redeeming[u][m]
  BY <1>1, <1>2 DEF Claim
<1>5. Amount(b, m) \in Nat /\ minting[u][m] \in Nat /\ redeeming[u][m] \in Nat
  BY AmountType, DecimalAssumption DEF TypeOK, UserTypes, U64
<1>6. ata'[m] - basket'[m] - Claim(u, m)' >= ata[m] - basket[m] - Claim(u, m)
  BY <1>1, <1>4, <1>5, SurplusInt DEF Claim
<1> QED BY <1>3, <1>6, OneUserStep

\* So does a redemption.
LEMMA RedeemFromPendingBasketSurplus ==
  ASSUME TypeOK, TypeOK', NEW u \in Users, NEW b \in Batches,
         RedeemFromPendingBasket(u, b), NEW m \in Mints
  PROVE  Surplus(m)' >= Surplus(m)
<1>1. /\ ata'[m] = ata[m] - Amount(b, m) /\ basket'[m] = basket[m]
      /\ minting' = minting
      /\ redeeming' =
           [redeeming EXCEPT ![u] = [n \in Mints |-> redeeming[u][n] - Amount(b, n)]]
  BY DEF RedeemFromPendingBasket, Sent
<1>2. redeeming \in [Users -> [Mints -> U64]]
  BY DEF TypeOK, UserTypes
<1>3. \A v \in Users : v # u => Claim(v, m)' = Claim(v, m)
  BY <1>1, <1>2 DEF Claim
<1>4. Claim(u, m)' = minting[u][m] + (redeeming[u][m] - Amount(b, m))
  BY <1>1, <1>2 DEF Claim
<1>5. Amount(b, m) \in Nat /\ minting[u][m] \in Nat /\ redeeming[u][m] \in Nat
  BY AmountType, DecimalAssumption DEF TypeOK, UserTypes, U64
<1>6. ata'[m] - basket'[m] - Claim(u, m)' >= ata[m] - basket[m] - Claim(u, m)
  BY <1>1, <1>4, <1>5, SurplusInt DEF Claim
<1> QED BY <1>3, <1>6, OneUserStep

\* A mint turns a part of the claim into basket, a burn the reverse; neither moves
\* a token.
LEMMA MintFolioTokenSurplus ==
  ASSUME TypeOK, TypeOK', NEW u \in Users, NEW shares \in ShareAmounts,
         MintFolioToken(u, shares), NEW m \in Mints
  PROVE  Surplus(m)' >= Surplus(m)
<1>1. PICK moved \in [Mints -> U64] :
        /\ minting' = [minting EXCEPT ![u] = [n \in Mints |-> minting[u][n] - moved[n]]]
        /\ basket' = [n \in Mints |-> basket[n] + moved[n]]
  BY MintFolioTokenType
<1>2. redeeming' = redeeming /\ ata' = ata
  BY DEF MintFolioToken
<1>3. minting \in [Users -> [Mints -> U64]]
  BY DEF TypeOK, UserTypes
<1>4. \A v \in Users : v # u => Claim(v, m)' = Claim(v, m)
  BY <1>1, <1>2, <1>3 DEF Claim
<1>5. Claim(u, m)' = minting[u][m] - moved[m] + redeeming[u][m]
  BY <1>1, <1>2, <1>3 DEF Claim
<1>6. moved[m] \in Nat /\ minting[u][m] \in Nat /\ redeeming[u][m] \in Nat
  BY DecimalAssumption DEF TypeOK, UserTypes, U64
<1>7. ata'[m] - basket'[m] - Claim(u, m)' >= ata[m] - basket[m] - Claim(u, m)
  BY <1>1, <1>2, <1>5, <1>6, SurplusInt DEF Claim
<1> QED BY <1>4, <1>7, OneUserStep

LEMMA BurnFolioTokenSurplus ==
  ASSUME TypeOK, TypeOK', NEW u \in Users, NEW shares \in ShareAmounts,
         BurnFolioToken(u, shares), NEW m \in Mints
  PROVE  Surplus(m)' >= Surplus(m)
<1>1. PICK moved \in [Mints -> U64] :
        /\ redeeming' = [redeeming EXCEPT ![u] = [n \in Mints |-> redeeming[u][n] + moved[n]]]
        /\ basket' = [n \in Mints |-> basket[n] - moved[n]]
  BY BurnFolioTokenType
<1>2. minting' = minting /\ ata' = ata
  BY DEF BurnFolioToken
<1>3. redeeming \in [Users -> [Mints -> U64]]
  BY DEF TypeOK, UserTypes
<1>4. \A v \in Users : v # u => Claim(v, m)' = Claim(v, m)
  BY <1>1, <1>2, <1>3 DEF Claim
<1>5. Claim(u, m)' = minting[u][m] + (redeeming[u][m] + moved[m])
  BY <1>1, <1>2, <1>3 DEF Claim
<1>6. moved[m] \in Nat /\ minting[u][m] \in Nat /\ redeeming[u][m] \in Nat
  BY DecimalAssumption DEF TypeOK, UserTypes, U64
<1>7. ata'[m] - basket'[m] - Claim(u, m)' >= ata[m] - basket[m] - Claim(u, m)
  BY <1>1, <1>2, <1>5, <1>6, SurplusInt DEF Claim
<1> QED BY <1>4, <1>7, OneUserStep

\* An account is closed only when its owner has no claim.
LEMMA CloseSurplus ==
  ASSUME TypeOK, TypeOK', NEW u \in Users, CloseUserPendingTokenAmount(u), NEW m \in Mints
  PROVE  Surplus(m)' >= Surplus(m)
<1>1. /\ ata' = ata /\ basket' = basket /\ minting[u][m] = 0 /\ redeeming[u][m] = 0
      /\ minting' = [minting EXCEPT ![u] = [n \in Mints |-> 0]]
      /\ redeeming' = [redeeming EXCEPT ![u] = [n \in Mints |-> 0]]
  BY DEF CloseUserPendingTokenAmount, IsEmpty, assetVars
<1>2. minting \in [Users -> [Mints -> U64]] /\ redeeming \in [Users -> [Mints -> U64]]
  BY DEF TypeOK, UserTypes
<1>3. \A v \in Users : v # u => Claim(v, m)' = Claim(v, m)
  BY <1>1, <1>2 DEF Claim
<1>4. Claim(u, m)' = 0 /\ Claim(u, m) = 0
  BY <1>1, <1>2 DEF Claim
<1>5. ata'[m] - basket'[m] - Claim(u, m)' >= ata[m] - basket[m] - Claim(u, m)
  BY <1>1, <1>4, SurplusInt
<1> QED BY <1>3, <1>5, OneUserStep

\* The owner's basket instructions and the migration, which touch no user.
LEMMA BasketSurplus ==
  ASSUME TypeOK, TypeOK', NEW m \in Mints
  PROVE  /\ \A a, s : \A b \in Batches : AddToBasket(a, b, s) => Surplus(m)' >= Surplus(m)
         /\ \A a : \A n \in Mints : RemoveFromBasket(a, n) => Surplus(m)' >= Surplus(m)
         /\ \A b \in Donations : Donate(b) => Surplus(m)' >= Surplus(m)
         /\ \A S : MigrateFolioTokens(S) => Surplus(m)' >= Surplus(m)
<1>0. ata[m] \in Nat /\ basket[m] \in Nat /\ basket \in [Mints -> U64]
  BY SurplusInt DEF TypeOK, AssetTypes
<1>1. ASSUME NEW a, NEW s, NEW b \in Batches, AddToBasket(a, b, s)
      PROVE  Surplus(m)' >= Surplus(m)
  <2>1. /\ ata'[m] = ata[m] + Amount(b, m) /\ basket'[m] = basket[m] + Amount(b, m)
        /\ minting' = minting /\ redeeming' = redeeming
    BY <1>1 DEF AddToBasket, Received, userVars
  <2>2. Amount(b, m) \in Nat
    BY AmountType DEF U64
  <2> QED BY <1>0, <2>1, <2>2, NoUserStep
<1>2. ASSUME NEW a, NEW n \in Mints, RemoveFromBasket(a, n)
      PROVE  Surplus(m)' >= Surplus(m)
  <2>1. /\ ata' = ata /\ basket' = [basket EXCEPT ![n] = 0]
        /\ minting' = minting /\ redeeming' = redeeming
    BY <1>2 DEF RemoveFromBasket, userVars
  <2>2. ata'[m] - basket'[m] >= ata[m] - basket[m]
    BY <1>0, <2>1
  <2> QED BY <2>1, <2>2, NoUserStep
<1>3. ASSUME NEW b \in Donations, Donate(b)
      PROVE  Surplus(m)' >= Surplus(m)
  <2>1. PICK got \in Arrivals(b) : ata' = Received(got)
    BY <1>3 DEF Donate
  <2>2. ata'[m] = ata[m] + Amount(got, m) /\ Amount(got, m) \in Nat
    BY <2>1, ArrivalAmount DEF Received
  <2>3. basket' = basket /\ minting' = minting /\ redeeming' = redeeming
    BY <1>3 DEF Donate, userVars
  <2> QED BY <1>0, <2>2, <2>3, NoUserStep
<1>4. ASSUME NEW S, MigrateFolioTokens(S)
      PROVE  Surplus(m)' >= Surplus(m)
  <2>1. /\ ata'[m] = ata[m] - (IF m \in S THEN basket[m] ELSE 0)
        /\ basket'[m] = IF m \in S THEN 0 ELSE basket[m]
        /\ minting' = minting /\ redeeming' = redeeming
    BY <1>4 DEF MigrateFolioTokens, MigratedAmount, userVars
  <2>2. ata'[m] - basket'[m] >= ata[m] - basket[m]
    BY <1>0, <2>1
  <2> QED BY <2>1, <2>2, NoUserStep
<1> QED BY <1>1, <1>2, <1>3, <1>4

\* The other instructions move no token and change no pending basket or basket.
StaysPut == UNCHANGED <<ata, basketMints, basket, accounts, pendMints, minting, redeeming>>

LEMMA OtherSteps ==
  /\ Tick => StaysPut
  /\ \A a : KillFolio(a) => StaysPut
  /\ \A a, x : UpdateFolio(a, x) => StaysPut
  /\ \A a, b, r : InitOrUpdateActor(a, b, r) => StaysPut
  /\ \A a, b, R : RemoveActor(a, b, R) => StaysPut
  /\ \A a, x : StartFolioMigration(a, x) => StaysPut
  /\ PokeFolio => StaysPut
  /\ \A c : DistributeFees(c) => StaysPut
  /\ \A c, i, S : CrankFeeDistribution(c, i, S) => StaysPut
  /\ \A fd : SetDaoFeeConfig(fd) => StaysPut
  /\ \A fd : SetFolioFeeConfig(fd) => StaysPut
  /\ UNCHANGED vars => StaysPut
<1> USE DEF StaysPut, assetVars, userVars
<1>1. Tick => StaysPut
  BY DEF Tick
<1>2. \A a : KillFolio(a) => StaysPut
  BY DEF KillFolio
<1>3. \A a, x : UpdateFolio(a, x) => StaysPut
  BY DEF UpdateFolio
<1>4. \A a, b, r : InitOrUpdateActor(a, b, r) => StaysPut
  BY DEF InitOrUpdateActor
<1>5. \A a, b, R : RemoveActor(a, b, R) => StaysPut
  BY DEF RemoveActor
<1>6. \A a, x : StartFolioMigration(a, x) => StaysPut
  BY DEF StartFolioMigration
<1>7. PokeFolio => StaysPut
  BY DEF PokeFolio
<1>8. \A c : DistributeFees(c) => StaysPut
  BY DEF DistributeFees
<1>9. \A c, i, S : CrankFeeDistribution(c, i, S) => StaysPut
  BY DEF CrankFeeDistribution
<1>10. \A fd : SetDaoFeeConfig(fd) => StaysPut
  BY DEF SetDaoFeeConfig
<1>11. \A fd : SetFolioFeeConfig(fd) => StaysPut
  BY DEF SetFolioFeeConfig
<1>12. UNCHANGED vars => StaysPut
  BY DEF vars
<1> QED BY <1>1, <1>2, <1>3, <1>4, <1>5, <1>6, <1>7, <1>8, <1>9, <1>10, <1>11, <1>12,
           Zenon

\* Every step of the folio is one of these.
LEMMA StepCases ==
  ASSUME [Next]_vars
  PROVE  \/ StaysPut
         \/ \E u \in Users, b \in Batches :
              \/ AddToPendingBasket(u, b)
              \/ RemoveFromPendingBasket(u, b)
              \/ RedeemFromPendingBasket(u, b)
         \/ \E u \in Users, s \in ShareAmounts : MintFolioToken(u, s) \/ BurnFolioToken(u, s)
         \/ \E u \in Users : CloseUserPendingTokenAmount(u)
         \/ \E a \in Actors, b \in Batches : \E s : AddToBasket(a, b, s)
         \/ \E a \in Actors, m \in Mints : RemoveFromBasket(a, m)
         \/ \E b \in Donations : Donate(b)
         \/ \E S \in SUBSET Mints : MigrateFolioTokens(S)
<1>1. CASE UserNext
  BY <1>1, Zenon DEF UserNext
<1>2. CASE OwnerNext
  BY <1>2, OtherSteps, Zenon DEF OwnerNext
<1>3. CASE CrankNext
  BY <1>3, OtherSteps, Zenon DEF CrankNext
<1>4. CASE AdminNext
  BY <1>4, OtherSteps, Zenon DEF AdminNext
<1>5. CASE Tick \/ (\E b \in Donations : Donate(b)) \/ UNCHANGED vars
  BY <1>5, OtherSteps, Zenon
<1> QED BY <1>1, <1>2, <1>3, <1>4, <1>5 DEF Next

\* No step lowers what the account of a mint without a transfer fee holds beyond
\* the basket and the claims.
LEMMA SurplusStep ==
  ASSUME TypeOK, [Next]_vars, NEW m \in SupportedMints
  PROVE  Surplus(m)' >= Surplus(m)
<1>0. TypeOK' /\ m \in Mints
  BY TypeStep DEF SupportedMints
<1>1. CASE StaysPut
  <2>1. ata'[m] - basket'[m] >= ata[m] - basket[m]
    BY <1>0, <1>1, SurplusInt DEF StaysPut
  <2> QED BY <1>0, <1>1, <2>1, NoUserStep DEF StaysPut
<1>2. ASSUME NEW u \in Users, NEW b \in Batches,
             \/ AddToPendingBasket(u, b)
             \/ RemoveFromPendingBasket(u, b)
             \/ RedeemFromPendingBasket(u, b)
      PROVE  Surplus(m)' >= Surplus(m)
  BY <1>0, <1>2, AddToPendingBasketSurplus, RemoveFromPendingBasketSurplus,
     RedeemFromPendingBasketSurplus
<1>3. ASSUME NEW u \in Users, NEW s \in ShareAmounts,
             MintFolioToken(u, s) \/ BurnFolioToken(u, s)
      PROVE  Surplus(m)' >= Surplus(m)
  BY <1>0, <1>3, MintFolioTokenSurplus, BurnFolioTokenSurplus
<1>4. ASSUME NEW u \in Users, CloseUserPendingTokenAmount(u)
      PROVE  Surplus(m)' >= Surplus(m)
  BY <1>0, <1>4, CloseSurplus
<1>5. CASE \/ \E a \in Actors, b \in Batches : \E s : AddToBasket(a, b, s)
           \/ \E a \in Actors, n \in Mints : RemoveFromBasket(a, n)
           \/ \E b \in Donations : Donate(b)
           \/ \E S \in SUBSET Mints : MigrateFolioTokens(S)
  BY <1>0, <1>5, BasketSurplus, Zenon
<1> QED BY <1>1, <1>2, <1>3, <1>4, <1>5, StepCases, Zenon

\* Only mints without a transfer fee back shares: add_to_basket asks
\* is_supported_spl_token, and no other instruction of the folio takes a slot.
BasketSupported == basketMints \subseteq SupportedMints

LEMMA SupportedStep ==
  ASSUME BasketSupported, [Next]_vars
  PROVE  BasketSupported'
<1>1. CASE basketMints' \subseteq basketMints
  BY <1>1 DEF BasketSupported, SupportedMints
<1>2. ASSUME NEW a \in Actors, NEW b \in Batches, NEW s, AddToBasket(a, b, s)
      PROVE  BasketSupported'
  BY <1>2 DEF AddToBasket, IsSupported, BasketSupported, SupportedMints
<1>3. ASSUME \/ StaysPut
             \/ \E u \in Users, b \in Batches :
                  \/ AddToPendingBasket(u, b)
                  \/ RemoveFromPendingBasket(u, b)
                  \/ RedeemFromPendingBasket(u, b)
             \/ \E u \in Users, s \in ShareAmounts :
                  MintFolioToken(u, s) \/ BurnFolioToken(u, s)
             \/ \E u \in Users : CloseUserPendingTokenAmount(u)
             \/ \E a \in Actors, n \in Mints : RemoveFromBasket(a, n)
             \/ \E b \in Donations : Donate(b)
             \/ \E S \in SUBSET Mints : MigrateFolioTokens(S)
      PROVE  basketMints' \subseteq basketMints
  BY <1>3 DEF StaysPut, AddToPendingBasket, RemoveFromPendingBasket,
              RedeemFromPendingBasket, MintFolioToken, BurnFolioToken,
              CloseUserPendingTokenAmount, RemoveFromBasket, Donate,
              MigrateFolioTokens, assetVars
<1> QED BY <1>1, <1>2, <1>3, StepCases

LEMMA BasketStaysSupported == Spec => []BasketSupported
<1>1. Init => BasketSupported
  BY DEF Init, BasketSupported
<1> QED BY <1>1, SupportedStep, PTL DEF Spec

\* Custody is then a surplus that is never negative.
LEMMA CustodyIsSurplus ==
  ASSUME TypeOK, BasketSupported
  PROVE  Custody <=> \A m \in SupportedMints : Surplus(m) >= 0
<1>1. ASSUME NEW m \in SupportedMints
      PROVE  ata[m] >= basket[m] + Owed(m) <=> Surplus(m) >= 0
  <2>1. m \in Mints
    BY DEF SupportedMints
  <2>2. ata[m] \in Nat /\ basket[m] \in Nat /\ Owed(m) \in Nat
    BY <2>1, SurplusInt, ClaimNat
  <2> QED BY <2>2 DEF Surplus
<1>2. SupportedMints \cup basketMints = SupportedMints
  BY DEF BasketSupported
<1> QED BY <1>1, <1>2 DEF Custody

\* A folio starts with nothing and owes nothing.
LEMMA InitCustody == Init => Custody
<1> SUFFICES ASSUME Init, NEW m \in Mints PROVE ata[m] >= basket[m] + Owed(m)
  BY DEF Custody, Init, SupportedMints
<1>1. ata[m] = 0 /\ basket[m] = 0 /\ \A u \in Users : Claim(u, m) = 0
  BY DEF Init, Claim
<1>2. [u \in Users |-> Claim(u, m)] \in [1..NUsers -> Nat] /\ NUsers \in Nat
  BY InitType, ClaimNat
<1>3. Owed(m) = 0
  <2> DEFINE f == [u \in Users |-> Claim(u, m)]
  <2>1. \A i \in 1..NUsers : f[i] = 0
    BY <1>1 DEF Users
  <2> HIDE DEF f
  <2>2. Total(f, NUsers) = 0
    BY <1>2, <2>1, TotalZero DEF f
  <2> QED BY <2>2 DEF f, Owed
<1> QED BY <1>1, <1>3

\* What never lowers such a surplus keeps custody.
LEMMA CustodyStays ==
  ASSUME TypeOK, TypeOK', BasketSupported, BasketSupported', Custody,
         \A m \in SupportedMints : Surplus(m)' >= Surplus(m)
  PROVE  Custody'
<1>1. ASSUME NEW m \in SupportedMints PROVE ata'[m] >= basket'[m] + Owed(m)'
  <2>0. m \in Mints
    BY DEF SupportedMints
  <2>1. Surplus(m)' >= Surplus(m) /\ Surplus(m) >= 0 /\ Surplus(m) \in Int
    BY <2>0, CustodyIsSurplus, SurplusInt
  <2>2. Surplus(m)' = ata'[m] - basket'[m] - Owed(m)'
    BY DEF Surplus
  <2>3. ata'[m] \in Nat /\ basket'[m] \in Nat /\ Owed(m)' \in Nat
    BY <2>0, NextNat
  <2> QED BY <2>1, <2>2, <2>3
<1>2. SupportedMints \cup basketMints' = SupportedMints
  BY DEF BasketSupported, SupportedMints
<1> QED BY <1>1, <1>2 DEF Custody, SupportedMints

\* Custody in every reachable state, for any number of users and mints, with and
\* without a transfer fee: the folio's token accounts cover the basket and, of every
\* mint without such a fee, all claims, whatever the order of deposits, mints, burns,
\* redemptions, basket changes, donations, a kill and a migration.
THEOREM CustodyHolds == Spec => []Custody
<1>1. TypeOK /\ TypeOK' /\ BasketSupported /\ BasketSupported' /\ Custody /\ [Next]_vars
        => Custody'
  BY SurplusStep, CustodyStays
<1> QED BY <1>1, InitCustody, TypeCorrect, BasketStaysSupported, PTL DEF Spec

\* No instruction pays out of the surplus of a mint without a transfer fee:
\* donations and removed basket tokens stay.
THEOREM SurplusSafe == Spec => SurplusNeverSpent
<1>1. TypeOK /\ [Next]_vars => [\A m \in SupportedMints : Surplus(m)' >= Surplus(m)]_vars
  BY SurplusStep
<1> QED BY <1>1, TypeCorrect, PTL DEF Spec, SurplusNeverSpent

-----------------------------------------------------------------------------
(* Claims and backing stay where the instructions look for them *)

\* The users' instructions keep every claim in an occupied slot of an existing
\* account: a slot is freed only by the removal that leaves both sides empty.
LEMMA ReachableStep ==
  ASSUME TypeOK, ClaimsReachable, [Next]_vars
  PROVE  ClaimsReachable'
<1>0. TypeOK'
  BY TypeStep
<1> SUFFICES ASSUME NEW v \in Users, NEW m \in Mints, Claim(v, m)' > 0
             PROVE  v \in accounts' /\ m \in pendMints'[v]
  BY DEF ClaimsReachable
<1>1. /\ minting[v][m] \in Nat /\ redeeming[v][m] \in Nat
      /\ minting'[v][m] \in Nat /\ redeeming'[v][m] \in Nat
  BY <1>0, DecimalAssumption DEF TypeOK, UserTypes, U64
<1>2. /\ minting \in [Users -> [Mints -> U64]] /\ redeeming \in [Users -> [Mints -> U64]]
      /\ pendMints \in [Users -> SUBSET Mints]
  BY DEF TypeOK, UserTypes
<1>3. minting[v][m] > 0 \/ redeeming[v][m] > 0 => v \in accounts /\ m \in pendMints[v]
  BY <1>1 DEF ClaimsReachable, Claim
<1>4. minting'[v][m] > 0 \/ redeeming'[v][m] > 0
  BY <1>1 DEF Claim
<1>5. CASE UNCHANGED <<minting, redeeming, accounts, pendMints>>
  BY <1>3, <1>4, <1>5
<1>6. ASSUME NEW u \in Users, NEW b \in Batches, AddToPendingBasket(u, b)
      PROVE  v \in accounts' /\ m \in pendMints'[v]
  <2>1. /\ minting' = [minting EXCEPT ![u] = [n \in Mints |-> minting[u][n] + Amount(b, n)]]
        /\ redeeming' = redeeming /\ accounts' = accounts \cup {u}
        /\ pendMints' = [pendMints EXCEPT ![u] = pendMints[u] \cup DOMAIN b]
    BY <1>6 DEF AddToPendingBasket
  <2>2. CASE v # u
    BY <1>2, <1>3, <1>4, <2>1, <2>2
  <2>3. CASE v = u /\ m \in DOMAIN b
    BY <1>2, <2>1, <2>3
  <2>4. CASE v = u /\ m \notin DOMAIN b
    <3>1. minting'[v][m] = minting[v][m]
      BY <1>1, <1>2, <2>1, <2>4 DEF Amount
    <3> QED BY <1>2, <1>3, <1>4, <2>1, <2>4, <3>1
  <2> QED BY <2>2, <2>3, <2>4
<1>7. ASSUME NEW u \in Users, NEW b \in Batches, RemoveFromPendingBasket(u, b)
      PROVE  v \in accounts' /\ m \in pendMints'[v]
  <2>1. /\ minting' = [minting EXCEPT ![u] = [n \in Mints |-> minting[u][n] - Amount(b, n)]]
        /\ redeeming' = redeeming /\ accounts' = accounts
        /\ pendMints' = [pendMints EXCEPT ![u] =
             pendMints[u] \ {n \in DOMAIN b : minting'[u][n] = 0 /\ redeeming[u][n] = 0}]
    BY <1>7 DEF RemoveFromPendingBasket, SlotsLeft
  <2>2. Amount(b, m) \in Nat
    BY AmountType DEF U64
  <2>3. minting'[v][m] <= minting[v][m]
    BY <1>1, <1>2, <2>1, <2>2
  <2>4. v \in accounts /\ m \in pendMints[v]
    BY <1>1, <1>3, <1>4, <2>1, <2>3
  <2>5. CASE v # u
    BY <1>2, <2>1, <2>4, <2>5
  <2>6. CASE v = u
    BY <1>1, <1>2, <1>4, <2>1, <2>4, <2>6
  <2> QED BY <2>5, <2>6
<1>8. ASSUME NEW u \in Users, NEW b \in Batches, RedeemFromPendingBasket(u, b)
      PROVE  v \in accounts' /\ m \in pendMints'[v]
  <2>1. /\ redeeming' =
             [redeeming EXCEPT ![u] = [n \in Mints |-> redeeming[u][n] - Amount(b, n)]]
        /\ minting' = minting /\ accounts' = accounts
        /\ pendMints' = [pendMints EXCEPT ![u] =
             pendMints[u] \ {n \in DOMAIN b : minting[u][n] = 0 /\ redeeming'[u][n] = 0}]
    BY <1>8 DEF RedeemFromPendingBasket, SlotsLeft
  <2>2. Amount(b, m) \in Nat
    BY AmountType DEF U64
  <2>3. redeeming'[v][m] <= redeeming[v][m]
    BY <1>1, <1>2, <2>1, <2>2
  <2>4. v \in accounts /\ m \in pendMints[v]
    BY <1>1, <1>3, <1>4, <2>1, <2>3
  <2>5. CASE v # u
    BY <1>2, <2>1, <2>4, <2>5
  <2>6. CASE v = u
    BY <1>1, <1>2, <1>4, <2>1, <2>4, <2>6
  <2> QED BY <2>5, <2>6
<1>9. ASSUME NEW u \in Users, NEW s \in ShareAmounts, MintFolioToken(u, s)
      PROVE  v \in accounts' /\ m \in pendMints'[v]
  <2>1. PICK moved \in [Mints -> U64] :
          minting' = [minting EXCEPT ![u] = [n \in Mints |-> minting[u][n] - moved[n]]]
    BY <1>9, MintFolioTokenType
  <2>2. UNCHANGED <<redeeming, accounts, pendMints>> /\ moved[m] \in Nat
    BY <1>9, DecimalAssumption DEF MintFolioToken, U64
  <2>3. minting'[v][m] <= minting[v][m]
    BY <1>1, <1>2, <2>1, <2>2
  <2> QED BY <1>1, <1>3, <1>4, <2>2, <2>3
<1>10. ASSUME NEW u \in Users, NEW s \in ShareAmounts, BurnFolioToken(u, s)
       PROVE  v \in accounts' /\ m \in pendMints'[v]
  <2>1. PICK moved \in [Mints -> U64] :
          /\ \A n \in Mints : n \notin basketMints => moved[n] = 0
          /\ redeeming' =
               [redeeming EXCEPT ![u] = [n \in Mints |-> redeeming[u][n] + moved[n]]]
    BY <1>10, BurnFolioTokenType
  <2>2. /\ minting' = minting /\ accounts' = accounts /\ u \in accounts
        /\ pendMints' = [pendMints EXCEPT ![u] = pendMints[u] \cup basketMints]
    BY <1>10 DEF BurnFolioToken
  <2>3. CASE v # u
    BY <1>2, <1>3, <1>4, <2>1, <2>2, <2>3
  <2>4. CASE v = u /\ m \in basketMints
    BY <1>2, <2>2, <2>4
  <2>5. CASE v = u /\ m \notin basketMints
    <3>1. redeeming'[v][m] = redeeming[v][m]
      BY <1>1, <1>2, <2>1, <2>5
    <3> QED BY <1>2, <1>3, <1>4, <2>2, <2>5, <3>1
  <2> QED BY <2>3, <2>4, <2>5
<1>11. ASSUME NEW u \in Users, CloseUserPendingTokenAmount(u)
       PROVE  v \in accounts' /\ m \in pendMints'[v]
  <2>1. /\ minting' = [minting EXCEPT ![u] = [n \in Mints |-> 0]]
        /\ redeeming' = [redeeming EXCEPT ![u] = [n \in Mints |-> 0]]
        /\ accounts' = accounts \ {u}
        /\ pendMints' = [pendMints EXCEPT ![u] = {}]
    BY <1>11 DEF CloseUserPendingTokenAmount
  <2>2. v # u
    BY <1>2, <1>4, <2>1
  <2> QED BY <1>2, <1>3, <1>4, <2>1, <2>2
<1>12. ASSUME \/ StaysPut
              \/ \E a \in Actors, b \in Batches : \E s : AddToBasket(a, b, s)
              \/ \E a \in Actors, n \in Mints : RemoveFromBasket(a, n)
              \/ \E b \in Donations : Donate(b)
              \/ \E S \in SUBSET Mints : MigrateFolioTokens(S)
       PROVE  UNCHANGED <<minting, redeeming, accounts, pendMints>>
  BY <1>12 DEF StaysPut, AddToBasket, RemoveFromBasket, Donate, MigrateFolioTokens, userVars
<1> QED BY <1>5, <1>6, <1>7, <1>8, <1>9, <1>10, <1>11, <1>12, StepCases

\* Every claim can be collected, in every reachable state and for any number of
\* users and mints: its account exists and its slot is occupied.
THEOREM ClaimsStayReachable == Spec => []ClaimsReachable
<1>1. Init => ClaimsReachable
  BY DEF Init, ClaimsReachable, Claim
<1>2. TypeOK /\ ClaimsReachable /\ [Next]_vars => ClaimsReachable'
  BY ReachableStep
<1> QED BY <1>1, <1>2, TypeCorrect, PTL DEF Spec

\* Only the occupied slots of the basket hold an amount.
LEMMA BackingStep ==
  ASSUME TypeOK, BackingInSlots, [Next]_vars
  PROVE  BackingInSlots'
<1> SUFFICES ASSUME NEW m \in Mints, basket'[m] > 0 PROVE m \in basketMints'
  BY DEF BackingInSlots
<1>1. basket[m] \in Nat /\ basket \in [Mints -> U64]
  BY SurplusInt DEF TypeOK, AssetTypes
<1>2. m \notin basketMints => basket[m] = 0
  BY <1>1 DEF BackingInSlots
<1>3. CASE UNCHANGED <<basket, basketMints>>
  BY <1>2, <1>3
<1>4. ASSUME NEW u \in Users, NEW s \in ShareAmounts,
             MintFolioToken(u, s) \/ BurnFolioToken(u, s)
      PROVE  m \in basketMints'
  <2>1. basketMints' = basketMints
    BY <1>4 DEF MintFolioToken, BurnFolioToken
  <2>2. PICK moved \in [Mints -> U64] :
          /\ \A n \in Mints : n \notin basketMints => moved[n] = 0
          /\ \/ basket' = [n \in Mints |-> basket[n] + moved[n]]
             \/ basket' = [n \in Mints |-> basket[n] - moved[n]]
    BY <1>4, MintFolioTokenType, BurnFolioTokenType
  <2>3. CASE m \notin basketMints
    BY <1>2, <2>2, <2>3
  <2> QED BY <2>1, <2>3
<1>5. ASSUME NEW a \in Actors, NEW b \in Batches, NEW s, AddToBasket(a, b, s)
      PROVE  m \in basketMints'
  <2>1. /\ basketMints' = basketMints \cup DOMAIN b
        /\ basket'[m] = basket[m] + Amount(b, m)
    BY <1>5 DEF AddToBasket
  <2>2. CASE m \notin DOMAIN b
    BY <1>1, <1>2, <2>1, <2>2 DEF Amount
  <2> QED BY <2>1, <2>2
<1>6. ASSUME NEW a \in Actors, NEW n \in Mints, RemoveFromBasket(a, n)
      PROVE  m \in basketMints'
  <2>1. basketMints' = basketMints \ {n} /\ basket' = [basket EXCEPT ![n] = 0]
    BY <1>6 DEF RemoveFromBasket
  <2> QED BY <1>1, <1>2, <2>1
<1>7. ASSUME NEW S \in SUBSET Mints, MigrateFolioTokens(S)
      PROVE  m \in basketMints'
  <2>1. basketMints' = basketMints \ S /\ basket'[m] = IF m \in S THEN 0 ELSE basket[m]
    BY <1>7 DEF MigrateFolioTokens
  <2> QED BY <1>1, <1>2, <2>1
<1>8. ASSUME \/ StaysPut
             \/ \E u \in Users, b \in Batches :
                  \/ AddToPendingBasket(u, b)
                  \/ RemoveFromPendingBasket(u, b)
                  \/ RedeemFromPendingBasket(u, b)
             \/ \E u \in Users : CloseUserPendingTokenAmount(u)
             \/ \E b \in Donations : Donate(b)
      PROVE  UNCHANGED <<basket, basketMints>>
  BY <1>8 DEF StaysPut, AddToPendingBasket, RemoveFromPendingBasket,
              RedeemFromPendingBasket, CloseUserPendingTokenAmount, Donate, assetVars
<1> QED BY <1>3, <1>4, <1>5, <1>6, <1>7, <1>8, StepCases

\* Mint and burn, which visit occupied slots only, see the whole backing.
THEOREM BackingStaysInSlots == Spec => []BackingInSlots
<1>1. Init => BackingInSlots
  BY DEF Init, BackingInSlots
<1>2. TypeOK /\ BackingInSlots /\ [Next]_vars => BackingInSlots'
  BY BackingStep
<1> QED BY <1>1, <1>2, TypeCorrect, PTL DEF Spec

-----------------------------------------------------------------------------
(* What a migration takes, and the end of a folio *)

\* Only migrate_folio_tokens gives anything to a successor.
LEMMA MigratedOnly ==
  ASSUME [Next]_vars
  PROVE  migrated' = migrated \/ \E S \in SUBSET Mints : MigrateFolioTokens(S)
<1>1. CASE Tick \/ (\E b \in Donations : Donate(b)) \/ UNCHANGED vars
  BY <1>1 DEF Tick, Donate, vars
<1>2. CASE UserNext
  BY <1>2 DEF UserNext, AddToPendingBasket, RemoveFromPendingBasket,
              RedeemFromPendingBasket, MintFolioToken, BurnFolioToken,
              CloseUserPendingTokenAmount
<1>3. CASE OwnerNext
  BY <1>3 DEF OwnerNext, AddToBasket, RemoveFromBasket, KillFolio, UpdateFolio,
              InitOrUpdateActor, RemoveActor, StartFolioMigration
<1>4. CASE CrankNext
  BY <1>4 DEF CrankNext, PokeFolio, DistributeFees, CrankFeeDistribution
<1>5. CASE AdminNext
  BY <1>5 DEF AdminNext, SetDaoFeeConfig, SetFolioFeeConfig
<1> QED BY <1>1, <1>2, <1>3, <1>4, <1>5 DEF Next

\* A migration moves a token's basket amount, no more and no less, and what it
\* leaves in the account still covers every user's claim.
THEOREM MigrationTakesBacking == Spec => MigrationMovesBacking
<1> DEFINE Moved(m) == migrated'[m] # migrated[m] =>
             /\ migrated'[m] - migrated[m] = basket[m]
             /\ ata'[m] >= Owed(m)' /\ Owed(m)' = Owed(m)
<1>1. ASSUME TypeOK, TypeOK', BasketSupported, Custody', [Next]_vars
      PROVE  \A m \in Mints : Moved(m)
  <2> SUFFICES ASSUME NEW m \in Mints, migrated'[m] # migrated[m]
               PROVE  /\ migrated'[m] - migrated[m] = basket[m]
                      /\ ata'[m] >= Owed(m)' /\ Owed(m)' = Owed(m)
    OBVIOUS
  <2>1. PICK S \in SUBSET Mints : MigrateFolioTokens(S)
    BY <1>1, MigratedOnly
  <2>2. /\ migrated'[m] = migrated[m] + IF m \in S THEN basket[m] ELSE 0
        /\ minting' = minting /\ redeeming' = redeeming /\ S \subseteq basketMints
    BY <2>1 DEF MigrateFolioTokens, MigratedAmount, userVars
  <2>3. migrated[m] \in Nat /\ basket[m] \in Nat
    BY <1>1, SurplusInt DEF TypeOK
  <2>4. migrated'[m] - migrated[m] = basket[m]
    BY <2>2, <2>3
  <2>5. Owed(m)' = Owed(m)
    BY <2>2 DEF Owed, Claim
  <2>6. ata'[m] >= basket'[m] + Owed(m)'
    <3>1. m \in S
      BY <1>1, <2>2, <2>3 DEF TypeOK
    <3>2. m \in SupportedMints
      BY <1>1, <2>2, <3>1 DEF BasketSupported
    <3> QED BY <1>1, <3>2 DEF Custody, SupportedMints
  <2>7. ata'[m] \in Nat /\ basket'[m] \in Nat /\ Owed(m)' \in Nat
    BY <1>1, NextNat
  <2>8. ata'[m] >= Owed(m)'
    BY <2>6, <2>7
  <2> QED BY <2>4, <2>5, <2>8
<1>2. TypeOK /\ TypeOK' /\ BasketSupported /\ Custody' /\ [Next]_vars
        => [\A m \in Mints : Moved(m)]_vars
  BY <1>1
<1> QED BY <1>2, TypeCorrect, BasketStaysSupported, CustodyHolds, PTL DEF Spec, MigrationMovesBacking

-----------------------------------------------------------------------------
(* How the supply moves *)

\* A total supply counts the outstanding shares and three fields of the account.
LEMMA SameSupply ==
  ASSUME NEW f, NEW g, NEW s,
         g.dao_pending_fee_shares = f.dao_pending_fee_shares,
         g.fee_recipients_pending_fee_shares = f.fee_recipients_pending_fee_shares,
         g.to_be_minted = f.to_be_minted
  PROVE  GetTotalSupply(g, s) = GetTotalSupply(f, s)
BY DEF GetTotalSupply

\* The supply's types, as used in sums.
LEMMA SupplyParts ==
  ASSUME NEW f \in FolioRecord
  PROVE  /\ f.dao_pending_fee_shares \in Nat
         /\ f.fee_recipients_pending_fee_shares \in Nat
         /\ f.to_be_minted \in Nat
BY DecimalAssumption DEF FolioRecord, U128

\* Accrual only adds pending shares.
LEMMA PokeDilutes ==
  ASSUME NEW f \in FolioRecord, NEW s \in U64, NEW t \in Nat, NEW fee,
         PokeOk(f, s, t, fee)
  PROVE  GetTotalSupply(f, s) <= GetTotalSupply(Poke(f, s, t, fee), s)
<1>1. CASE ~NeedsPoke(f, t)
  <2>1. GetTotalSupply(f, s) \in Nat
    BY TotalSupplyNat
  <2> QED BY <1>1, <2>1 DEF Poke
<1>2. CASE NeedsPoke(f, t)
  <2> DEFINE shares == PendingFeeShares(f, s, GetAccountFeeUntil(t), fee)
             dao == DaoShares(f, shares, fee)
             g == Poke(f, s, t, fee)
  <2>1. /\ g.dao_pending_fee_shares = f.dao_pending_fee_shares + ToScaledFloor(dao)
        /\ g.fee_recipients_pending_fee_shares
             = f.fee_recipients_pending_fee_shares + ToScaledFloor(shares - dao)
        /\ g.to_be_minted = f.to_be_minted
    BY <1>2 DEF Poke, FolioRecord
  <2>2. dao \in Nat /\ shares - dao \in Nat
    BY <1>2, AccruedParts
  <2> HIDE DEF shares, dao, g
  <2>3. ToScaledFloor(dao) \in Nat /\ ToScaledFloor(shares - dao) \in Nat
    BY <2>2, Conversions, DecimalAssumption DEF U128
  <2>4. FromTokenAmount(s) \in Nat
    BY Conversions DEF U64
  <2> QED BY <2>1, <2>3, <2>4, SupplyParts DEF GetTotalSupply, g
<1> QED BY <1>1, <1>2

\* Accrued or not, the supply after accrual is at least the supply before it.
LEMMA AccruedIsMore ==
  ASSUME TypeOK
  PROVE  /\ AccruedSupply \in Nat /\ GetTotalSupply(folio, supply) \in Nat
         /\ GetTotalSupply(folio, supply) <= AccruedSupply
         /\ PokeOk(folio, supply, now, GetFeeDetails) =>
              AccruedSupply
                = GetTotalSupply(Poke(folio, supply, now, GetFeeDetails), supply)
<1>0. folio \in FolioRecord /\ supply \in U64 /\ now \in Nat
  BY DEF TypeOK
<1>1. GetTotalSupply(folio, supply) \in Nat
  BY <1>0, TotalSupplyNat
<1>2. CASE PokeOk(folio, supply, now, GetFeeDetails)
  <2>1. /\ Poke(folio, supply, now, GetFeeDetails) \in FolioRecord
        /\ GetTotalSupply(folio, supply)
             <= GetTotalSupply(Poke(folio, supply, now, GetFeeDetails), supply)
    BY <1>0, <1>2, PokeType, PokeDilutes
  <2> QED BY <1>0, <1>1, <1>2, <2>1, TotalSupplyNat DEF AccruedSupply
<1>3. CASE ~PokeOk(folio, supply, now, GetFeeDetails)
  BY <1>1, <1>3 DEF AccruedSupply
<1> QED BY <1>2, <1>3

\* A distribution turns pending shares into outstanding or reserved ones and adds
\* none, also when it pays the recipients' part to the DAO for want of a recipient
\* (the saturating subtraction then drops the remainder of the DAO's part).
LEMMA DistributionAddsNothing ==
  ASSUME NEW f \in FolioRecord, NEW s \in U64
  PROVE  GetTotalSupply(DistributedFolio(f), s + DaoDistributes(f))
           <= GetTotalSupply(f, s)
<1> DEFINE dao == f.dao_pending_fee_shares
           rec == f.fee_recipients_pending_fee_shares
           tbm == f.to_be_minted
           d == ToTokenFloor(dao)
           r == ToTokenFloor(rec)
           g == DistributedFolio(f)
<1>1. dao \in Nat /\ rec \in Nat /\ tbm \in Nat /\ s \in Nat
  BY SupplyParts DEF U64
<1>2. d \in Nat /\ r \in Nat /\ d * D9 <= dao /\ r * D9 <= rec
  BY <1>1, Conversions DEF U64, FromTokenAmount
<1>3. /\ g.dao_pending_fee_shares = SaturatingSub(dao, DaoDistributes(f) * D9)
      /\ g.fee_recipients_pending_fee_shares = rec - r * D9
      /\ g.to_be_minted = IF HasFeeRecipients THEN tbm + r * D9 ELSE tbm
  BY DEF DistributedFolio, RecipientsDistribute, FromTokenAmount, FolioRecord
<1>4. DaoDistributes(f) = d + IF HasFeeRecipients THEN 0 ELSE r
  BY DEF DaoDistributes
<1>5. D9 \in Nat
  BY D18Pos
<1> HIDE DEF dao, rec, tbm, d, r, g
<1>6. (s + d) * D9 = s * D9 + d * D9 /\ (s + (d + r)) * D9 = s * D9 + d * D9 + r * D9
      /\ (d + r) * D9 = d * D9 + r * D9 /\ (d + 0) * D9 = d * D9
  BY <1>1, <1>2, <1>5
<1> DEFINE sD == s * D9
           dD == d * D9
           rD == r * D9
<1>7. sD \in Nat /\ dD \in Nat /\ rD \in Nat /\ dD <= dao /\ rD <= rec
  BY <1>1, <1>2, <1>5, NatOps
<1>8. GetTotalSupply(f, s) = sD + dao + rec + tbm
  BY DEF GetTotalSupply, FromTokenAmount, dao, rec, tbm
<1>9. CASE HasFeeRecipients
  <2>1. GetTotalSupply(g, s + DaoDistributes(f))
          = (sD + dD) + SaturatingSub(dao, dD) + (rec - rD) + (tbm + rD)
    BY <1>3, <1>4, <1>6, <1>9, <1>2 DEF GetTotalSupply, FromTokenAmount
  <2> HIDE DEF sD, dD, rD
  <2>2. SaturatingSub(dao, dD) = dao - dD
    BY <1>1, <1>7 DEF SaturatingSub
  <2> QED BY <1>1, <1>7, <1>8, <2>1, <2>2 DEF g
<1>10. CASE ~HasFeeRecipients
  <2>1. GetTotalSupply(g, s + DaoDistributes(f))
          = (sD + dD + rD) + SaturatingSub(dao, dD + rD) + (rec - rD) + tbm
    BY <1>3, <1>4, <1>6, <1>10 DEF GetTotalSupply, FromTokenAmount
  <2> HIDE DEF sD, dD, rD
  <2>2. SaturatingSub(dao, dD + rD) = IF dao >= dD + rD THEN dao - (dD + rD) ELSE 0
    BY DEF SaturatingSub
  <2> QED BY <1>1, <1>7, <1>8, <2>1, <2>2 DEF g
<1> QED BY <1>9, <1>10

\* Only a mint, and the basket instruction that opens a folio, create shares.
SupplyKept == GetTotalSupply(folio', supply') <= AccruedSupply

LEMMA FeeStepsAddNothing ==
  ASSUME TypeOK
  PROVE  /\ PokeFolio => SupplyKept
         /\ \A c : DistributeFees(c) => SupplyKept
         /\ \A fd : SetFolioFeeConfig(fd) => SupplyKept
         /\ \A a : \A x : UpdateFolio(a, x) => SupplyKept
         /\ \A c : \A i \in DOMAIN dists : \A S \in SUBSET DOMAIN dists[i].unpaid :
              CrankFeeDistribution(c, i, S) => SupplyKept
<1> DEFINE fee == GetFeeDetails
           p == Poke(folio, supply, now, fee)
           T == GetTotalSupply(folio, supply)
<1>0. /\ folio \in FolioRecord /\ supply \in U64 /\ now \in Nat
      /\ T \in Nat /\ AccruedSupply \in Nat /\ T <= AccruedSupply
  BY AccruedIsMore DEF TypeOK
<1>1. PokeOk(folio, supply, now, fee) =>
        p \in FolioRecord /\ AccruedSupply = GetTotalSupply(p, supply)
  BY <1>0, PokeType, AccruedIsMore
<1> DEFINE D == DistributedFolio(p)
           S2 == supply + DaoDistributes(p)
<1>2. ASSUME DistributeFeesOk(p)
      PROVE  GetTotalSupply(D, S2) <= AccruedSupply
  BY <1>0, <1>1, <1>2, DistributionAddsNothing DEF DistributeFeesOk
<1>3. PokeFolio => SupplyKept
  BY <1>0, <1>1 DEF PokeFolio, SupplyKept
<1>4. ASSUME NEW c, DistributeFees(c) PROVE SupplyKept
  BY <1>2, <1>4 DEF DistributeFees, SupplyKept
<1>5. ASSUME NEW fd, SetFolioFeeConfig(fd) PROVE SupplyKept
  BY <1>2, <1>5 DEF SetFolioFeeConfig, SupplyKept
<1>6. ASSUME NEW a, NEW x, UpdateFolio(a, x) PROVE SupplyKept
  <2> DEFINE distributes ==
               /\ recips.init
               /\ \/ x.annual # NoFee \/ x.mint_fee # NoFee
                  \/ x.add # NoTable \/ x.remove # {}
               /\ InStatus({"Initialized", "Killed"})
             f == IF distributes THEN D ELSE folio
  <2>1. /\ distributes => DistributeFeesOk(p)
        /\ \E tvl, mf, len :
             folio' = [f EXCEPT !.tvl_fee = tvl, !.mint_fee = mf, !.auction_length = len]
        /\ supply' = supply + (IF distributes THEN DaoDistributes(p) ELSE 0)
    BY <1>6 DEF UpdateFolio
  <2>2. PICK tvl, mf, len :
          folio' = [f EXCEPT !.tvl_fee = tvl, !.mint_fee = mf, !.auction_length = len]
    BY <2>1
  <2>3. /\ folio'.dao_pending_fee_shares = f.dao_pending_fee_shares
        /\ folio'.fee_recipients_pending_fee_shares = f.fee_recipients_pending_fee_shares
        /\ folio'.to_be_minted = f.to_be_minted
    <3>1. f \in FolioRecord
      <4>1. distributes => D \in FolioRecord
        BY <1>1, <2>1, DistributedType DEF DistributeFeesOk
      <4> QED BY <1>0, <4>1
    <3> HIDE DEF f
    <3> QED BY <2>2, <3>1 DEF FolioRecord
  <2>4. GetTotalSupply(folio', supply') = GetTotalSupply(f, supply')
    BY <2>3, SameSupply
  <2> HIDE DEF D, S2, p, T
  <2>5. CASE distributes
    <3>1. f = D /\ supply' = S2
      BY <2>1, <2>5 DEF S2
    <3> QED BY <1>2, <2>1, <2>4, <2>5, <3>1 DEF SupplyKept
  <2>6. CASE ~distributes
    <3>1. f = folio /\ supply' = supply
      BY <1>0, <2>1, <2>6 DEF U64
    <3> QED BY <1>0, <2>4, <3>1 DEF SupplyKept, T
  <2> QED BY <2>5, <2>6
<1>7. ASSUME NEW c, NEW i \in DOMAIN dists, NEW S \in SUBSET DOMAIN dists[i].unpaid,
             CrankFeeDistribution(c, i, S)
      PROVE  SupplyKept
  <2> DEFINE paid == PaymentsTo(dists[i], S)
  <2>1. dists[i] \in Distributions
    BY DEF TypeOK, FeeTypes
  <2>2. paid \in Nat
    BY <2>1, PaymentsNat
  <2>3. /\ supply' = supply + paid
        /\ folio' = [folio EXCEPT !.to_be_minted = folio.to_be_minted - paid * D9]
    BY <1>7 DEF CrankFeeDistribution, FromTokenAmount
  <2> HIDE DEF paid
  <2>4. supply \in Nat /\ D9 \in Nat
    BY <1>0, D18Pos DEF U64
  <2>5. (supply + paid) * D9 = supply * D9 + paid * D9
    BY <2>2, <2>4
  <2>6. supply * D9 \in Nat /\ paid * D9 \in Nat
    BY <2>2, <2>4, NatOps
  <2>7. GetTotalSupply(folio', supply') = T
    BY <1>0, <2>3, <2>5, <2>6, SupplyParts DEF GetTotalSupply, FromTokenAmount, FolioRecord
  <2> QED BY <1>0, <2>7 DEF SupplyKept
<1> QED BY <1>3, <1>4, <1>5, <1>6, <1>7

\* Every step keeps the supply but a mint and the opening of the folio.
LEMMA SupplyStep ==
  ASSUME TypeOK, [Next]_vars
  PROVE  \/ SupplyKept
         \/ folio.status = "Initializing"
         \/ \E u \in Users, s \in ShareAmounts : MintFolioToken(u, s)
<1>0. /\ folio \in FolioRecord /\ supply \in U64 /\ now \in Nat
      /\ GetTotalSupply(folio, supply) \in Nat /\ AccruedSupply \in Nat
      /\ GetTotalSupply(folio, supply) <= AccruedSupply
  BY AccruedIsMore DEF TypeOK
<1>1. ASSUME folio' = folio, supply' = supply PROVE SupplyKept
  BY <1>0, <1>1 DEF SupplyKept
<1>2. ASSUME supply' = supply, \E s : folio' = [folio EXCEPT !.status = s]
      PROVE  SupplyKept
  <2>1. PICK s : folio' = [folio EXCEPT !.status = s]
    BY <1>2
  <2>2. GetTotalSupply(folio', supply) = GetTotalSupply(folio, supply)
    BY <1>0, <2>1, SameSupply DEF FolioRecord
  <2> QED BY <1>0, <1>2, <2>2 DEF SupplyKept
<1>3. CASE Tick \/ (\E b \in Donations : Donate(b)) \/ UNCHANGED vars
  BY <1>1, <1>3 DEF Tick, Donate, vars
<1>4. ASSUME NEW u \in Users, NEW s \in ShareAmounts, BurnFolioToken(u, s)
      PROVE  SupplyKept
  <2> DEFINE p == Poke(folio, supply, now, GetFeeDetails)
  <2>1. /\ PokeOk(folio, supply, now, GetFeeDetails) /\ supply >= s
        /\ folio' = p /\ supply' = supply - s
    BY <1>4 DEF BurnFolioToken
  <2>2. p \in FolioRecord /\ AccruedSupply = GetTotalSupply(p, supply)
    BY <1>0, <2>1, PokeType, AccruedIsMore
  <2> HIDE DEF p
  <2>3. s \in Nat /\ supply \in Nat /\ D9 \in Nat
    BY <1>0, D18Pos, FolioAssumption DEF U64
  <2>4. (supply - s) * D9 <= supply * D9 /\ (supply - s) * D9 \in Int /\ supply * D9 \in Int
    BY <2>1, <2>3
  <2> QED BY <2>1, <2>2, <2>4, SupplyParts DEF SupplyKept, GetTotalSupply, FromTokenAmount
<1>5. CASE UserNext
  <2>1. ASSUME NEW u \in Users, NEW b,
               \/ AddToPendingBasket(u, b) \/ RemoveFromPendingBasket(u, b)
               \/ RedeemFromPendingBasket(u, b) \/ CloseUserPendingTokenAmount(u)
        PROVE  SupplyKept
    BY <1>1, <2>1 DEF AddToPendingBasket, RemoveFromPendingBasket,
                      RedeemFromPendingBasket, CloseUserPendingTokenAmount
  <2> QED BY <1>4, <1>5, <2>1, Zenon DEF UserNext
<1>6. CASE OwnerNext
  <2>1. ASSUME NEW a, NEW b, NEW s, AddToBasket(a, b, s), folio.status # "Initializing"
        PROVE  SupplyKept
    <3>1. supply' = supply /\ folio.status = "Initialized"
      BY <2>1 DEF AddToBasket, InStatus
    <3>2. folio' = folio \/ folio' = [folio EXCEPT !.status = "Initialized"]
      BY <2>1 DEF AddToBasket
    <3> QED BY <1>1, <1>2, <3>1, <3>2
  <2>2. ASSUME NEW a, NEW m, RemoveFromBasket(a, m) PROVE SupplyKept
    BY <1>1, <2>2 DEF RemoveFromBasket
  <2>3. ASSUME NEW a, KillFolio(a) PROVE SupplyKept
    BY <1>2, <2>3 DEF KillFolio
  <2>4. ASSUME NEW a, NEW x, StartFolioMigration(a, x) PROVE SupplyKept
    BY <1>2, <2>4 DEF StartFolioMigration
  <2>5. ASSUME NEW a, NEW b, NEW r, InitOrUpdateActor(a, b, r) \/ RemoveActor(a, b, r)
        PROVE  SupplyKept
    BY <1>1, <2>5 DEF InitOrUpdateActor, RemoveActor
  <2>6. ASSUME NEW a, NEW x, UpdateFolio(a, x) PROVE SupplyKept
    BY <2>6, FeeStepsAddNothing
  <2> QED BY <1>6, <2>1, <2>2, <2>3, <2>4, <2>5, <2>6, Zenon DEF OwnerNext
<1>7. CASE CrankNext
  <2>1. ASSUME NEW S, MigrateFolioTokens(S) PROVE SupplyKept
    BY <1>1, <2>1 DEF MigrateFolioTokens
  <2> QED BY <1>7, <2>1, FeeStepsAddNothing, Zenon DEF CrankNext
<1>8. CASE AdminNext
  <2>1. ASSUME NEW fd, SetDaoFeeConfig(fd) PROVE SupplyKept
    BY <1>1, <2>1 DEF SetDaoFeeConfig
  <2> QED BY <1>8, <2>1, FeeStepsAddNothing, Zenon DEF AdminNext
<1> QED BY <1>3, <1>5, <1>6, <1>7, <1>8 DEF Next

-----------------------------------------------------------------------------
(* The end of a folio *)

\* The fee instructions leave the status alone, whichever of them accrue or distribute.
LEMMA FeeStepsKeepStatus ==
  ASSUME TypeOK
  PROVE  /\ PokeFolio => folio'.status = folio.status
         /\ \A c \in Crankers : DistributeFees(c) => folio'.status = folio.status
         /\ \A fd : SetFolioFeeConfig(fd) => folio'.status = folio.status
         /\ \A a \in Actors : \A x : UpdateFolio(a, x) => folio'.status = folio.status
<1> DEFINE p == Poke(folio, supply, now, GetFeeDetails)
<1>0. folio \in FolioRecord /\ supply \in U64 /\ now \in Nat
  BY DEF TypeOK
<1>1. PokeFolio => folio'.status = folio.status
  BY <1>0, PokeType DEF PokeFolio
<1>2. ASSUME NEW c \in Crankers, DistributeFees(c) PROVE folio'.status = folio.status
  BY <1>2, DistributionStep DEF DistributeFees, Crankers
<1>3. ASSUME NEW fd, SetFolioFeeConfig(fd) PROVE folio'.status = folio.status
  BY <1>3, DistributionStep DEF SetFolioFeeConfig
<1>4. ASSUME NEW a \in Actors, NEW x, UpdateFolio(a, x)
      PROVE  folio'.status = folio.status
  <2>1. \E tvl, mf, len :
          \/ folio' = [folio EXCEPT !.tvl_fee = tvl, !.mint_fee = mf,
                                    !.auction_length = len]
          \/ /\ DistributeFeesOk(p)
             /\ folio' = [DistributedFolio(p) EXCEPT !.tvl_fee = tvl, !.mint_fee = mf,
                                                     !.auction_length = len]
    BY <1>4 DEF UpdateFolio
  <2>2. DistributeFeesOk(p) =>
          DistributedFolio(p) \in FolioRecord /\ DistributedFolio(p).status = folio.status
    BY DistributionStep
  <2> HIDE DEF p
  <2> QED BY <1>0, <2>1, <2>2 DEF FolioRecord
<1> QED BY <1>1, <1>2, <1>3, <1>4

\* A killed folio is not reopened and a migrating one stays migrating.
LEMMA StatusStep ==
  ASSUME TypeOK, [Next]_vars
  PROVE  /\ folio.status = "Killed" => folio'.status \in {"Killed", "Migrating"}
         /\ folio.status = "Migrating" => folio'.status = "Migrating"
<1> DEFINE Ends == /\ folio.status = "Killed" => folio'.status \in {"Killed", "Migrating"}
                   /\ folio.status = "Migrating" => folio'.status = "Migrating"
<1> SUFFICES Ends
  OBVIOUS
<1>0. folio \in FolioRecord /\ supply \in U64 /\ now \in Nat
  BY DEF TypeOK
<1>1. ASSUME folio'.status = folio.status PROVE Ends
  BY <1>1
<1>2. CASE Tick \/ (\E b \in Donations : Donate(b)) \/ UNCHANGED vars
  BY <1>1, <1>2 DEF Tick, Donate, vars
<1>3. CASE UserNext
  <2>1. ASSUME NEW u, NEW b,
               \/ AddToPendingBasket(u, b) \/ RemoveFromPendingBasket(u, b)
               \/ RedeemFromPendingBasket(u, b) \/ CloseUserPendingTokenAmount(u)
        PROVE  Ends
    BY <1>1, <2>1 DEF AddToPendingBasket, RemoveFromPendingBasket,
                      RedeemFromPendingBasket, CloseUserPendingTokenAmount
  <2>2. ASSUME NEW u, NEW s, MintFolioToken(u, s) PROVE Ends
    BY <2>2 DEF MintFolioToken, InStatus
  <2>3. ASSUME NEW u, NEW s, BurnFolioToken(u, s) PROVE Ends
    BY <1>0, <1>1, <2>3, PokeType DEF BurnFolioToken
  <2> HIDE DEF Ends
  <2> QED BY <1>3, <2>1, <2>2, <2>3, Zenon DEF UserNext
<1>4. CASE OwnerNext
  <2>1. ASSUME NEW a, NEW b, NEW s, AddToBasket(a, b, s) PROVE Ends
    BY <2>1 DEF AddToBasket, InStatus
  <2>2. ASSUME NEW a, NEW b, NEW r,
               RemoveFromBasket(a, b) \/ InitOrUpdateActor(a, b, r) \/ RemoveActor(a, b, r)
        PROVE  Ends
    BY <1>1, <2>2 DEF RemoveFromBasket, InitOrUpdateActor, RemoveActor
  <2>3. ASSUME NEW a, KillFolio(a) PROVE Ends
    BY <2>3 DEF KillFolio, InStatus
  <2>4. ASSUME NEW a, NEW x, StartFolioMigration(a, x) PROVE Ends
    BY <1>0, <2>4 DEF StartFolioMigration, FolioRecord
  <2>5. ASSUME NEW a \in Actors, NEW x, UpdateFolio(a, x) PROVE Ends
    BY <1>1, <2>5, FeeStepsKeepStatus
  <2> HIDE DEF Ends
  <2> QED BY <1>4, <2>1, <2>2, <2>3, <2>4, <2>5, Zenon DEF OwnerNext
<1>5. CASE CrankNext
  <2>1. ASSUME NEW S, MigrateFolioTokens(S) PROVE Ends
    BY <1>1, <2>1 DEF MigrateFolioTokens
  <2>2. ASSUME NEW c, NEW i, NEW S, CrankFeeDistribution(c, i, S) PROVE Ends
    BY <1>0, <1>1, <2>2 DEF CrankFeeDistribution, FolioRecord
  <2>3. ASSUME NEW c \in Crankers, DistributeFees(c) PROVE Ends
    BY <1>1, <2>3, FeeStepsKeepStatus
  <2>4. PokeFolio => Ends
    BY <1>1, FeeStepsKeepStatus
  <2> HIDE DEF Ends
  <2> QED BY <1>5, <2>1, <2>2, <2>3, <2>4, Zenon DEF CrankNext
<1>6. CASE AdminNext
  <2>1. ASSUME NEW fd, SetDaoFeeConfig(fd) PROVE Ends
    BY <1>1, <2>1 DEF SetDaoFeeConfig
  <2>2. ASSUME NEW fd, SetFolioFeeConfig(fd) PROVE Ends
    BY <1>1, <2>2, FeeStepsKeepStatus
  <2> HIDE DEF Ends
  <2> QED BY <1>6, <2>1, <2>2, Zenon DEF AdminNext
<1> QED BY <1>2, <1>3, <1>4, <1>5, <1>6 DEF Next

\* Nothing is deposited into a folio that is not open.
LEMMA NoDeposit ==
  ASSUME TypeOK, [Next]_vars, folio.status # "Initialized",
         NEW u \in Users, NEW m \in Mints
  PROVE  minting'[u][m] <= minting[u][m]
<1>1. minting \in [Users -> [Mints -> U64]] /\ minting[u][m] \in Nat
  BY DecimalAssumption DEF TypeOK, UserTypes, U64
<1>2. ASSUME minting' = minting PROVE minting'[u][m] <= minting[u][m]
  BY <1>1, <1>2
<1>3. ASSUME NEW v \in Users, NEW b \in Batches, RemoveFromPendingBasket(v, b)
      PROVE  minting'[u][m] <= minting[u][m]
  <2>1. minting' = [minting EXCEPT ![v] = [n \in Mints |-> minting[v][n] - Amount(b, n)]]
    BY <1>3 DEF RemoveFromPendingBasket
  <2>2. Amount(b, m) \in Nat
    BY AmountType DEF U64
  <2> QED BY <1>1, <2>1, <2>2
<1>4. ASSUME NEW v \in Users, CloseUserPendingTokenAmount(v)
      PROVE  minting'[u][m] <= minting[u][m]
  <2>1. minting' = [minting EXCEPT ![v] = [n \in Mints |-> 0]]
    BY <1>4 DEF CloseUserPendingTokenAmount
  <2> QED BY <1>1, <2>1
<1>5. /\ \A v, b : ~AddToPendingBasket(v, b)
      /\ \A v, s : ~MintFolioToken(v, s)
  BY DEF AddToPendingBasket, MintFolioToken, InStatus
<1>6. ASSUME \/ StaysPut
             \/ \E v \in Users, b \in Batches : RedeemFromPendingBasket(v, b)
             \/ \E v \in Users, s \in ShareAmounts : BurnFolioToken(v, s)
             \/ \E a \in Actors, b \in Batches : \E s : AddToBasket(a, b, s)
             \/ \E a \in Actors, n \in Mints : RemoveFromBasket(a, n)
             \/ \E b \in Donations : Donate(b)
             \/ \E S \in SUBSET Mints : MigrateFolioTokens(S)
      PROVE  minting' = minting
  BY <1>6 DEF StaysPut, RedeemFromPendingBasket, BurnFolioToken, AddToBasket,
              RemoveFromBasket, Donate, MigrateFolioTokens, userVars
<1> QED BY <1>2, <1>3, <1>4, <1>5, <1>6, StepCases, Zenon

\* A killed folio is wound down: it is not reopened, no shares are created but for
\* fees already due, and no user's deposit grows.
THEOREM KilledStaysKilled == Spec => WindDown
<1> DEFINE Wound ==
      /\ folio.status = "Killed" =>
           /\ folio'.status \in {"Killed", "Migrating"}
           /\ GetTotalSupply(folio', supply') <= AccruedSupply
           /\ \A u \in Users, m \in Mints : minting'[u][m] <= minting[u][m]
      /\ folio.status = "Migrating" => folio'.status = "Migrating"
<1>1. ASSUME TypeOK, [Next]_vars PROVE Wound
  <2>1. ASSUME folio.status = "Killed"
        PROVE  GetTotalSupply(folio', supply') <= AccruedSupply
    <3>1. \A u, s : ~MintFolioToken(u, s)
      BY <2>1 DEF MintFolioToken, InStatus
    <3> QED BY <1>1, <2>1, <3>1, SupplyStep DEF SupplyKept
  <2>2. ASSUME folio.status = "Killed"
        PROVE  \A u \in Users, m \in Mints : minting'[u][m] <= minting[u][m]
    BY <1>1, <2>2, NoDeposit
  <2> QED BY <1>1, <2>1, <2>2, StatusStep, Zenon
<1>2. TypeOK /\ [Next]_vars => [Wound]_vars
  BY <1>1
<1> QED BY <1>2, TypeCorrect, PTL DEF Spec, WindDown

-----------------------------------------------------------------------------
(* What a mint and a burn do to the worth of a share *)

\* A part of at most one is at most the whole, rounded up too.
LEMMA CeilPart ==
  ASSUME NEW a \in Nat, NEW r \in Nat, r <= D18
  PROVE  CeilDiv(a * r, D18) \in Nat /\ CeilDiv(a * r, D18) <= a
<1>1. \A x, y \in Nat : x <= y => a * x <= a * y /\ a * x \in Nat
  OBVIOUS
<1>2. a * r \in Nat /\ a * r <= a * D18
  BY <1>1, D18Pos
<1> QED BY <1>2, CeilBounds, D18Pos

\* The fees of a mint never exceed the shares that it mints, so they are withheld in
\* full: no conversion saturates.
LEMMA MintFeeBounds ==
  ASSUME NEW f \in FolioRecord, f.mint_fee <= MaxMintFee,
         NEW shares \in U64, NEW fee \in FeeDetails
  PROVE  /\ MintDaoFee(f, shares, fee) \in Nat /\ MintTotalFee(f, shares, fee) \in Nat
         /\ MintDaoFee(f, shares, fee) <= MintTotalFee(f, shares, fee)
         /\ MintTotalFee(f, shares, fee) <= shares * D9
         /\ shares * D9 <= MaxU128
<1> DEFINE whole == CeilDiv((shares * D9) * f.mint_fee, D18)
           part == CeilDiv(whole * fee.numerator, D18)
           least == CeilDiv((shares * D9) * fee.floor, D18)
           dao == MintDaoFee(f, shares, fee)
           total == MintTotalFee(f, shares, fee)
<1>1. /\ fee.numerator \in Nat /\ fee.floor \in Nat /\ f.mint_fee \in Nat
      /\ fee.numerator <= D18 /\ fee.floor <= D18 /\ f.mint_fee <= D18
  <2>1. /\ MaxDaoFee \in Nat /\ MaxDaoFee <= D18 /\ MaxMintFee \in Nat /\ MaxMintFee <= D18
        /\ MaxFeeFloor \in Nat /\ MaxFeeFloor <= D18 /\ D18 \in Nat
    BY FeeAssumption, D18Pos
  <2>2. fee.numerator \in 0..MaxDaoFee /\ fee.floor \in 0..MaxFeeFloor
        /\ f.mint_fee \in Nat
    BY DecimalAssumption DEF FeeDetails, FolioRecord, U128
  <2> QED BY <2>1, <2>2
<1>2. shares \in Nat /\ D9 \in Nat /\ shares * D9 \in Nat
  BY D18Pos, DecimalAssumption DEF U64
<1>3. shares * D9 <= MaxU128
  <2>1. shares <= MaxU64 /\ MaxU64 \in Nat /\ MaxU64 * D9 <= MaxU128 /\ MaxU128 \in Nat
    BY DecimalAssumption DEF U64
  <2>2. \A x, y, d \in Nat : x <= y => x * d <= y * d
    OBVIOUS
  <2>3. shares * D9 <= MaxU64 * D9 /\ MaxU64 * D9 \in Nat
    BY <1>2, <2>1, <2>2
  <2> QED BY <1>2, <2>1, <2>3
<1>4. whole \in Nat /\ whole <= shares * D9
  BY <1>1, <1>2, CeilPart
<1>5. least \in Nat /\ least <= shares * D9
  BY <1>1, <1>2, CeilPart
<1> HIDE DEF whole, least
<1>6. part \in Nat /\ part <= whole
  BY <1>1, <1>4, CeilPart
<1> HIDE DEF part
<1>7. dao = IF part < least THEN least ELSE part
  BY DEF MintDaoFee, FromTokenAmount, whole, part, least
<1>8. total = IF whole < dao THEN dao ELSE whole
  BY DEF MintTotalFee, FromTokenAmount, whole
<1> HIDE DEF dao, total
<1>9. dao \in Nat /\ total \in Nat /\ dao <= total /\ total <= shares * D9
  BY <1>2, <1>4, <1>5, <1>6, <1>7, <1>8
<1> QED BY <1>3, <1>9 DEF dao, total

\* A mint of shares adds them to the total supply, or less by the rounding of its
\* fee, and adds something.
LEMMA MintedSupply ==
  ASSUME NEW f \in FolioRecord, f.mint_fee <= MaxMintFee, NEW s \in U64,
         NEW shares \in U64, NEW fee \in FeeDetails,
         shares >= MintFeeShares(f, shares, fee)
  PROVE  LET N == GetTotalSupply(CalculateFeesForMinting(f, shares, fee),
                                 s + (shares - MintFeeShares(f, shares, fee)))
         IN  /\ N \in Nat
             /\ N <= GetTotalSupply(f, s) + shares * D9
             /\ shares > 0 => N > GetTotalSupply(f, s)
<1> DEFINE dao == MintDaoFee(f, shares, fee)
           total == MintTotalFee(f, shares, fee)
           w == MintFeeShares(f, shares, fee)
           g == CalculateFeesForMinting(f, shares, fee)
<1>1. /\ dao \in Nat /\ total \in Nat /\ dao <= total
      /\ total <= shares * D9 /\ shares * D9 <= MaxU128
  BY MintFeeBounds
<1>2. /\ shares \in Nat /\ s \in Nat /\ D9 \in Nat /\ D9 > 0 /\ shares <= MaxU64
      /\ MaxU64 \in Nat /\ MaxU128 \in Nat /\ shares * D9 \in Nat
  BY D18Pos, DecimalAssumption DEF U64
<1> HIDE DEF dao, total
<1>3. ToScaledFloor(dao) = dao /\ ToScaledFloor(total - dao) = total - dao
  BY <1>1, <1>2 DEF ToScaledFloor, SatU128
<1>4. w \in Nat /\ w <= shares /\ w * D9 >= total /\ (total = 0 => w = 0)
  <2>1. CeilDiv(total, D9) \in Nat /\ CeilDiv(total, D9) * D9 >= total
        /\ CeilDiv(total, D9) <= shares /\ (total = 0 => CeilDiv(total, D9) <= 0)
    <3>1. total <= 0 * D9 <=> total = 0
      BY <1>1, <1>2
    <3> QED BY <1>1, <1>2, <3>1, CeilBounds
  <2>2. w = CeilDiv(total, D9)
    BY <1>2, <2>1 DEF MintFeeShares, ToTokenCeil, SatU64, total
  <2> QED BY <2>1, <2>2
<1>5. /\ g.dao_pending_fee_shares = f.dao_pending_fee_shares + dao
      /\ g.fee_recipients_pending_fee_shares
           = f.fee_recipients_pending_fee_shares + (total - dao)
      /\ g.to_be_minted = f.to_be_minted
  BY <1>3 DEF CalculateFeesForMinting, FolioRecord, dao, total
<1> HIDE DEF w, g
<1>6. (s + (shares - w)) * D9 = s * D9 + shares * D9 - w * D9
  BY <1>2, <1>4
<1>7. s * D9 \in Nat /\ w * D9 \in Nat /\ w * D9 <= shares * D9
  <2>1. \A x, y, d \in Nat : x <= y => x * d <= y * d
    OBVIOUS
  <2> QED BY <1>2, <1>4, <2>1, NatOps
<1>8. shares > 0 => shares * D9 > 0
  BY <1>2
<1>9. total = 0 => w * D9 = 0
  BY <1>2, <1>4
<1> DEFINE N == GetTotalSupply(g, s + (shares - w))
           T == GetTotalSupply(f, s)
<1>10. N = (s * D9 + shares * D9 - w * D9) + f.dao_pending_fee_shares
             + f.fee_recipients_pending_fee_shares + f.to_be_minted + total
  <2>1. N = (s + (shares - w)) * D9 + (f.dao_pending_fee_shares + dao)
              + (f.fee_recipients_pending_fee_shares + (total - dao)) + f.to_be_minted
    BY <1>5 DEF GetTotalSupply, FromTokenAmount
  <2> HIDE DEF N
  <2> QED BY <1>1, <1>2, <1>6, <1>7, <2>1, SupplyParts
<1>11. T = s * D9 + f.dao_pending_fee_shares
             + f.fee_recipients_pending_fee_shares + f.to_be_minted
  BY DEF GetTotalSupply, FromTokenAmount
<1> DEFINE a == s * D9
           b == shares * D9
           c == w * D9
<1>12. a \in Nat /\ b \in Nat /\ c \in Nat /\ c <= b /\ c >= total
       /\ (shares > 0 => b > 0) /\ (total = 0 => c = 0)
  BY <1>2, <1>4, <1>7, <1>8, <1>9
<1>13. N = (a + b - c) + f.dao_pending_fee_shares
             + f.fee_recipients_pending_fee_shares + f.to_be_minted + total
       /\ T = a + f.dao_pending_fee_shares
             + f.fee_recipients_pending_fee_shares + f.to_be_minted
  BY <1>10, <1>11
<1> HIDE DEF a, b, c, N, T
<1>14. N \in Nat /\ N <= T + b /\ (shares > 0 => N > T)
  BY <1>1, <1>12, <1>13, SupplyParts
<1> QED BY <1>14 DEF N, T, b, g, w

\* What a mint charges covers the new shares' part of a basket token, up to one
\* scaled unit, and a mint of nothing charges nothing.
LEMMA ChargeCovers ==
  ASSUME NEW shares \in U64, NEW b \in U64, b # 0, NEW T \in Nat, T # 0,
         b + MintCharge(shares, b, T) <= MaxU64
  PROVE  /\ MintCharge(shares, b, T) \in Nat
         /\ (MintCharge(shares, b, T) * D9 + 1) * T >= (b * D9) * (shares * D9)
         /\ MintCharge(shares, b, T) > 0 => shares > 0
<1> DEFINE x == (shares * D9) * (b * D9)
           q == x \div T
           up == CeilDiv(q, D9)
           c == MintCharge(shares, b, T)
<1>1. /\ shares \in Nat /\ b \in Nat /\ b > 0 /\ MaxU64 \in Nat /\ D9 \in Nat /\ D9 > 0
      /\ shares * D9 \in Nat /\ b * D9 \in Nat
  BY D18Pos, DecimalAssumption DEF U64
<1>2. x \in Nat
  BY <1>1, NatOps
<1>3. x = (b * D9) * (shares * D9)
  <2>1. \A y, z \in Nat : y * z = z * y
    OBVIOUS
  <2> QED BY <1>1, <2>1
<1>4. shares = 0 => x = 0
  BY <1>1
<1> HIDE DEF x
<1>5. q \in Nat /\ x < (q + 1) * T /\ (x = 0 => q = 0)
  <2>1. q \in Nat /\ x < (q + 1) * T
    BY <1>2
  <2>2. x = 0 => q <= 0
    BY <1>2, QuotientBound
  <2> QED BY <2>1, <2>2
<1> HIDE DEF q
<1>6. up \in Nat /\ up * D9 >= q /\ (q = 0 => up <= 0)
  <2>1. q <= 0 * D9 <=> q = 0
    BY <1>1, <1>5
  <2> QED BY <1>1, <1>5, <2>1, CeilBounds
<1> HIDE DEF up
<1>7. c = SatU64(up)
  BY DEF MintCharge, ToTokenCeil, FromTokenAmount, c, up, q, x
<1>8. c = up
  BY <1>1, <1>6, <1>7 DEF SatU64
<1>9. (up * D9 + 1) * T >= x
  <2>1. \A y, z \in Nat : y <= z => (y + 1) * T <= (z + 1) * T
    OBVIOUS
  <2>2. up * D9 \in Nat
    BY <1>1, <1>6
  <2>3. (q + 1) * T <= (up * D9 + 1) * T
    BY <1>5, <1>6, <2>1, <2>2
  <2>4. (q + 1) * T \in Nat /\ (up * D9 + 1) * T \in Nat
    BY <1>5, <2>2
  <2> QED BY <1>2, <1>5, <2>3, <2>4
<1>10. up > 0 => shares > 0
  BY <1>1, <1>4, <1>5, <1>6
<1> QED BY <1>3, <1>6, <1>8, <1>9, <1>10 DEF c

\* What a burn releases is at most the burnt shares' part of a basket token.
LEMMA ShareBounded ==
  ASSUME NEW shares \in U64, NEW b \in U64, NEW T \in Nat, T # 0
  PROVE  /\ RedeemShare(shares, b, T) \in Nat
         /\ (RedeemShare(shares, b, T) * D9) * T <= (b * D9) * (shares * D9)
<1> DEFINE x == (shares * D9) * (b * D9)
           q == x \div T
           h == RedeemShare(shares, b, T)
<1>1. shares * D9 \in Nat /\ b * D9 \in Nat
  BY D18Pos, DecimalAssumption DEF U64
<1>2. x \in Nat /\ x = (b * D9) * (shares * D9)
  <2>1. \A y, z \in Nat : y * z = z * y /\ y * z \in Nat
    OBVIOUS
  <2> QED BY <1>1, <2>1
<1> HIDE DEF x
<1>3. q \in Nat /\ q * T <= x
  <2>1. T > 0
    OBVIOUS
  <2> QED BY <1>2, <2>1, FloorBound, NatOps
<1> HIDE DEF q
<1>4. h \in Nat /\ h * D9 <= q
  <2>1. h = ToTokenFloor(q)
    BY DEF RedeemShare, FromTokenAmount, h, q, x
  <2> QED BY <1>3, <2>1, Conversions, DecimalAssumption DEF U64, FromTokenAmount
<1> HIDE DEF h
<1>5. (h * D9) * T <= q * T /\ q * T \in Nat /\ (h * D9) * T \in Nat
  <2>1. \A y, z \in Nat : y <= z => y * T <= z * T /\ z * T \in Nat /\ y * T \in Nat
    OBVIOUS
  <2>2. h * D9 \in Nat
    BY <1>4, D18Pos
  <2> QED BY <1>3, <1>4, <2>1, <2>2
<1> QED BY <1>2, <1>3, <1>4, <1>5 DEF h

\* A folio's mint fee stays within the limit that init_folio and update_folio check:
\* the part of the inductive invariant that no type says.
MintFeeBounded == folio.mint_fee <= MaxMintFee

LEMMA MintFeeStep ==
  ASSUME TypeOK, MintFeeBounded, [Next]_vars
  PROVE  MintFeeBounded'
<1> DEFINE p == Poke(folio, supply, now, GetFeeDetails)
<1>0. folio \in FolioRecord /\ supply \in U64 /\ now \in Nat
  BY DEF TypeOK
<1>1. ASSUME folio'.mint_fee = folio.mint_fee PROVE MintFeeBounded'
  BY <1>1 DEF MintFeeBounded
<1>2. ASSUME PokeOk(folio, supply, now, GetFeeDetails)
      PROVE  p.mint_fee = folio.mint_fee /\ p \in FolioRecord
  BY <1>0, <1>2, PokeType DEF Poke, FolioRecord
<1>3. ASSUME DistributeFeesOk(p)
      PROVE  /\ DistributedFolio(p).mint_fee = folio.mint_fee
             /\ DistributedFolio(p) \in FolioRecord
  <2>1. p.mint_fee = folio.mint_fee /\ p \in FolioRecord
    BY <1>2, <1>3 DEF DistributeFeesOk
  <2>2. DistributedFolio(p) \in FolioRecord
    BY <1>3, <2>1, DistributedType DEF DistributeFeesOk
  <2> HIDE DEF p
  <2> QED BY <2>1, <2>2 DEF DistributedFolio, FolioRecord
<1>4. CASE Tick \/ (\E b \in Donations : Donate(b)) \/ UNCHANGED vars
  BY <1>1, <1>4 DEF Tick, Donate, vars
<1>5. CASE UserNext
  <2>1. ASSUME NEW u, NEW b,
               \/ AddToPendingBasket(u, b) \/ RemoveFromPendingBasket(u, b)
               \/ RedeemFromPendingBasket(u, b) \/ CloseUserPendingTokenAmount(u)
        PROVE  MintFeeBounded'
    BY <1>1, <2>1 DEF AddToPendingBasket, RemoveFromPendingBasket,
                      RedeemFromPendingBasket, CloseUserPendingTokenAmount
  <2>2. ASSUME NEW u, NEW s, MintFolioToken(u, s) PROVE MintFeeBounded'
    <3>1. /\ PokeOk(folio, supply, now, GetFeeDetails)
          /\ folio' = CalculateFeesForMinting(p, s, GetFeeDetails)
      BY <2>2 DEF MintFolioToken
    <3>2. p.mint_fee = folio.mint_fee /\ p \in FolioRecord
      BY <1>2, <3>1
    <3> HIDE DEF p
    <3>3. folio'.mint_fee = p.mint_fee
      BY <3>1, <3>2 DEF CalculateFeesForMinting, FolioRecord
    <3> QED BY <1>1, <3>2, <3>3
  <2>3. ASSUME NEW u, NEW s, BurnFolioToken(u, s) PROVE MintFeeBounded'
    BY <1>1, <1>2, <2>3 DEF BurnFolioToken
  <2> QED BY <1>5, <2>1, <2>2, <2>3, Zenon DEF UserNext
<1>6. CASE OwnerNext
  <2>1. ASSUME NEW a, NEW b, NEW s,
               AddToBasket(a, b, s) \/ KillFolio(a) \/ StartFolioMigration(a, s)
        PROVE  MintFeeBounded'
    BY <1>0, <1>1, <2>1 DEF AddToBasket, KillFolio, StartFolioMigration, FolioRecord
  <2>2. ASSUME NEW a, NEW b, NEW r,
               RemoveFromBasket(a, b) \/ InitOrUpdateActor(a, b, r) \/ RemoveActor(a, b, r)
        PROVE  MintFeeBounded'
    BY <1>1, <2>2 DEF RemoveFromBasket, InitOrUpdateActor, RemoveActor
  <2>3. ASSUME NEW a, NEW x, UpdateFolio(a, x) PROVE MintFeeBounded'
    <3> DEFINE Settings(f) == \E tvl, mf, len :
                 /\ folio' = [f EXCEPT !.tvl_fee = tvl, !.mint_fee = mf,
                                       !.auction_length = len]
                 /\ mf <= MaxMintFee \/ mf = f.mint_fee
    <3>1. Settings(folio) \/ (DistributeFeesOk(p) /\ Settings(DistributedFolio(p)))
      BY <2>3 DEF UpdateFolio
    <3>2. CASE Settings(folio)
      BY <1>0, <3>2 DEF FolioRecord, MintFeeBounded
    <3>3. CASE DistributeFeesOk(p) /\ Settings(DistributedFolio(p))
      <4>1. /\ DistributedFolio(p).mint_fee = folio.mint_fee
            /\ DistributedFolio(p) \in FolioRecord
        BY <1>3, <3>3
      <4> HIDE DEF p
      <4> QED BY <3>3, <4>1 DEF FolioRecord, MintFeeBounded
    <3> QED BY <3>1, <3>2, <3>3
  <2> QED BY <1>6, <2>1, <2>2, <2>3, Zenon DEF OwnerNext
<1>7. CASE CrankNext
  <2>1. ASSUME NEW S, MigrateFolioTokens(S) PROVE MintFeeBounded'
    BY <1>1, <2>1 DEF MigrateFolioTokens
  <2>2. ASSUME NEW c, NEW i, NEW S, CrankFeeDistribution(c, i, S) PROVE MintFeeBounded'
    BY <1>0, <1>1, <2>2 DEF CrankFeeDistribution, FolioRecord
  <2>3. ASSUME NEW c, DistributeFees(c) PROVE MintFeeBounded'
    BY <1>1, <1>3, <2>3 DEF DistributeFees
  <2>4. PokeFolio => MintFeeBounded'
    BY <1>1, <1>2 DEF PokeFolio
  <2> QED BY <1>7, <2>1, <2>2, <2>3, <2>4, Zenon DEF CrankNext
<1>8. CASE AdminNext
  <2>1. ASSUME NEW fd, SetDaoFeeConfig(fd) PROVE MintFeeBounded'
    BY <1>1, <2>1 DEF SetDaoFeeConfig
  <2>2. ASSUME NEW fd, SetFolioFeeConfig(fd) PROVE MintFeeBounded'
    BY <1>1, <1>3, <2>2 DEF SetFolioFeeConfig
  <2> QED BY <1>8, <2>1, <2>2, Zenon DEF AdminNext
<1> QED BY <1>4, <1>5, <1>6, <1>7, <1>8 DEF Next

LEMMA MintFeeHolds == Spec => []MintFeeBounded
<1>1. Init => MintFeeBounded
  BY DEF Init, MintFeeBounded
<1>2. TypeOK /\ MintFeeBounded /\ [Next]_vars => MintFeeBounded'
  BY MintFeeStep
<1> QED BY <1>1, <1>2, TypeCorrect, PTL DEF Spec

\* A mint, with the total supply it divides by named: every basket token is charged,
\* and the supply grows by at most the shares minted.
LEMMA MintShape ==
  ASSUME TypeOK, MintFeeBounded, NEW u \in Users, NEW s \in ShareAmounts,
         MintFolioToken(u, s)
  PROVE  /\ GetTotalSupply(folio', supply') \in Nat
         /\ GetTotalSupply(folio', supply') <= AccruedSupply + s * D9
         /\ s > 0 => GetTotalSupply(folio', supply') > AccruedSupply
         /\ \A m \in basketMints :
              /\ basket[m] # 0 /\ AccruedSupply # 0
              /\ basket[m] + MintCharge(s, basket[m], AccruedSupply) <= MaxU64
              /\ basket'[m] = basket[m] + MintCharge(s, basket[m], AccruedSupply)
              /\ minting' = [minting EXCEPT ![u] = [n \in Mints |-> minting[u][n] -
                   IF n \in basketMints THEN MintCharge(s, basket[n], AccruedSupply) ELSE 0]]
         /\ \A m \in Mints \ basketMints : minting'[u][m] = minting[u][m]
<1> DEFINE fee == GetFeeDetails
           p == Poke(folio, supply, now, fee)
           w == MintFeeShares(p, s, fee)
           charge == [m \in Mints |-> IF m \in basketMints
                        THEN MintCharge(s, basket[m], GetTotalSupply(p, supply)) ELSE 0]
<1>0. /\ folio \in FolioRecord /\ supply \in U64 /\ now \in Nat /\ fee \in FeeDetails
      /\ s \in U64
  BY FeeDetailsType, FolioAssumption DEF TypeOK
<1>1. /\ PokeOk(folio, supply, now, fee) /\ s >= w
      /\ folio' = CalculateFeesForMinting(p, s, fee) /\ supply' = supply + (s - w)
  BY DEF MintFolioToken
<1>2. /\ \A m \in basketMints :
           /\ basket[m] # 0 /\ GetTotalSupply(p, supply) # 0
           /\ basket[m] + charge[m] <= MaxU64
      /\ minting' = [minting EXCEPT ![u] = [m \in Mints |-> minting[u][m] - charge[m]]]
      /\ basket' = [m \in Mints |-> basket[m] + charge[m]]
  BY DEF MintFolioToken
<1>3. p \in FolioRecord /\ AccruedSupply = GetTotalSupply(p, supply)
  BY <1>0, <1>1, PokeType, AccruedIsMore
<1>4. p.mint_fee <= MaxMintFee
  BY <1>0, <1>1 DEF Poke, FolioRecord, MintFeeBounded
<1> HIDE DEF p, fee
<1>5. /\ GetTotalSupply(folio', supply') \in Nat
      /\ GetTotalSupply(folio', supply') <= AccruedSupply + s * D9
      /\ s > 0 => GetTotalSupply(folio', supply') > AccruedSupply
  BY <1>0, <1>1, <1>3, <1>4, MintedSupply DEF w
<1>6. \A n \in Mints : charge[n] =
         IF n \in basketMints THEN MintCharge(s, basket[n], AccruedSupply) ELSE 0
  BY <1>3
<1>7. /\ basketMints \subseteq Mints /\ \A m \in Mints : minting[u][m] \in Nat
      /\ minting \in [Users -> [Mints -> U64]]
  BY DecimalAssumption DEF TypeOK, AssetTypes, UserTypes, U64
<1>8. minting' = [minting EXCEPT ![u] = [n \in Mints |-> minting[u][n] -
         IF n \in basketMints THEN MintCharge(s, basket[n], AccruedSupply) ELSE 0]]
  <2> HIDE DEF charge
  <2> QED BY <1>2, <1>6
<1> HIDE DEF charge
<1>9. \A m \in basketMints :
        /\ basket[m] # 0 /\ AccruedSupply # 0
        /\ basket[m] + MintCharge(s, basket[m], AccruedSupply) <= MaxU64
        /\ basket'[m] = basket[m] + MintCharge(s, basket[m], AccruedSupply)
  BY <1>2, <1>3, <1>6, <1>7
<1>10. \A m \in Mints \ basketMints : minting'[u][m] = minting[u][m]
  BY <1>7, <1>8
<1> QED BY <1>5, <1>8, <1>9, <1>10

\* The arithmetic of a share's worth: h is what a step adds to the scaled backing b
\* of a supply t, x what it adds to the supply.
LEMMA WorthGrows ==
  ASSUME NEW b \in Nat, NEW h \in Nat, NEW t \in Nat, NEW x \in Nat, NEW n \in Nat,
         (h + 1) * t >= b * x, n <= t + x
  PROVE  (b + h + 1) * t >= b * n
<1>1. (b + h + 1) * t = b * t + (h + 1) * t /\ b * (t + x) = b * t + b * x
  OBVIOUS
<1>2. \A y, z \in Nat : y <= z => b * y <= b * z /\ b * y \in Nat /\ b * z \in Nat
  OBVIOUS
<1>3. b * n <= b * (t + x) /\ b * n \in Nat /\ b * t \in Nat /\ b * x \in Nat
      /\ (h + 1) * t \in Nat
  BY <1>2
<1> QED BY <1>1, <1>3

LEMMA WorthStays ==
  ASSUME NEW b \in Nat, NEW h \in Nat, NEW t \in Nat, NEW x \in Nat, NEW n \in Int,
         h <= b, h * t <= b * x, n <= t - x
  PROVE  (b - h + 1) * t >= b * n
<1>1. (b - h + 1) * t = b * t - h * t + t /\ b * (t - x) = b * t - b * x
  OBVIOUS
<1>2. \A y, z \in Int : y <= z => b * y <= b * z /\ b * y \in Int /\ b * z \in Int
  OBVIOUS
<1>3. b * n <= b * (t - x) /\ b * n \in Int /\ b * t \in Nat /\ b * x \in Nat
      /\ h * t \in Nat
  BY <1>2
<1> QED BY <1>1, <1>3

\* No step dilutes: what a share is worth in a token that stays in the basket falls
\* by no more than a scaled unit's rounding below the accrual of fees already due.
WorthKept(m) == (FromTokenAmount(basket'[m]) + 1) * AccruedSupply
                  >= FromTokenAmount(basket[m]) * GetTotalSupply(folio', supply')

LEMMA MintKeepsWorth ==
  ASSUME TypeOK, MintFeeBounded, NEW u \in Users, NEW s \in ShareAmounts,
         MintFolioToken(u, s), NEW m \in basketMints
  PROVE  WorthKept(m)
<1> DEFINE c == MintCharge(s, basket[m], AccruedSupply)
           N == GetTotalSupply(folio', supply')
<1>1. /\ N \in Nat /\ N <= AccruedSupply + s * D9
      /\ basket[m] # 0 /\ AccruedSupply # 0 /\ basket[m] + c <= MaxU64
      /\ basket'[m] = basket[m] + c
  BY MintShape
<1>2. AccruedSupply \in Nat /\ s \in U64 /\ m \in Mints /\ basket[m] \in U64
  BY AccruedIsMore, FolioAssumption DEF TypeOK, AssetTypes
<1>3. c \in Nat /\ (c * D9 + 1) * AccruedSupply >= (basket[m] * D9) * (s * D9)
  BY <1>1, <1>2, ChargeCovers
<1>4. s * D9 \in Nat /\ basket[m] * D9 \in Nat /\ c * D9 \in Nat
      /\ (basket[m] + c) * D9 = basket[m] * D9 + c * D9
  <2>1. s \in Nat /\ basket[m] \in Nat /\ D9 \in Nat
    BY <1>2, D18Pos, DecimalAssumption DEF U64
  <2> HIDE DEF c
  <2> QED BY <1>3, <2>1
<1> HIDE DEF c, N
<1>5. (basket[m] * D9 + c * D9 + 1) * AccruedSupply >= (basket[m] * D9) * N
  BY <1>1, <1>2, <1>3, <1>4, WorthGrows
<1> QED BY <1>1, <1>4, <1>5 DEF WorthKept, FromTokenAmount, N

LEMMA BurnKeepsWorth ==
  ASSUME TypeOK, NEW u \in Users, NEW s \in ShareAmounts, BurnFolioToken(u, s),
         NEW m \in basketMints
  PROVE  WorthKept(m)
<1> DEFINE p == Poke(folio, supply, now, GetFeeDetails)
           h == RedeemShare(s, basket[m], AccruedSupply)
           N == GetTotalSupply(folio', supply')
<1>0. /\ folio \in FolioRecord /\ supply \in U64 /\ now \in Nat
      /\ s \in U64 /\ m \in Mints /\ basket[m] \in U64 /\ AccruedSupply \in Nat
  BY AccruedIsMore, FolioAssumption DEF TypeOK, AssetTypes
<1>1. /\ PokeOk(folio, supply, now, GetFeeDetails) /\ supply >= s
      /\ folio' = p /\ supply' = supply - s
  BY DEF BurnFolioToken
<1>2. p \in FolioRecord /\ AccruedSupply = GetTotalSupply(p, supply)
  BY <1>0, <1>1, PokeType, AccruedIsMore
<1>3. AccruedSupply # 0 /\ basket[m] >= h /\ basket'[m] = basket[m] - h
  <2>1. /\ GetTotalSupply(p, supply) # 0
        /\ basket[m] >= RedeemShare(s, basket[m], GetTotalSupply(p, supply))
        /\ basket'[m] = basket[m] - RedeemShare(s, basket[m], GetTotalSupply(p, supply))
    BY <1>0 DEF BurnFolioToken
  <2> QED BY <1>2, <2>1
<1> HIDE DEF p
<1>4. h \in Nat /\ (h * D9) * AccruedSupply <= (basket[m] * D9) * (s * D9)
  BY <1>0, <1>3, ShareBounded
<1>5. s \in Nat /\ basket[m] \in Nat /\ D9 \in Nat /\ supply \in Nat
  BY <1>0, D18Pos, DecimalAssumption DEF U64
<1> HIDE DEF h
<1>6. /\ s * D9 \in Nat /\ basket[m] * D9 \in Nat /\ h * D9 \in Nat
      /\ (basket[m] - h) * D9 = basket[m] * D9 - h * D9
      /\ (supply - s) * D9 = supply * D9 - s * D9 /\ supply * D9 \in Nat
      /\ h * D9 <= basket[m] * D9
  <2>1. \A x, y, d \in Nat : x <= y => x * d <= y * d
    OBVIOUS
  <2> QED BY <1>3, <1>4, <1>5, <2>1
<1>7. N = AccruedSupply - s * D9 /\ N \in Int
  BY <1>1, <1>2, <1>6, SupplyParts DEF GetTotalSupply, FromTokenAmount
<1> HIDE DEF N
<1>8. (basket[m] * D9 - h * D9 + 1) * AccruedSupply >= (basket[m] * D9) * N
  BY <1>0, <1>4, <1>6, <1>7, WorthStays
<1> QED BY <1>3, <1>6, <1>8 DEF WorthKept, FromTokenAmount, N

\* A step that creates no shares and takes nothing from the basket keeps the worth.
LEMMA OtherKeepsWorth ==
  ASSUME TypeOK, TypeOK', SupplyKept, NEW m \in Mints, basket'[m] >= basket[m]
  PROVE  WorthKept(m)
<1>1. /\ AccruedSupply \in Nat /\ basket[m] \in Nat /\ basket'[m] \in Nat /\ D9 \in Nat
      /\ folio' \in FolioRecord /\ supply' \in U64
  BY AccruedIsMore, SurplusInt, NextNat, D18Pos DEF TypeOK
<1> DEFINE N == GetTotalSupply(folio', supply')
           k == basket'[m] - basket[m]
<1>2. N \in Nat /\ N <= AccruedSupply + 0
  BY <1>1, TotalSupplyNat DEF SupplyKept
<1>3. k \in Nat /\ basket'[m] = basket[m] + k
  BY <1>1
<1> HIDE DEF k
<1>4. /\ basket[m] * D9 \in Nat /\ k * D9 \in Nat
      /\ (basket[m] + k) * D9 = basket[m] * D9 + k * D9
      /\ (basket[m] * D9) * 0 = 0
      /\ (k * D9 + 1) * AccruedSupply >= 0
  BY <1>1, <1>3
<1> HIDE DEF N
<1>5. (basket[m] * D9 + k * D9 + 1) * AccruedSupply >= (basket[m] * D9) * N
  BY <1>1, <1>2, <1>4, WorthGrows
<1> QED BY <1>3, <1>4, <1>5 DEF WorthKept, FromTokenAmount, N

LEMMA WorthStep ==
  ASSUME TypeOK, MintFeeBounded, [Next]_vars,
         folio.status # "Initializing", basketMints \subseteq basketMints',
         NEW m \in basketMints
  PROVE  WorthKept(m)
<1>0. /\ TypeOK' /\ m \in Mints /\ basket[m] \in Nat /\ basketMints \subseteq Mints
      /\ basket \in [Mints -> U64]
  BY TypeStep, SurplusInt DEF TypeOK, AssetTypes
<1>1. CASE \E u \in Users, s \in ShareAmounts : MintFolioToken(u, s)
  BY <1>1, MintKeepsWorth
<1>2. CASE \E u \in Users, s \in ShareAmounts : BurnFolioToken(u, s)
  BY <1>2, BurnKeepsWorth
<1>3. CASE /\ ~ \E u \in Users, s \in ShareAmounts : MintFolioToken(u, s)
           /\ ~ \E u \in Users, s \in ShareAmounts : BurnFolioToken(u, s)
  <2>1. SupplyKept
    BY <1>3, SupplyStep
  <2>2. ASSUME basket' = basket PROVE basket'[m] >= basket[m]
    BY <1>0, <2>2
  <2>3. ASSUME NEW a, NEW b \in Batches, NEW s, AddToBasket(a, b, s)
        PROVE  basket'[m] >= basket[m]
    <3>1. basket'[m] = basket[m] + Amount(b, m)
      BY <1>0, <2>3 DEF AddToBasket
    <3>2. Amount(b, m) \in Nat
      BY AmountType DEF U64
    <3> QED BY <1>0, <3>1, <3>2
  <2>4. ASSUME NEW a, NEW n \in Mints, RemoveFromBasket(a, n) PROVE FALSE
    BY <2>4 DEF RemoveFromBasket
  <2>5. ASSUME NEW S \in SUBSET Mints, MigrateFolioTokens(S) PROVE FALSE
    BY <2>5 DEF MigrateFolioTokens
  <2>6. ASSUME \/ StaysPut
               \/ \E u \in Users, b \in Batches :
                    \/ AddToPendingBasket(u, b)
                    \/ RemoveFromPendingBasket(u, b)
                    \/ RedeemFromPendingBasket(u, b)
               \/ \E u \in Users : CloseUserPendingTokenAmount(u)
               \/ \E b \in Donations : Donate(b)
        PROVE  basket' = basket
    BY <2>6 DEF StaysPut, AddToPendingBasket, RemoveFromPendingBasket,
                RedeemFromPendingBasket, CloseUserPendingTokenAmount, Donate, assetVars
  <2>7. basket'[m] >= basket[m]
    BY <1>3, <2>2, <2>3, <2>4, <2>5, <2>6, StepCases, Zenon
  <2> QED BY <1>0, <2>1, <2>7, OtherKeepsWorth
<1> QED BY <1>1, <1>2, <1>3

\* For any number of users and tokens, any fees and any rounding, no sequence of mints,
\* burns, accruals, distributions and cranks takes from a holder more than the fees
\* due and one scaled unit per step.
THEOREM HoldersUndiluted == Spec => NoDilution
<1> DEFINE Worth ==
      (folio.status # "Initializing" /\ basketMints \subseteq basketMints') =>
         \A m \in basketMints :
           (FromTokenAmount(basket'[m]) + 1) * AccruedSupply
             >= FromTokenAmount(basket[m]) * GetTotalSupply(folio', supply')
<1>1. TypeOK /\ MintFeeBounded /\ [Next]_vars => [Worth]_vars
  BY WorthStep DEF WorthKept
<1> QED BY <1>1, TypeCorrect, MintFeeHolds, PTL DEF Spec, NoDilution

-----------------------------------------------------------------------------
(* A claim is paid out or becomes backing *)

Honoured(u, m) ==
  Claim(u, m)' < Claim(u, m) =>
    \/ ata'[m] = ata[m] - (Claim(u, m) - Claim(u, m)')
    \/ /\ basket'[m] = basket[m] + (Claim(u, m) - Claim(u, m)')
       /\ GetTotalSupply(folio', supply') > GetTotalSupply(folio, supply)

LEMMA HonouredStep ==
  ASSUME TypeOK, MintFeeBounded, [Next]_vars, NEW u \in Users, NEW m \in Mints
  PROVE  Honoured(u, m)
<1>0. /\ TypeOK' /\ Claim(u, m) \in Nat /\ Claim(u, m)' \in Nat
      /\ minting[u][m] \in Nat /\ redeeming[u][m] \in Nat /\ ata[m] \in Nat
      /\ minting \in [Users -> [Mints -> U64]] /\ redeeming \in [Users -> [Mints -> U64]]
      /\ minting'[u][m] \in Nat /\ redeeming'[u][m] \in Nat
  <2>1. TypeOK'
    BY TypeStep
  <2>2. Claim(u, m) \in Nat /\ Claim(u, m)' \in Nat
    BY <2>1, ClaimNat, NextNat
  <2>3. minting'[u][m] \in Nat /\ redeeming'[u][m] \in Nat
    BY <2>1, DecimalAssumption DEF TypeOK, UserTypes, U64
  <2>4. /\ minting[u][m] \in Nat /\ redeeming[u][m] \in Nat
        /\ minting \in [Users -> [Mints -> U64]] /\ redeeming \in [Users -> [Mints -> U64]]
    BY DecimalAssumption DEF TypeOK, UserTypes, U64
  <2> QED BY <2>1, <2>2, <2>3, <2>4, SurplusInt
<1>1. Claim(u, m) = minting[u][m] + redeeming[u][m]
      /\ Claim(u, m)' = minting'[u][m] + redeeming'[u][m]
  BY DEF Claim
<1>2. ASSUME minting'[u][m] >= minting[u][m], redeeming'[u][m] >= redeeming[u][m]
      PROVE  Honoured(u, m)
  BY <1>0, <1>1, <1>2 DEF Honoured
<1>3. ASSUME NEW v \in Users, NEW b \in Batches, AddToPendingBasket(v, b)
      PROVE  Honoured(u, m)
  <2>1. /\ redeeming' = redeeming
        /\ minting' = [minting EXCEPT ![v] = [n \in Mints |-> minting[v][n] + Amount(b, n)]]
    BY <1>3 DEF AddToPendingBasket
  <2>2. Amount(b, m) \in Nat
    BY AmountType DEF U64
  <2> QED BY <1>0, <1>2, <2>1, <2>2
<1>4. ASSUME NEW v \in Users, NEW b \in Batches, RemoveFromPendingBasket(v, b)
      PROVE  Honoured(u, m)
  <2>1. /\ redeeming' = redeeming /\ ata'[m] = ata[m] - Amount(b, m)
        /\ minting' = [minting EXCEPT ![v] = [n \in Mints |-> minting[v][n] - Amount(b, n)]]
    BY <1>4 DEF RemoveFromPendingBasket, Sent
  <2>2. Amount(b, m) \in Nat
    BY AmountType DEF U64
  <2>3. CASE v # u
    BY <1>0, <1>2, <2>1, <2>3
  <2>4. CASE v = u
    BY <1>0, <1>1, <2>1, <2>2, <2>4 DEF Honoured
  <2> QED BY <2>3, <2>4
<1>5. ASSUME NEW v \in Users, NEW b \in Batches, RedeemFromPendingBasket(v, b)
      PROVE  Honoured(u, m)
  <2>1. /\ minting' = minting /\ ata'[m] = ata[m] - Amount(b, m)
        /\ redeeming' =
             [redeeming EXCEPT ![v] = [n \in Mints |-> redeeming[v][n] - Amount(b, n)]]
    BY <1>5 DEF RedeemFromPendingBasket, Sent
  <2>2. Amount(b, m) \in Nat
    BY AmountType DEF U64
  <2>3. CASE v # u
    BY <1>0, <1>2, <2>1, <2>3
  <2>4. CASE v = u
    BY <1>0, <1>1, <2>1, <2>2, <2>4 DEF Honoured
  <2> QED BY <2>3, <2>4
<1>6. ASSUME NEW v \in Users, CloseUserPendingTokenAmount(v) PROVE Honoured(u, m)
  <2>1. /\ minting' = [minting EXCEPT ![v] = [n \in Mints |-> 0]]
        /\ redeeming' = [redeeming EXCEPT ![v] = [n \in Mints |-> 0]]
        /\ minting[v][m] = 0 /\ redeeming[v][m] = 0
    BY <1>6 DEF CloseUserPendingTokenAmount, IsEmpty
  <2> QED BY <1>0, <1>2, <2>1
<1>7. ASSUME NEW v \in Users, NEW s \in ShareAmounts, BurnFolioToken(v, s)
      PROVE  Honoured(u, m)
  <2>1. PICK moved \in [Mints -> U64] :
          redeeming' = [redeeming EXCEPT ![v] = [n \in Mints |-> redeeming[v][n] + moved[n]]]
    BY <1>7, BurnFolioTokenType
  <2>2. minting' = minting /\ moved[m] \in Nat
    BY <1>7, DecimalAssumption DEF BurnFolioToken, U64
  <2> QED BY <1>0, <1>2, <2>1, <2>2
<1>8. ASSUME NEW v \in Users, NEW s \in ShareAmounts, MintFolioToken(v, s)
      PROVE  Honoured(u, m)
  <2> DEFINE c == MintCharge(s, basket[m], AccruedSupply)
  <2>1. redeeming' = redeeming
    BY <1>8 DEF MintFolioToken
  <2>2. CASE m \notin basketMints \/ v # u
    <3>1. minting'[u][m] = minting[u][m]
      <4>1. CASE v = u
        <5>1. m \in Mints \ basketMints
          BY <2>2, <4>1
        <5> QED BY <1>8, <4>1, <5>1, MintShape
      <4>2. CASE v # u
        <5>1. PICK moved : minting' = [minting EXCEPT ![v] = moved]
          BY <1>8 DEF MintFolioToken
        <5> QED BY <1>0, <4>2, <5>1
      <4> QED BY <4>1, <4>2
    <3> QED BY <1>0, <1>2, <2>1, <3>1
  <2>3. CASE m \in basketMints /\ v = u
    <3>1. /\ basket[m] # 0 /\ AccruedSupply # 0 /\ basket[m] + c <= MaxU64
          /\ basket'[m] = basket[m] + c
          /\ minting' = [minting EXCEPT ![u] = [n \in Mints |-> minting[u][n] -
               IF n \in basketMints THEN MintCharge(s, basket[n], AccruedSupply) ELSE 0]]
      BY <1>8, <2>3, MintShape
    <3>2. minting'[u][m] = minting[u][m] - c
      BY <1>0, <2>3, <3>1
    <3>3. /\ s \in U64 /\ basket[m] \in U64 /\ AccruedSupply \in Nat
          /\ GetTotalSupply(folio, supply) \in Nat
          /\ GetTotalSupply(folio, supply) <= AccruedSupply
      BY AccruedIsMore, FolioAssumption DEF TypeOK, AssetTypes
    <3>4. c \in Nat /\ (c > 0 => s > 0)
      BY <3>1, <3>3, ChargeCovers
    <3>5. /\ s > 0 => GetTotalSupply(folio', supply') > AccruedSupply
          /\ GetTotalSupply(folio', supply') \in Nat
      BY <1>8, MintShape
    <3> HIDE DEF c
    <3>6. CASE c = 0
      BY <1>0, <1>2, <2>1, <3>2, <3>6
    <3>7. CASE c > 0
      <4>1. GetTotalSupply(folio', supply') > GetTotalSupply(folio, supply)
        BY <3>3, <3>4, <3>5, <3>7
      <4>2. Claim(u, m) - Claim(u, m)' = c
        BY <1>0, <1>1, <2>1, <3>2, <3>4
      <4> QED BY <3>1, <4>1, <4>2 DEF Honoured
    <3> QED BY <3>4, <3>6, <3>7
  <2> QED BY <2>2, <2>3
<1>9. ASSUME \/ StaysPut
             \/ \E a \in Actors, b \in Batches : \E s : AddToBasket(a, b, s)
             \/ \E a \in Actors, n \in Mints : RemoveFromBasket(a, n)
             \/ \E b \in Donations : Donate(b)
             \/ \E S \in SUBSET Mints : MigrateFolioTokens(S)
      PROVE  Honoured(u, m)
  <2>1. minting' = minting /\ redeeming' = redeeming
    BY <1>9 DEF StaysPut, AddToBasket, RemoveFromBasket, Donate, MigrateFolioTokens, userVars
  <2> QED BY <1>0, <1>2, <2>1
<1> QED BY <1>3, <1>4, <1>5, <1>6, <1>7, <1>8, <1>9, StepCases, Zenon

\* Claims are honoured in full, whatever runs in between: what a user's claim loses
\* is paid out of the token account, or is backing of shares that the step creates.
THEOREM ClaimsArePaid == Spec => ClaimsHonoured
<1>1. TypeOK /\ MintFeeBounded /\ [Next]_vars
        => [\A u \in Users, m \in Mints : Honoured(u, m)]_vars
  BY HonouredStep
<1> QED BY <1>1, TypeCorrect, MintFeeHolds, PTL DEF Spec, ClaimsHonoured, Honoured

-----------------------------------------------------------------------------
(* Open distributions are covered by the shares reserved for them *)

\* One recipient's payment, and none for a recipient that is not named.
Payment(d, S, r) == IF r \in S THEN RecipientPayment(d.amount, d.unpaid[r]) ELSE 0

LEMMA PaymentNat ==
  ASSUME NEW d \in Distributions, NEW S, S \subseteq DOMAIN d.unpaid
  PROVE  /\ \A r \in Recipients :
              /\ Payment(d, S, r) \in Nat
              /\ r \in S => (Payment(d, S, r) * D9) * D18 <= d.amount * d.unpaid[r]
         /\ PaymentsTo(d, S) = Total([r \in Recipients |-> Payment(d, S, r)], NRecipients)
         /\ [r \in Recipients |-> Payment(d, S, r)] \in [1..NRecipients -> Nat]
         /\ NRecipients \in Nat /\ d.amount \in Nat
<1>1. d.amount \in Nat /\ d.unpaid \in Tables(Recipients)
  BY DecimalAssumption DEF Distributions, U128
<1>2. /\ \A r \in DOMAIN d.unpaid : d.unpaid[r] \in Nat
      /\ DOMAIN d.unpaid \subseteq Recipients
  BY <1>1, TableIs, D18Pos
<1>3. ASSUME NEW r \in S
      PROVE  /\ RecipientPayment(d.amount, d.unpaid[r]) \in Nat
             /\ (RecipientPayment(d.amount, d.unpaid[r]) * D9) * D18 <= d.amount * d.unpaid[r]
  <2> DEFINE x == d.amount * d.unpaid[r]
             q == x \div D18
             y == ToTokenFloor(q)
  <2>1. x \in Nat
    BY <1>1, <1>2, NatOps
  <2> HIDE DEF x
  <2>2. q \in Nat /\ q * D18 <= x
    BY <2>1, FloorBound, NatOps, D18Pos
  <2> HIDE DEF q
  <2>3. y \in Nat /\ y * D9 <= q /\ y * D9 \in Nat
    <3>1. y \in U64 /\ FromTokenAmount(y) <= q
      BY <2>2, Conversions
    <3>2. y \in Nat
      BY <3>1, DecimalAssumption DEF U64
    <3> HIDE DEF y
    <3> QED BY <3>1, <3>2, D18Pos, NatOps DEF FromTokenAmount
  <2>4. (y * D9) * D18 <= q * D18 /\ (y * D9) * D18 \in Nat /\ q * D18 \in Nat
    <3>1. \A a, b, c \in Nat : a <= b => a * c <= b * c /\ a * c \in Nat /\ b * c \in Nat
      OBVIOUS
    <3> HIDE DEF y
    <3> QED BY <2>2, <2>3, <3>1, D18Pos
  <2>5. RecipientPayment(d.amount, d.unpaid[r]) = y
    BY DEF RecipientPayment, y, q, x
  <2> HIDE DEF y
  <2> QED BY <2>1, <2>2, <2>3, <2>4, <2>5 DEF x
<1>4. \A r \in Recipients :
        /\ Payment(d, S, r) \in Nat
        /\ r \in S => (Payment(d, S, r) * D9) * D18 <= d.amount * d.unpaid[r]
  BY <1>3 DEF Payment
<1>5. PaymentsTo(d, S) = Total([r \in Recipients |-> Payment(d, S, r)], NRecipients)
  BY DEF PaymentsTo, Payment
<1>6. [r \in Recipients |-> Payment(d, S, r)] \in [1..NRecipients -> Nat]
  BY <1>4 DEF Recipients
<1> QED BY <1>1, <1>4, <1>5, <1>6, FolioAssumption

\* Portions that add up to no more than the whole are paid out of the amount.
PortionsOf(t) == [r \in Recipients |-> Amount(t, r)]

LEMMA PaymentsBounded ==
  ASSUME NEW d \in Distributions, Total(PortionsOf(d.unpaid), NRecipients) <= D18
  PROVE  /\ PaymentsTo(d, DOMAIN d.unpaid) \in Nat
         /\ FromTokenAmount(PaymentsTo(d, DOMAIN d.unpaid)) <= d.amount
<1> DEFINE S == DOMAIN d.unpaid
           f == PortionsOf(d.unpaid)
           g == [r \in Recipients |-> Payment(d, S, r)]
           P == PaymentsTo(d, S)
<1>1. /\ P = Total(g, NRecipients) /\ g \in [1..NRecipients -> Nat]
      /\ NRecipients \in Nat /\ d.amount \in Nat
      /\ \A r \in Recipients :
           r \in S => (Payment(d, S, r) * D9) * D18 <= d.amount * d.unpaid[r]
  BY PaymentNat
<1>2. d.unpaid \in Tables(Recipients)
  BY DEF Distributions
<1>3. \A r \in S : d.unpaid[r] \in Nat
  BY <1>2, TableIs, D18Pos
<1>4. f \in [1..NRecipients -> Nat]
  BY <1>3 DEF PortionsOf, Amount, Recipients
<1>5. D9 * D18 \in Nat /\ D18 \in Nat /\ D9 \in Nat /\ D18 > 0
  BY D18Pos, NatOps
<1>6. ASSUME NEW r \in 1..NRecipients PROVE g[r] * (D9 * D18) <= d.amount * f[r]
  <2>1. r \in Recipients /\ g[r] = Payment(d, S, r) /\ g[r] \in Nat
    BY <1>1 DEF Recipients
  <2>2. CASE r \in S
    <3>1. f[r] = d.unpaid[r]
      BY <2>1, <2>2 DEF PortionsOf, Amount
    <3>2. (g[r] * D9) * D18 <= d.amount * f[r]
      BY <1>1, <2>1, <2>2, <3>1
    <3> HIDE DEF g, f
    <3>3. (g[r] * D9) * D18 = g[r] * (D9 * D18)
      BY <2>1, <1>5
    <3> QED BY <3>2, <3>3
  <2>3. CASE r \notin S
    <3>1. g[r] = 0 /\ f[r] = 0
      BY <2>1, <2>3 DEF Payment, PortionsOf, Amount
    <3> QED BY <1>1, <1>5, <3>1
  <2> QED BY <2>2, <2>3
<1> HIDE DEF f, g, P, S
<1>7. Total(g, NRecipients) * (D9 * D18) <= d.amount * Total(f, NRecipients)
  BY <1>1, <1>4, <1>5, <1>6, TotalWeighted
<1>8. P \in Nat /\ Total(f, NRecipients) \in Nat
  BY <1>1, <1>4, TotalNat
<1>9. d.amount * Total(f, NRecipients) <= d.amount * D18
  <2>1. \A a, b, c \in Nat : b <= c => a * b <= a * c
    OBVIOUS
  <2> QED BY <1>1, <1>5, <1>8, <2>1 DEF f
<1>10. P * D9 <= d.amount
  <2> DEFINE x == P * D9
             a == d.amount
  <2>1. x \in Nat /\ a \in Nat
    BY <1>1, <1>5, <1>8, NatOps
  <2>2. P * (D9 * D18) = x * D18
    BY <1>5, <1>8
  <2>3. P * (D9 * D18) \in Nat /\ a * Total(f, NRecipients) \in Nat /\ a * D18 \in Nat
    BY <1>1, <1>5, <1>8, NatOps
  <2>4. x * D18 <= a * D18
    BY <1>1, <1>7, <1>9, <2>2, <2>3
  <2> HIDE DEF x, a
  <2>5. x >= a + 1 => x * D18 >= (a + 1) * D18
    BY <2>1, <1>5
  <2>6. (a + 1) * D18 = a * D18 + D18
    BY <2>1, <1>5
  <2>7. ~(x >= a + 1)
    BY <2>1, <2>3, <2>4, <2>5, <2>6, <1>5
  <2> QED BY <2>1, <2>7 DEF x, a
<1> QED BY <1>8, <1>10 DEF FromTokenAmount, P, S

\* What is left to pay after some of the recipients were paid.
Rest(d, left) == [d EXCEPT !.unpaid = Restrict(d.unpaid, left)]

LEMMA PaymentsSplit ==
  ASSUME NEW d \in Distributions, NEW S \in SUBSET DOMAIN d.unpaid
  PROVE  LET left == DOMAIN d.unpaid \ S
         IN  /\ Rest(d, left) \in Distributions
             /\ DOMAIN Rest(d, left).unpaid = left
             /\ PaymentsTo(d, S) \in Nat /\ PaymentsTo(Rest(d, left), left) \in Nat
             /\ PaymentsTo(d, DOMAIN d.unpaid)
                  = PaymentsTo(d, S) + PaymentsTo(Rest(d, left), left)
<1> DEFINE D == DOMAIN d.unpaid
           left == D \ S
           e == Rest(d, left)
           h == [r \in Recipients |-> Payment(d, D, r)]
           f == [r \in Recipients |-> Payment(d, S, r)]
           g == [r \in Recipients |-> Payment(e, left, r)]
<1>1. d.unpaid \in Tables(Recipients) /\ DOMAIN d.unpaid \subseteq Recipients
  BY TableIs DEF Distributions
<1>2. Restrict(d.unpaid, left) \in Tables(Recipients)
  BY <1>1, RestrictTable
<1>3. /\ e \in Distributions /\ e.unpaid = Restrict(d.unpaid, left) /\ e.amount = d.amount
  <2> DEFINE t == Restrict(d.unpaid, left)
  <2>1. e = [d EXCEPT !.unpaid = t]
    BY DEF Rest
  <2> HIDE DEF t, e
  <2> QED BY <1>2, <2>1 DEF Distributions, t
<1>4. DOMAIN e.unpaid = left /\ \A r \in left : e.unpaid[r] = d.unpaid[r]
  BY <1>3 DEF Restrict
<1>5. /\ h \in [1..NRecipients -> Nat] /\ PaymentsTo(d, D) = Total(h, NRecipients)
      /\ f \in [1..NRecipients -> Nat] /\ PaymentsTo(d, S) = Total(f, NRecipients)
      /\ NRecipients \in Nat
  BY PaymentNat
<1> HIDE DEF e
<1>6. g \in [1..NRecipients -> Nat] /\ PaymentsTo(e, left) = Total(g, NRecipients)
  BY <1>3, <1>4, PaymentNat
<1>7. ASSUME NEW r \in 1..NRecipients PROVE h[r] = f[r] + g[r]
  <2>1. r \in Recipients /\ h[r] \in Nat /\ f[r] \in Nat /\ g[r] \in Nat
    BY <1>5, <1>6 DEF Recipients
  <2>2. h[r] = Payment(d, D, r) /\ f[r] = Payment(d, S, r) /\ g[r] = Payment(e, left, r)
    BY <2>1
  <2>3. CASE r \in S
    <3>1. r \in D /\ r \notin left
      BY <2>3
    <3>2. g[r] = 0 /\ h[r] = f[r]
      BY <2>2, <2>3, <3>1 DEF Payment
    <3> HIDE DEF f, g, h
    <3> QED BY <2>1, <3>2
  <2>4. CASE r \in left
    <3>1. f[r] = 0 /\ h[r] = g[r]
      BY <1>3, <1>4, <2>2, <2>4 DEF Payment
    <3> HIDE DEF f, g, h
    <3> QED BY <2>1, <3>1
  <2>5. CASE r \notin S /\ r \notin left
    <3>1. f[r] = 0 /\ h[r] = 0 /\ g[r] = 0
      BY <2>2, <2>5 DEF Payment
    <3> QED BY <3>1
  <2> QED BY <2>3, <2>4, <2>5
<1> HIDE DEF f, g, h
<1>8. Total(h, NRecipients) = Total(f, NRecipients) + Total(g, NRecipients)
  BY <1>5, <1>6, <1>7, TotalSum
<1>9. Total(f, NRecipients) \in Nat /\ Total(g, NRecipients) \in Nat
  BY <1>5, <1>6, TotalNat
<1> QED BY <1>3, <1>4, <1>5, <1>6, <1>8, <1>9 DEF e

\* What is still to be paid out of each open distribution.
OwedTo(ds, i) ==
  IF i \in DOMAIN ds THEN FromTokenAmount(PaymentsTo(ds[i], DOMAIN ds[i].unpaid)) ELSE 0

OpenPayments(ds) == [i \in 1..MaxDistributions |-> OwedTo(ds, i)]

CoveredBy(ds, reserve) == Total(OpenPayments(ds), MaxDistributions) <= reserve

\* The recipients' portions never exceed the whole: what a distribution snapshots.
TableWhole == Total(PortionsOf(recips.table), NRecipients) <= D18

LEMMA OpenPaymentsType ==
  ASSUME NEW ds, \A i \in DOMAIN ds : ds[i] \in Distributions
  PROVE  /\ OpenPayments(ds) \in [1..MaxDistributions -> Nat]
         /\ MaxDistributions \in Nat
         /\ Total(OpenPayments(ds), MaxDistributions) \in Nat
<1>1. \A i \in DOMAIN ds : PaymentsTo(ds[i], DOMAIN ds[i].unpaid) \in Nat
  BY PaymentsNat
<1>2. \A i \in DOMAIN ds : FromTokenAmount(PaymentsTo(ds[i], DOMAIN ds[i].unpaid)) \in Nat
  BY <1>1, Conversions
<1>3. OpenPayments(ds) \in [1..MaxDistributions -> Nat]
  BY <1>2 DEF OpenPayments, OwedTo
<1>4. MaxDistributions \in Nat
  BY FolioAssumption
<1> QED BY <1>3, <1>4, TotalNat

\* A new distribution reserves at least what it will pay.
LEMMA DistributionCovered ==
  ASSUME TypeOK, TableWhole, CoveredBy(dists, folio.to_be_minted),
         NEW c \in Actors \cup {Admin},
         DistributeFeesOk(Poke(folio, supply, now, GetFeeDetails))
  PROVE  LET p == Poke(folio, supply, now, GetFeeDetails)
         IN  CoveredBy(DistributedDists(p, c), DistributedFolio(p).to_be_minted)
<1> DEFINE p == Poke(folio, supply, now, GetFeeDetails)
           ds == DistributedDists(p, c)
           new == recips.index + 1
           R == RecipientsDistribute(p)
<1>0. /\ folio \in FolioRecord /\ supply \in U64 /\ now \in Nat
      /\ recips.index \in Nat /\ DOMAIN dists \subseteq 1..recips.index
      /\ \A i \in DOMAIN dists : dists[i] \in Distributions
      /\ recips.table \in Tables(Keys)
  BY FolioAssumption DEF TypeOK, FeeTypes
<1>1. /\ PokeOk(folio, supply, now, GetFeeDetails) /\ recips.index < MaxDistributions
      /\ HasFeeRecipients => p.to_be_minted + R <= MaxU128
  BY DEF DistributeFeesOk
<1>2. p \in FolioRecord /\ p.to_be_minted = folio.to_be_minted
  BY <1>0, <1>1, PokeType
<1>3. R \in U128
  BY <1>1, <1>2, DistributedType
<1>4. \A i \in DOMAIN ds : ds[i] \in Distributions
  BY <1>3, DistributedDistsType
<1> HIDE DEF p
<1>5. CASE ~HasFeeRecipients
  <2>1. ds = dists /\ DistributedFolio(p).to_be_minted = folio.to_be_minted
    BY <1>2, <1>5 DEF DistributedDists, DistributedFolio, FolioRecord
  <2> HIDE DEF ds
  <2> QED BY <2>1 DEF ds, p
<1>6. CASE HasFeeRecipients
  <2> DEFINE t == Restrict(recips.table, DOMAIN recips.table \ {NoKey})
             d == [amount |-> R, cranker |-> c, unpaid |-> t]
             f == OpenPayments(dists)
             g == OpenPayments(ds)
  <2>1. DistributedFolio(p).to_be_minted = folio.to_be_minted + R
    BY <1>2, <1>6 DEF DistributedFolio, FolioRecord
  <2>2. /\ DOMAIN ds = DOMAIN dists \cup {new} /\ ds[new] = d
        /\ \A i \in DOMAIN dists : i # new => ds[i] = dists[i]
    BY <1>6 DEF DistributedDists
  <2>3. new \notin DOMAIN dists /\ new \in 1..MaxDistributions
    <3>1. MaxDistributions \in Nat
      BY FolioAssumption
    <3> QED BY <1>0, <1>1, <3>1
  <2>4. d \in Distributions
    BY <1>4, <2>2
  <2>5. /\ f \in [1..MaxDistributions -> Nat] /\ g \in [1..MaxDistributions -> Nat]
        /\ MaxDistributions \in Nat /\ Total(f, MaxDistributions) \in Nat
    BY <1>0, <1>4, OpenPaymentsType
  <2>6. \A r \in Recipients : Amount(t, r) = Amount(recips.table, r)
    <3>1. \A r \in Recipients : r # NoKey
      BY DEF Recipients, NoKey
    <3>2. DOMAIN t = DOMAIN recips.table \ {NoKey}
          /\ \A r \in DOMAIN t : t[r] = recips.table[r]
      BY DEF Restrict
    <3> HIDE DEF t
    <3> QED BY <3>1, <3>2 DEF Amount
  <2>7. PortionsOf(d.unpaid) = PortionsOf(recips.table)
    <3>1. d.unpaid = t
      OBVIOUS
    <3> HIDE DEF t, d
    <3> QED BY <2>6, <3>1 DEF PortionsOf
  <2>8. d.amount = R
    OBVIOUS
  <2> HIDE DEF d, ds, t
  <2>9. FromTokenAmount(PaymentsTo(d, DOMAIN d.unpaid)) <= R
    BY <2>4, <2>7, <2>8, PaymentsBounded DEF TableWhole
  <2>10. g[new] <= R /\ f[new] = 0
    BY <2>2, <2>3, <2>9 DEF OpenPayments, OwedTo
  <2>11. \A i \in 1..MaxDistributions : i # new => g[i] = f[i]
    BY <2>2 DEF OpenPayments, OwedTo
  <2> HIDE DEF f, g
  <2>12. Total(g, MaxDistributions) = Total(f, MaxDistributions) + g[new] - f[new]
    BY <2>3, <2>5, <2>11, TotalUpdate
  <2>13. Total(f, MaxDistributions) <= folio.to_be_minted
    BY DEF CoveredBy, f
  <2>14. g[new] \in Nat /\ R \in Nat /\ folio.to_be_minted \in Nat
    BY <1>0, <1>3, <2>3, <2>5, SupplyParts, DecimalAssumption DEF U128
  <2>15. Total(g, MaxDistributions) <= folio.to_be_minted + R
    BY <2>5, <2>10, <2>12, <2>13, <2>14
  <2> QED BY <2>1, <2>15 DEF CoveredBy, g, ds, p
<1> QED BY <1>5, <1>6

\* A crank pays a part of what a distribution still owes and takes it from the reserve.
LEMMA CrankCovered ==
  ASSUME TypeOK, CoveredBy(dists, folio.to_be_minted), NEW c, NEW i \in DOMAIN dists,
         NEW S \in SUBSET DOMAIN dists[i].unpaid, CrankFeeDistribution(c, i, S)
  PROVE  CoveredBy(dists', folio'.to_be_minted)
<1> DEFINE d == dists[i]
           paid == PaymentsTo(d, S)
           left == DOMAIN d.unpaid \ S
           f == OpenPayments(dists)
           g == OpenPayments(dists')
<1>0. /\ folio \in FolioRecord /\ d \in Distributions /\ i \in 1..MaxDistributions
      /\ \A j \in DOMAIN dists : dists[j] \in Distributions
  BY FolioAssumption DEF TypeOK, FeeTypes
<1>1. /\ folio.to_be_minted >= FromTokenAmount(paid)
      /\ folio' = [folio EXCEPT !.to_be_minted = folio.to_be_minted - FromTokenAmount(paid)]
      /\ dists' = IF left = {} THEN Restrict(dists, DOMAIN dists \ {i})
                  ELSE [dists EXCEPT ![i].unpaid = Restrict(d.unpaid, left)]
  BY DEF CrankFeeDistribution
<1>2. /\ Rest(d, left) \in Distributions /\ DOMAIN Rest(d, left).unpaid = left
      /\ paid \in Nat /\ PaymentsTo(Rest(d, left), left) \in Nat
      /\ PaymentsTo(d, DOMAIN d.unpaid) = paid + PaymentsTo(Rest(d, left), left)
  BY <1>0, PaymentsSplit
<1>3. folio'.to_be_minted = folio.to_be_minted - FromTokenAmount(paid)
  BY <1>0, <1>1 DEF FolioRecord
<1>4. f \in [1..MaxDistributions -> Nat] /\ MaxDistributions \in Nat
      /\ Total(f, MaxDistributions) \in Nat
  BY <1>0, OpenPaymentsType
<1>5. /\ \A j \in 1..MaxDistributions : j # i => g[j] = f[j]
      /\ g[i] \in Nat /\ g[i] <= f[i] - FromTokenAmount(paid) /\ FromTokenAmount(paid) \in Nat
      /\ g \in [1..MaxDistributions -> Nat]
  <2> DEFINE rest == PaymentsTo(Rest(d, left), left)
  <2>1. f[i] = (paid + rest) * D9
    BY <1>0, <1>2 DEF OpenPayments, OwedTo, FromTokenAmount
  <2>2. /\ (paid + rest) * D9 = paid * D9 + rest * D9
        /\ paid * D9 \in Nat /\ rest * D9 \in Nat
    <3> HIDE DEF paid, rest
    <3> QED BY <1>2, D18Pos DEF rest, paid
  <2>3. CASE left = {}
    <3>1. dists' = Restrict(dists, DOMAIN dists \ {i})
      BY <1>1, <2>3
    <3>2. DOMAIN dists' = DOMAIN dists \ {i} /\ \A j \in DOMAIN dists' : dists'[j] = dists[j]
      BY <3>1 DEF Restrict
    <3>3. \A j \in DOMAIN dists' : dists'[j] \in Distributions
      BY <1>0, <3>2
    <3>4. g[i] = 0 /\ \A j \in 1..MaxDistributions : j # i => g[j] = f[j]
      BY <1>0, <3>2 DEF OpenPayments, OwedTo
    <3>5. g \in [1..MaxDistributions -> Nat]
      BY <3>3, OpenPaymentsType
    <3> HIDE DEF f, g, paid, rest
    <3> QED BY <2>1, <2>2, <3>4, <3>5 DEF FromTokenAmount
  <2>4. CASE left # {}
    <3>1. dists' = [dists EXCEPT ![i].unpaid = Restrict(d.unpaid, left)]
      BY <1>1, <2>4
    <3>2. /\ DOMAIN dists' = DOMAIN dists /\ dists'[i] = Rest(d, left)
          /\ \A j \in DOMAIN dists : j # i => dists'[j] = dists[j]
      BY <3>1 DEF Rest
    <3>3. \A j \in DOMAIN dists' : dists'[j] \in Distributions
      BY <1>0, <1>2, <3>2
    <3>4. g[i] = rest * D9 /\ \A j \in 1..MaxDistributions : j # i => g[j] = f[j]
      BY <1>0, <1>2, <3>2 DEF OpenPayments, OwedTo, FromTokenAmount
    <3>5. g \in [1..MaxDistributions -> Nat]
      BY <3>3, OpenPaymentsType
    <3> HIDE DEF f, g, paid, rest
    <3> QED BY <2>1, <2>2, <3>4, <3>5 DEF FromTokenAmount
  <2> QED BY <2>3, <2>4
<1>6. Total(f, MaxDistributions) <= folio.to_be_minted /\ folio.to_be_minted \in Nat
  BY <1>0, SupplyParts DEF CoveredBy
<1> HIDE DEF f, g, paid
<1>7. Total(g, MaxDistributions) = Total(f, MaxDistributions) + g[i] - f[i]
  BY <1>0, <1>4, <1>5, TotalUpdate
<1>8. f[i] \in Nat
  BY <1>0, <1>4
<1>9. Total(g, MaxDistributions) <= folio'.to_be_minted
  BY <1>3, <1>4, <1>5, <1>6, <1>7, <1>8
<1> QED BY <1>9 DEF CoveredBy, g

\* The books of distributions: the table, the open distributions and their reserve.
BooksStay ==
  /\ dists' = dists /\ recips'.table = recips.table
  /\ folio'.to_be_minted = folio.to_be_minted

Booked == TableWhole /\ CoveredBy(dists, folio.to_be_minted)

\* The checked table of update_folio makes portions of the whole.
LEMMA NewTableWhole ==
  ASSUME TypeOK, NEW add \in Tables(Keys), NEW remove, NewTableOk(add, remove)
  PROVE  Total(PortionsOf(NewTable(add, remove)), NRecipients) <= D18
<1> DEFINE t == NewTable(add, remove)
<1>1. t \in Tables(Keys)
  BY NewTableType
<1>2. Portions(t) = D18
  BY DEF NewTableOk
<1> HIDE DEF t
<1>3. \A r \in DOMAIN t : t[r] \in Nat
  BY <1>1, TableIs, D18Pos
<1>4. PortionsOf(t) \in [1..NRecipients -> Nat] /\ Amount(t, NoKey) \in Nat
      /\ NRecipients \in Nat
  BY <1>3, FolioAssumption DEF PortionsOf, Amount, Recipients
<1>5. Total(PortionsOf(t), NRecipients) \in Nat
  BY <1>4, TotalNat
<1>6. Amount(t, NoKey) + Total(PortionsOf(t), NRecipients) = D18
  BY <1>2 DEF Portions, PortionsOf
<1>7. Total(PortionsOf(t), NRecipients) <= D18
  BY <1>4, <1>5, <1>6
<1> QED BY <1>7 DEF t

\* Steps that leave the books, and the four that write them.
LEMMA BookSteps ==
  ASSUME TypeOK, [Next]_vars
  PROVE  \/ BooksStay
         \/ \E c \in Crankers : DistributeFees(c)
         \/ \E a \in Actors, x \in Updates : UpdateFolio(a, x)
         \/ \E fd \in FeeDetailInputs : SetFolioFeeConfig(fd)
         \/ \E c \in Crankers, i \in DOMAIN dists :
              \E S \in SUBSET DOMAIN dists[i].unpaid : CrankFeeDistribution(c, i, S)
<1> DEFINE p == Poke(folio, supply, now, GetFeeDetails)
<1>0. folio \in FolioRecord /\ supply \in U64 /\ now \in Nat
  BY DEF TypeOK
<1>1. CASE Tick \/ (\E b \in Donations : Donate(b)) \/ UNCHANGED vars
  BY <1>1 DEF Tick, Donate, vars, feeVars, BooksStay
<1>2. ASSUME PokeOk(folio, supply, now, GetFeeDetails)
      PROVE  p.to_be_minted = folio.to_be_minted /\ p \in FolioRecord
  BY <1>0, <1>2, PokeType
<1>3. CASE UserNext
  <2>1. ASSUME NEW u, NEW b,
               \/ AddToPendingBasket(u, b) \/ RemoveFromPendingBasket(u, b)
               \/ RedeemFromPendingBasket(u, b) \/ CloseUserPendingTokenAmount(u)
        PROVE  BooksStay
    BY <2>1 DEF AddToPendingBasket, RemoveFromPendingBasket, BooksStay, feeVars,
                RedeemFromPendingBasket, CloseUserPendingTokenAmount
  <2>2. ASSUME NEW u, NEW s, MintFolioToken(u, s) PROVE BooksStay
    <3>1. /\ PokeOk(folio, supply, now, GetFeeDetails) /\ UNCHANGED feeVars
          /\ folio' = CalculateFeesForMinting(p, s, GetFeeDetails)
      BY <2>2 DEF MintFolioToken
    <3>2. p.to_be_minted = folio.to_be_minted /\ p \in FolioRecord
      BY <1>2, <3>1
    <3> HIDE DEF p
    <3>3. folio'.to_be_minted = p.to_be_minted
      BY <3>1, <3>2 DEF CalculateFeesForMinting, FolioRecord
    <3> QED BY <3>1, <3>2, <3>3 DEF BooksStay, feeVars
  <2>3. ASSUME NEW u, NEW s, BurnFolioToken(u, s) PROVE BooksStay
    BY <1>2, <2>3 DEF BurnFolioToken, BooksStay, feeVars
  <2> QED BY <1>3, <2>1, <2>2, <2>3, Zenon DEF UserNext
<1>4. CASE OwnerNext
  <2>1. ASSUME NEW a, NEW b, NEW s,
               AddToBasket(a, b, s) \/ KillFolio(a) \/ StartFolioMigration(a, s)
        PROVE  BooksStay
    BY <1>0, <2>1 DEF AddToBasket, KillFolio, StartFolioMigration, FolioRecord,
                      BooksStay, feeVars
  <2>2. ASSUME NEW a, NEW b, NEW r,
               RemoveFromBasket(a, b) \/ InitOrUpdateActor(a, b, r) \/ RemoveActor(a, b, r)
        PROVE  BooksStay
    BY <2>2 DEF RemoveFromBasket, InitOrUpdateActor, RemoveActor, BooksStay, feeVars
  <2> QED BY <1>4, <2>1, <2>2, Zenon DEF OwnerNext
<1>5. CASE CrankNext
  <2>1. ASSUME NEW S, MigrateFolioTokens(S) PROVE BooksStay
    BY <2>1 DEF MigrateFolioTokens, BooksStay, feeVars
  <2>2. PokeFolio => BooksStay
    BY <1>2 DEF PokeFolio, BooksStay, feeVars
  <2> QED BY <1>5, <2>1, <2>2, Zenon DEF CrankNext
<1>6. CASE AdminNext
  <2>1. ASSUME NEW fd, SetDaoFeeConfig(fd) PROVE BooksStay
    BY <2>1 DEF SetDaoFeeConfig, BooksStay
  <2> QED BY <1>6, <2>1, Zenon DEF AdminNext
<1> QED BY <1>1, <1>3, <1>4, <1>5, <1>6 DEF Next

LEMMA BookedStep ==
  ASSUME TypeOK, Booked, [Next]_vars
  PROVE  Booked'
<1> DEFINE p == Poke(folio, supply, now, GetFeeDetails)
<1>0. /\ folio \in FolioRecord /\ recips.index \in Nat
      /\ recips \in [init: BOOLEAN, index: 0..MaxDistributions, table: Tables(Keys)]
  BY FolioAssumption DEF TypeOK, FeeTypes
<1>1. ASSUME Total(PortionsOf(recips'.table), NRecipients) <= D18,
             CoveredBy(dists', folio'.to_be_minted)
      PROVE  Booked'
  BY <1>1 DEF Booked, TableWhole, CoveredBy, OpenPayments, OwedTo, PortionsOf
<1>2. CASE BooksStay
  BY <1>1, <1>2 DEF BooksStay, Booked, TableWhole
<1>3. ASSUME NEW c \in Actors \cup {Admin}, DistributeFeesOk(p),
             dists' = DistributedDists(p, c),
             folio'.to_be_minted = DistributedFolio(p).to_be_minted
      PROVE  CoveredBy(dists', folio'.to_be_minted)
  BY <1>3, DistributionCovered DEF Booked
<1>4. ASSUME NEW c \in Crankers, DistributeFees(c) PROVE Booked'
  <2>1. /\ DistributeFeesOk(p) /\ dists' = DistributedDists(p, c)
        /\ folio' = DistributedFolio(p) /\ recips'.table = recips.table
        /\ c \in Actors \cup {Admin}
    BY <1>0, <1>4 DEF DistributeFees, Crankers
  <2> HIDE DEF p
  <2> QED BY <1>1, <1>3, <2>1 DEF Booked, TableWhole
<1>5. ASSUME NEW fd, SetFolioFeeConfig(fd) PROVE Booked'
  <2>1. /\ DistributeFeesOk(p) /\ dists' = DistributedDists(p, Admin)
        /\ folio' = DistributedFolio(p) /\ recips'.table = recips.table
        /\ Admin \in Actors \cup {Admin}
    BY <1>0, <1>5 DEF SetFolioFeeConfig
  <2> HIDE DEF p
  <2> QED BY <1>1, <1>3, <2>1 DEF Booked, TableWhole
<1>6. ASSUME NEW a \in Actors, NEW x \in Updates, UpdateFolio(a, x) PROVE Booked'
  <2> DEFINE Settings(f) == \E tvl, mf, len :
               folio' = [f EXCEPT !.tvl_fee = tvl, !.mint_fee = mf, !.auction_length = len]
  <2>1. \/ recips'.table = recips.table
        \/ NewTableOk(x.add, x.remove) /\ recips'.table = NewTable(x.add, x.remove)
    BY <1>6 DEF UpdateFolio
  <2>2. x.add \in Tables(Keys)
    BY FolioAssumption
  <2>3. Total(PortionsOf(recips'.table), NRecipients) <= D18
    BY <2>1, <2>2, NewTableWhole DEF Booked, TableWhole
  <2>4. \/ Settings(folio) /\ dists' = dists
        \/ /\ DistributeFeesOk(p) /\ Settings(DistributedFolio(p))
           /\ dists' = DistributedDists(p, a)
    BY <1>6 DEF UpdateFolio
  <2>5. CASE Settings(folio) /\ dists' = dists
    <3>1. folio'.to_be_minted = folio.to_be_minted
      BY <1>0, <2>5 DEF FolioRecord
    <3> QED BY <1>1, <2>3, <2>5, <3>1 DEF Booked
  <2>6. CASE /\ DistributeFeesOk(p) /\ Settings(DistributedFolio(p))
             /\ dists' = DistributedDists(p, a)
    <3>1. DistributedFolio(p) \in FolioRecord
      BY <2>6, DistributionStep
    <3> HIDE DEF p
    <3>2. folio'.to_be_minted = DistributedFolio(p).to_be_minted
      BY <2>6, <3>1 DEF FolioRecord
    <3>3. CoveredBy(dists', folio'.to_be_minted)
      BY <1>3, <2>6, <3>2
    <3> QED BY <1>1, <2>3, <3>3
  <2> QED BY <2>4, <2>5, <2>6
<1>7. ASSUME NEW c, NEW i \in DOMAIN dists, NEW S \in SUBSET DOMAIN dists[i].unpaid,
             CrankFeeDistribution(c, i, S)
      PROVE  Booked'
  <2>1. CoveredBy(dists', folio'.to_be_minted)
    BY <1>7, CrankCovered DEF Booked
  <2>2. recips' = recips
    BY <1>7 DEF CrankFeeDistribution
  <2> QED BY <1>1, <2>1, <2>2 DEF Booked, TableWhole
<1> QED BY <1>2, <1>4, <1>5, <1>6, <1>7, BookSteps, Zenon

LEMMA InitBooked == Init => Booked
<1> SUFFICES ASSUME Init PROVE Booked
  OBVIOUS
<1>1. recips.table = NoTable /\ dists = [i \in {} |-> 0] /\ folio.to_be_minted = 0
  BY DEF Init
<1>2. \A r \in Recipients : Amount(recips.table, r) = 0
  BY <1>1 DEF NoTable, Amount
<1>3. TableWhole
  <2> DEFINE f == PortionsOf(recips.table)
  <2>1. f \in [1..NRecipients -> Nat] /\ \A i \in 1..NRecipients : f[i] = 0
    BY <1>2 DEF PortionsOf, Recipients
  <2>2. Total(f, NRecipients) = 0
    <3> HIDE DEF f
    <3> QED BY <2>1, FolioAssumption, TotalZero
  <2> QED BY <2>2, D18Pos DEF TableWhole
<1>4. CoveredBy(dists, folio.to_be_minted)
  <2> DEFINE f == OpenPayments(dists)
  <2>1. f \in [1..MaxDistributions -> Nat] /\ \A i \in 1..MaxDistributions : f[i] = 0
    BY <1>1 DEF OpenPayments, OwedTo
  <2>2. Total(f, MaxDistributions) = 0
    <3> HIDE DEF f
    <3> QED BY <2>1, FolioAssumption, TotalZero
  <2> QED BY <1>1, <2>2 DEF CoveredBy
<1> QED BY <1>3, <1>4 DEF Booked

\* Every open distribution can be paid to its last recipient, for any number of
\* distributions and recipients and any rounding: the reserve covers what all of
\* them still owe.
THEOREM DistributionsStayCovered == Spec => []DistributionsCovered
<1>1. TypeOK /\ Booked /\ [Next]_vars => Booked'
  BY BookedStep
<1>2. Booked => DistributionsCovered
  BY DEF Booked, CoveredBy, OpenPayments, OwedTo, DistributionsCovered
<1> QED BY <1>1, <1>2, InitBooked, TypeCorrect, PTL DEF Spec

=============================================================================
