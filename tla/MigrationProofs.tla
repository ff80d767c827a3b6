-------------------------- MODULE MigrationProofs --------------------------
(***************************************************************************)
(* Theorems about module Migration for every number of mints, users and    *)
(* programs, and every batch of tokens a call names: a migration moves the *)
(* backing whole, the successor opens only when nothing is left to move,   *)
(* and the old folio's custody of users' claims survives it.               *)
(***************************************************************************)
EXTENDS Migration, CustodyProofs

-----------------------------------------------------------------------------
(* The folio of the old program *)

\* A migrating folio's basket stands still: every instruction that changes a basket
\* asks for another status, except migrate_folio_tokens.
LEMMA FrozenBasket ==
  ASSUME FolioStep, folio.status = "Migrating"
  PROVE  basket' = basket /\ basketMints' = basketMints
<1> DEFINE Frozen == basket' = basket /\ basketMints' = basketMints
<1> SUFFICES Frozen
  OBVIOUS
<1>1. CASE UserNext
  <2>1. ASSUME NEW u, NEW b,
               \/ AddToPendingBasket(u, b) \/ RemoveFromPendingBasket(u, b)
               \/ RedeemFromPendingBasket(u, b) \/ CloseUserPendingTokenAmount(u)
        PROVE  Frozen
    BY <2>1 DEF AddToPendingBasket, RemoveFromPendingBasket, RedeemFromPendingBasket,
                CloseUserPendingTokenAmount, assetVars
  <2>2. \A u, s : ~MintFolioToken(u, s) /\ ~BurnFolioToken(u, s)
    BY DEF MintFolioToken, BurnFolioToken, InStatus
  <2> HIDE DEF Frozen
  <2> QED BY <1>1, <2>1, <2>2, Zenon DEF UserNext
<1>2. CASE OwnerNext
  <2>1. \A a, b, s : ~AddToBasket(a, b, s) /\ ~RemoveFromBasket(a, b)
    BY DEF AddToBasket, RemoveFromBasket, InStatus
  <2>2. StaysPut => Frozen
    BY DEF StaysPut
  <2> HIDE DEF Frozen
  <2> QED BY <1>2, <2>1, <2>2, OtherSteps, Zenon DEF OwnerNext
<1>3. CASE AdminNext \/ Tick \/ PokeFolio \/ \E c \in Crankers : DistributeFees(c)
  <2>1. StaysPut => Frozen
    BY DEF StaysPut
  <2> HIDE DEF Frozen
  <2> QED BY <1>3, <2>1, OtherSteps, Zenon DEF AdminNext
<1>4. CASE \E b \in Donations : Donate(b)
  BY <1>4 DEF Donate
<1> QED BY <1>1, <1>2, <1>3, <1>4 DEF FolioStep

\* A step of the folio is one of module Folio or a poke, which needs no permission.
LEMMA FolioStepIsNext ==
  ASSUME FolioStep
  PROVE  Next \/ PokeFolio
BY Zenon DEF FolioStep, Next, CrankNext

\* What the composed steps do to the folio: a step of module Folio, a poke, the start
\* of a migration with any limit on the fees left, or nothing.
LEMMA FolioPart ==
  ASSUME [MigNext]_migVars
  PROVE  [Next]_vars \/ PokeFolio \/ \E a \in Actors : \E x : StartFolioMigration(a, x)
<1>1. CASE FolioStep
  BY <1>1, FolioStepIsNext
<1>2. CASE RegistrarStep
  BY <1>2 DEF RegistrarStep, InitProgramRegistrar, AddToRegistrar, RemoveFromRegistrar
<1>3. CASE \E a \in Actors, x \in MaxLosses, p \in Programs : StartMigration(a, x, p)
  BY <1>3, Zenon DEF StartMigration
<1>4. CASE \E S \in SUBSET Mints : Migrate(S)
  BY <1>4, Zenon DEF Migrate, Next, CrankNext
<1>5. CASE (\E b \in SuccessorDonations : DonateToSuccessor(b)) \/ UNCHANGED migVars
  BY <1>5 DEF DonateToSuccessor, migVars
<1> QED BY <1>1, <1>2, <1>3, <1>4, <1>5, Zenon DEF MigNext

\* The folio keeps its types.
LEMMA FolioPartTypes ==
  ASSUME TypeOK, [MigNext]_migVars
  PROVE  TypeOK'
BY FolioPart, TypeStep, PokeFolioType, StartFolioMigrationType

\* So does the basket its kind of mints, and no step lowers the surplus of one.
LEMMA FolioPartStep ==
  ASSUME TypeOK, BasketSupported, [MigNext]_migVars
  PROVE  /\ TypeOK' /\ BasketSupported'
         /\ \A m \in SupportedMints : Surplus(m)' >= Surplus(m)
<1>0. TypeOK'
  BY FolioPartTypes
<1>1. CASE [Next]_vars
  BY <1>0, <1>1, SurplusStep, SupportedStep
<1>2. CASE PokeFolio \/ \E a \in Actors : \E x : StartFolioMigration(a, x)
  <2>1. StaysPut
    BY <1>2, OtherSteps, Zenon
  <2>2. ASSUME NEW m \in SupportedMints PROVE Surplus(m)' >= Surplus(m)
    <3>1. m \in Mints
      BY DEF SupportedMints
    <3>2. ata'[m] - basket'[m] >= ata[m] - basket[m]
      BY <2>1, <3>1, SurplusInt DEF StaysPut
    <3> QED BY <1>0, <2>1, <3>1, <3>2, NoUserStep DEF StaysPut
  <2>3. BasketSupported'
    BY <2>1 DEF StaysPut, BasketSupported, SupportedMints
  <2> QED BY <1>0, <2>2, <2>3
<1> QED BY <1>1, <1>2, FolioPart

LEMMA MigInitIsInit == MigInit => Init
BY DEF MigInit

\* The accounts of a folio keep their types through a migration, and the basket its kind.
LEMMA MigTypes == MigSpec => [](TypeOK /\ BasketSupported)
<1>1. MigInit => TypeOK /\ BasketSupported
  BY MigInitIsInit, InitType DEF Init, BasketSupported
<1>2. TypeOK /\ BasketSupported /\ [MigNext]_migVars => TypeOK' /\ BasketSupported'
  BY FolioPartStep
<1> QED BY <1>1, <1>2, PTL DEF MigSpec

\* Custody, composed with the registrar and the successor: a migration in any number of
\* calls, each with any choice of tokens, leaves every user's claim on the old folio
\* covered, of every mint without a transfer fee.
THEOREM CustodyThroughMigration == MigSpec => []Custody
<1>1. MigInit => Custody
  BY MigInitIsInit, InitCustody
<1>2. TypeOK /\ BasketSupported /\ Custody /\ [MigNext]_migVars => Custody'
  BY FolioPartStep, CustodyStays
<1> QED BY <1>1, <1>2, MigTypes, PTL DEF MigSpec

-----------------------------------------------------------------------------
(* The folio of the successor *)

SuccessorTypes ==
  /\ successor \in [program: 0..NPrograms,
                    status: {"None", "Migrating", "Initialized"},
                    tvl_fee: U128, mint_fee: U128, last_poke: Nat,
                    mints: SUBSET Mints, basket: [Mints -> Nat]]
  /\ successorAta \in [Mints -> Nat]

\* The successor's accounts hold at least what its basket records: what others send
\* to them comes on top of what the migration brings.
ArrivalsCover == \A m \in Mints : successorAta[m] >= successor.basket[m]

\* The inductive invariant of the migration.
MigrationInv == TypeOK /\ SuccessorTypes /\ ArrivalsCover /\ OpensComplete

\* The successor exists as an empty record before it is created.
LEMMA NoSuccessorType ==
  NoSuccessor \in [program: 0..NPrograms, status: {"None", "Migrating", "Initialized"},
                   tvl_fee: U128, mint_fee: U128, last_poke: Nat,
                   mints: SUBSET Mints, basket: [Mints -> Nat]]
<1>1. 0 \in 0..NPrograms /\ 0 \in U128 /\ 0 \in Nat
  BY MigrationAssumption, DecimalAssumption DEF U128
<1> QED BY <1>1 DEF NoSuccessor, NoProgram

\* Nothing is migrated, and nothing has been opened, at the start.
LEMMA InitMigration == MigInit => MigrationInv
<1> SUFFICES ASSUME MigInit PROVE MigrationInv
  OBVIOUS
<1>1. TypeOK
  BY MigInitIsInit, InitType
<1>2. SuccessorTypes
  BY NoSuccessorType DEF MigInit, SuccessorTypes
<1>3. ArrivalsCover /\ OpensComplete
  BY DEF MigInit, NoSuccessor, ArrivalsCover, OpensComplete
<1> QED BY <1>1, <1>2, <1>3 DEF MigrationInv

\* Steps of the old folio while it migrates, and of the registrar, leave the
\* successor as it is.
LEMMA FolioStepMigration ==
  ASSUME MigrationInv, FolioStep \/ UNCHANGED vars,
         UNCHANGED <<successor, successorAta>>, TypeOK'
  PROVE  MigrationInv'
<1>1. SuccessorTypes' /\ ArrivalsCover'
  BY DEF MigrationInv, SuccessorTypes, ArrivalsCover
<1>2. OpensComplete'
  <2> SUFFICES ASSUME successor.status = "Initialized"
               PROVE  folio'.status = "Migrating" /\ basketMints' = {}
    BY DEF OpensComplete
  <2>1. folio.status = "Migrating" /\ basketMints = {}
    BY DEF MigrationInv, OpensComplete
  <2>2. CASE FolioStep
    <3>1. basketMints' = {}
      BY <2>1, <2>2, FrozenBasket
    <3>2. folio'.status = "Migrating"
      <4>1. TypeOK
        BY DEF MigrationInv
      <4>2. CASE Next
        BY <2>1, <4>1, <4>2, StatusStep
      <4>3. CASE PokeFolio
        BY <2>1, <4>3 DEF PokeFolio, InStatus
      <4> QED BY <2>2, <4>2, <4>3, FolioStepIsNext
    <3> QED BY <3>1, <3>2
  <2>3. CASE UNCHANGED vars
    BY <2>1, <2>3 DEF vars, assetVars
  <2> QED BY <2>2, <2>3
<1> QED BY <1>1, <1>2 DEF MigrationInv

\* A migration starts with an empty successor that is not open.
LEMMA StartMigrationStep ==
  ASSUME MigrationInv, NEW a, NEW x, NEW p \in Programs, StartMigration(a, x, p), TypeOK'
  PROVE  MigrationInv'
<1> DEFINE rate == ToScaledFloor(PerSecondRate(folio.tvl_fee))
<1>1. /\ successor' = [NoSuccessor EXCEPT !.program = p, !.status = "Migrating",
                         !.tvl_fee = rate, !.mint_fee = folio.mint_fee,
                         !.last_poke = folio.last_poke]
      /\ successorAta' = successorAta
  BY DEF StartMigration, CreatedSuccessor
<1>2. folio.tvl_fee \in Nat /\ folio.mint_fee \in U128 /\ folio.last_poke \in Nat
  BY DecimalAssumption DEF MigrationInv, TypeOK, FolioRecord, U128
<1>3. rate \in U128
  BY <1>2, RateNat, Conversions
<1> HIDE DEF rate
<1>4. p \in 0..NPrograms
  BY MigrationAssumption DEF Programs
<1>5. SuccessorTypes'
  BY <1>1, <1>2, <1>3, <1>4, NoSuccessorType DEF MigrationInv, SuccessorTypes
<1>6. successor'.status = "Migrating" /\ successor'.basket = [m \in Mints |-> 0]
  BY <1>1 DEF NoSuccessor
<1>7. ArrivalsCover' /\ OpensComplete'
  BY <1>1, <1>6 DEF MigrationInv, SuccessorTypes, ArrivalsCover, OpensComplete
<1> QED BY <1>5, <1>7 DEF MigrationInv

\* A call of migrate_folio_tokens enters what it moves.
LEMMA MigrateStep ==
  ASSUME MigrationInv, NEW S \in SUBSET Mints, Migrate(S), TypeOK'
  PROVE  /\ MigrationInv'
         /\ \A m \in Mints :
              basket'[m] + successor'.basket[m] = basket[m] + successor.basket[m]
<1>0. /\ basket \in [Mints -> Nat] /\ basketMints \subseteq Mints
      /\ successor.basket \in [Mints -> Nat] /\ successorAta \in [Mints -> Nat]
      /\ folio.status = "Migrating" /\ folio' = folio
  BY DecimalAssumption DEF MigrationInv, TypeOK, AssetTypes, SuccessorTypes, U64, Migrate,
                           MigrateFolioTokens, InStatus
<1>1. /\ basket' = [m \in Mints |-> IF m \in S THEN 0 ELSE basket[m]]
      /\ basketMints' = basketMints \ S
      /\ successorAta' = [m \in Mints |->
           successorAta[m] + IF m \in S THEN basket[m] ELSE 0]
      /\ successor' = [successor EXCEPT !.mints = @ \cup S, !.basket = BasketWith(S),
                                        !.status = StatusWith(basketMints \ S)]
  BY DEF Migrate, MigrateFolioTokens, MigratedAmount
<1>2. BasketWith(S) = [m \in Mints |->
        successor.basket[m] + IF m \in S THEN basket[m] ELSE 0]
  BY DEF BasketWith, EnteredAmount, MigratedAmount
<1>3. /\ successor'.basket = BasketWith(S)
      /\ successor'.status = StatusWith(basketMints \ S)
  BY <1>1 DEF MigrationInv, SuccessorTypes
<1>4. BasketWith(S) \in [Mints -> Nat] /\ successorAta' \in [Mints -> Nat]
  BY <1>0, <1>1, <1>2
<1>5. SuccessorTypes'
  BY <1>1, <1>4 DEF MigrationInv, SuccessorTypes, StatusWith
<1>6. ASSUME NEW m \in Mints
      PROVE  /\ successorAta'[m] >= successor'.basket[m]
             /\ basket'[m] + successor'.basket[m] = basket[m] + successor.basket[m]
  <2>1. successorAta[m] >= successor.basket[m]
    BY DEF MigrationInv, ArrivalsCover
  <2> QED BY <1>0, <1>1, <1>2, <1>3, <2>1
<1>7. OpensComplete'
  BY <1>0, <1>1, <1>3 DEF OpensComplete, StatusWith
<1> QED BY <1>5, <1>6, <1>7 DEF MigrationInv, ArrivalsCover

\* What others send to the successor is on top.
LEMMA DonationStep ==
  ASSUME MigrationInv, NEW b \in SuccessorDonations, DonateToSuccessor(b), TypeOK'
  PROVE  MigrationInv'
<1>1. /\ successorAta' = [m \in Mints |-> successorAta[m] + Amount(b, m)]
      /\ UNCHANGED <<vars, successor>>
  BY DEF DonateToSuccessor
<1>2. \A m \in Mints : Amount(b, m) \in Nat
  BY MigrationAssumption, DecimalAssumption DEF Amount, U64
<1>3. SuccessorTypes' /\ ArrivalsCover'
  BY <1>1, <1>2 DEF MigrationInv, SuccessorTypes, ArrivalsCover
<1>4. OpensComplete'
  BY <1>1 DEF MigrationInv, OpensComplete, vars, assetVars
<1> QED BY <1>3, <1>4 DEF MigrationInv

\* The invariant is inductive, and while the folio migrates every step conserves the
\* two baskets together.
LEMMA MigrationStep ==
  ASSUME MigrationInv, [MigNext]_migVars
  PROVE  /\ MigrationInv'
         /\ folio.status = "Migrating" =>
              \A m \in Mints :
                basket'[m] + successor'.basket[m] = basket[m] + successor.basket[m]
<1> DEFINE Conserved == folio.status = "Migrating" =>
             \A m \in Mints :
               basket'[m] + successor'.basket[m] = basket[m] + successor.basket[m]
<1> SUFFICES MigrationInv' /\ Conserved
  OBVIOUS
<1>0. TypeOK /\ TypeOK'
  BY FolioPartTypes DEF MigrationInv
<1>1. CASE FolioStep /\ UNCHANGED migrationVars
  <2>1. MigrationInv'
    BY <1>0, <1>1, FolioStepMigration DEF migrationVars
  <2> QED BY <1>1, <2>1, FrozenBasket DEF migrationVars
<1>2. CASE RegistrarStep \/ UNCHANGED migVars
  <2>1. UNCHANGED <<vars, successor, successorAta>>
    BY <1>2 DEF RegistrarStep, InitProgramRegistrar, AddToRegistrar, RemoveFromRegistrar,
                migVars, migrationVars
  <2>2. MigrationInv'
    BY <1>0, <2>1, FolioStepMigration
  <2> QED BY <2>1, <2>2 DEF vars, assetVars
<1>3. ASSUME NEW a \in Actors, NEW x \in MaxLosses, NEW p \in Programs,
             StartMigration(a, x, p)
      PROVE  MigrationInv' /\ Conserved
  <2>1. folio.status # "Migrating"
    BY <1>3 DEF StartMigration, StartFolioMigration, InStatus
  <2> QED BY <1>0, <1>3, <2>1, StartMigrationStep
<1>4. ASSUME NEW S \in SUBSET Mints, Migrate(S)
      PROVE  MigrationInv' /\ Conserved
  BY <1>0, <1>4, MigrateStep
<1>5. ASSUME NEW b \in SuccessorDonations, DonateToSuccessor(b)
      PROVE  MigrationInv' /\ Conserved
  <2>1. MigrationInv'
    BY <1>0, <1>5, DonationStep
  <2>2. basket' = basket /\ successor' = successor
    BY <1>5 DEF DonateToSuccessor, vars, assetVars
  <2> QED BY <2>1, <2>2
<1> HIDE DEF Conserved
<1> QED BY <1>1, <1>2, <1>3, <1>4, <1>5, Zenon DEF MigNext

LEMMA MigrationInvHolds == MigSpec => []MigrationInv
<1>1. MigrationInv /\ [MigNext]_migVars => MigrationInv'
  BY MigrationStep
<1> QED BY <1>1, InitMigration, PTL DEF MigSpec

\* Nobody redeems from half of a basket: for any number of tokens, moved in any number
\* of calls by anyone, the successor's folio is open only when the old basket is empty
\* and the old folio can never be opened again.
THEOREM OpensWhenComplete == MigSpec => []OpensComplete
<1>1. MigrationInv => OpensComplete
  BY DEF MigrationInv
<1> QED BY <1>1, MigrationInvHolds, PTL

\* Holders lose nothing on the way: from the start of a migration on, the two baskets
\* together hold of every token what the old one held, and the successor's accounts
\* cover its basket, whatever is sent to them beforehand.
THEOREM MigrationConserves == MigSpec => BackingConserved
<1> DEFINE Kept == folio.status = "Migrating" =>
             \A m \in Mints :
               /\ basket'[m] + successor'.basket[m] = basket[m] + successor.basket[m]
               /\ successorAta'[m] >= successor'.basket[m]
<1>1. MigrationInv /\ MigrationInv' /\ [MigNext]_migVars => [Kept]_migVars
  BY MigrationStep DEF MigrationInv, ArrivalsCover
<1> QED BY <1>1, MigrationInvHolds, PTL DEF MigSpec, BackingConserved

=============================================================================
