----------------------------- MODULE Migration -----------------------------
(***************************************************************************)
(* The migration of a folio to a successor program, from both sides: the   *)
(* registrar of programs that folio-admin keeps, the folio of module Folio *)
(* and the folio that a successor creates and fills.  The successor is the *)
(* one that the repository gives as an example of future versions and runs *)
(* in test builds (create_folio_from_old_program,                          *)
(* update_basket_in_new_folio_program); what it does with its folio        *)
(* afterwards is not modelled.                                             *)
(***************************************************************************)
EXTENDS Folio

CONSTANTS
  NPrograms,            \* programs are 1..NPrograms, of which 1 is this one
  MaxAcceptedPrograms,
  RegistrarUpdates,     \* vectors of programs: how often each is named
  MaxLosses,            \* max_allowed_pending_fees of start_folio_migration
  SuccessorDonations    \* (mint, amount) vectors sent to the successor's accounts

Programs == 1..NPrograms
ThisProgram == 1
NoProgram == 0

ASSUME MigrationAssumption ==
  /\ NPrograms \in Nat \ {0} /\ MaxAcceptedPrograms \in Nat \ {0}
  /\ RegistrarUpdates \subseteq [Programs -> Nat]
  /\ \A b \in SuccessorDonations :
        DOMAIN b \subseteq Mints /\ \A m \in DOMAIN b : b[m] \in U64

VARIABLES
  registrar,    \* ProgramRegistrar: how many slots name each program
  successor,    \* Folio and FolioBasket of the successor program
  successorAta  \* balance of the successor folio's token account per mint

migrationVars == <<registrar, successor, successorAta>>
migVars == <<vars, migrationVars>>

-----------------------------------------------------------------------------
(* The registrar *)

InRegistrar(p) == p \in Programs /\ registrar.exists /\ registrar.slots[p] > 0

InitProgramRegistrar(p) ==
  /\ ~registrar.exists
  /\ registrar' = [exists |-> TRUE, slots |-> [q \in Programs |-> IF q = p THEN 1 ELSE 0]]
  /\ UNCHANGED <<vars, successor, successorAta>>

\* A program that is named, or was added before, takes one slot each time.
AddToRegistrar(ids) ==
  /\ registrar.exists
  /\ Total(registrar.slots, NPrograms) + Total(ids, NPrograms) <= MaxAcceptedPrograms
  /\ registrar' = [registrar EXCEPT !.slots = [p \in Programs |-> @[p] + ids[p]]]
  /\ UNCHANGED <<vars, successor, successorAta>>

\* All slots of the programs named are freed, as many as there are names.
RemoveFromRegistrar(ids) ==
  /\ registrar.exists
  /\ Total([p \in Programs |-> IF ids[p] > 0 THEN registrar.slots[p] ELSE 0], NPrograms)
       = Total(ids, NPrograms)
  /\ registrar' = [registrar EXCEPT !.slots =
       [p \in Programs |-> IF ids[p] > 0 THEN 0 ELSE @[p]]]
  /\ UNCHANGED <<vars, successor, successorAta>>

-----------------------------------------------------------------------------
(* The successor's folio *)

NoSuccessor ==
  [program |-> NoProgram, status |-> "None", tvl_fee |-> 0, mint_fee |-> 0,
   last_poke |-> 0, mints |-> {}, basket |-> [m \in Mints |-> 0]]

\* The stored rate per second goes through set_tvl_fee, which takes one per year.
\* Pending fees are given up.
CreatedSuccessor(p) ==
  [NoSuccessor EXCEPT !.program = p, !.status = "Migrating",
     !.tvl_fee = ToScaledFloor(PerSecondRate(folio.tvl_fee)),
     !.mint_fee = folio.mint_fee, !.last_poke = folio.last_poke]

StartMigration(a, maxAllowed, p) ==
  /\ StartFolioMigration(a, maxAllowed)
  /\ InRegistrar(p) /\ InRegistrar(ThisProgram) /\ p # ThisProgram
  /\ SetTvlFeeOk(folio.tvl_fee)
  /\ successor' = CreatedSuccessor(p)
  /\ UNCHANGED <<registrar, successorAta>>

\* Slip: whatever the successor's account holds is entered into its basket.
WholeSuccessorAccount(m) == successorAta[m] + MigratedAmount(m)

\* The amount that the old basket still shows is entered into the new one.
EnteredAmount(m) == MigratedAmount(m)

BasketWith(S) ==
  [m \in Mints |-> successor.basket[m] + IF m \in S THEN EnteredAmount(m) ELSE 0]

\* Slip: the balance has to be exactly what was sent.
ArrivedExactly(m) == successorAta[m] = 0

\* The balance after the transfer covers the amount.
Arrived(m) == successorAta[m] + MigratedAmount(m) >= EnteredAmount(m)

\* Slip: the first transfer opens the successor's folio.
OpenAtOnce(left) == "Initialized"

\* The successor's folio opens with the last token of the old basket.
StatusWith(left) == IF left # {} THEN "Migrating" ELSE "Initialized"

Migrate(S) ==
  /\ InRegistrar(successor.program) /\ InRegistrar(ThisProgram)
  /\ MigrateFolioTokens(S)
  /\ \A m \in S : Arrived(m) /\ BasketWith(S)[m] <= MaxU64
  /\ Cardinality(successor.mints \cup S) <= MaxBasketTokens
  /\ successorAta' = [m \in Mints |->
       successorAta[m] + IF m \in S THEN MigratedAmount(m) ELSE 0]
  /\ successor' = [successor EXCEPT
       !.mints = @ \cup S,
       !.basket = BasketWith(S),
       !.status = StatusWith(basketMints \ S)]
  /\ UNCHANGED registrar

\* Anyone may send tokens to the successor's accounts, also before the migration.
DonateToSuccessor(b) ==
  /\ \A m \in DOMAIN b : successorAta[m] + b[m] <= MaxU64
  /\ successorAta' = [m \in Mints |-> successorAta[m] + Amount(b, m)]
  /\ UNCHANGED <<vars, registrar, successor>>

-----------------------------------------------------------------------------
(* The specification.  A cfg leaves MaxAllowedPending empty: here a migration *)
(* starts with StartMigration only.                                           *)

MigInit ==
  /\ Init
  /\ registrar = [exists |-> FALSE, slots |-> [p \in Programs |-> 0]]
  /\ successor = NoSuccessor
  /\ successorAta = [m \in Mints |-> 0]

FolioStep ==
  \/ Tick
  \/ \E b \in Donations : Donate(b)
  \/ UserNext \/ OwnerNext \/ AdminNext
  \/ PokeFolio
  \/ \E c \in Crankers : DistributeFees(c)

RegistrarStep ==
  \/ \E p \in Programs : InitProgramRegistrar(p)
  \/ \E ids \in RegistrarUpdates : AddToRegistrar(ids) \/ RemoveFromRegistrar(ids)

MigNext ==
  \/ FolioStep /\ UNCHANGED migrationVars
  \/ RegistrarStep
  \/ \E a \in Actors, x \in MaxLosses, p \in Programs : StartMigration(a, x, p)
  \/ \E S \in SUBSET Mints : Migrate(S)
  \/ \E b \in SuccessorDonations : DonateToSuccessor(b)

MigSpec == MigInit /\ [][MigNext]_migVars

\* Anyone may call migrate_folio_tokens, and someone does for every token.
MigLiveSpec == MigSpec /\ \A m \in Mints : WF_migVars(Migrate({m}))

-----------------------------------------------------------------------------
(* Properties *)

\* Holders lose nothing on the way: while the folio migrates, the old basket and the
\* new one together hold of every token what the old one held, whoever calls
\* migrate_folio_tokens with which tokens, and the new account covers the new basket.
BackingConserved ==
  [][folio.status = "Migrating" =>
       \A m \in Mints :
         /\ basket'[m] + successor'.basket[m] = basket[m] + successor.basket[m]
         /\ successorAta'[m] >= successor'.basket[m]]_migVars

\* Nobody redeems from half of a basket: the successor's folio opens only when no
\* token is left to move, and then no token is ever added to the old basket.
OpensComplete ==
  successor.status = "Initialized" => folio.status = "Migrating" /\ basketMints = {}

\* A migration that has something to move ends, unless the admin takes one of the
\* two programs off the registrar.
MigrationEnds ==
  (folio.status = "Migrating" /\ basketMints # {}) ~>
    \/ successor.status = "Initialized"
    \/ ~InRegistrar(successor.program) \/ ~InRegistrar(ThisProgram)

=============================================================================
