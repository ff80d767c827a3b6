-------------------------- MODULE GovernanceProofs --------------------------
(***************************************************************************)
(* Invariants of Governance for every number of owners and proposals, and  *)
(* whatever the configurations, votes and instructions are.  The types     *)
(* come first; each of the other invariants is then proved from them, with *)
(* one lemma for each handler that can disturb it.  Together they give the *)
(* refinement at the end: every instruction is a step of Referendum for    *)
(* one proposal, with one lemma for each instruction, or changes nothing   *)
(* of any.                                                                 *)
(***************************************************************************)
EXTENDS Governance, RealmProofs, FiniteSetTheorems

-----------------------------------------------------------------------------
(* Types *)

VoteResults == {"None", "Succeeded", "Defeated"}

\* That weights and counts are never negative is a consequence of TallyAgrees and
\* ExecutionComplete and not a type.
ProposalOption ==
  [vote_weight : Int, vote_result : VoteResults, transactions_count : Int,
   transactions_next_index : Int, transactions_executed_count : Int]

OptionLists == UNION {[1..n -> ProposalOption] : n \in 1..MaxOptions}

ProposalRecord ==
  [state : ProposalStates, mint : GoverningMints, owner : Records,
   vote_type : VoteTypes, use_deny : BOOLEAN, options : OptionLists,
   deny_vote_weight : Int, veto_vote_weight : Int,
   signatories_count : Nat, signed_off_count : Nat,
   voting_at : Nat, voting_completed_at : Nat,
   max_vote_weight : Nat, vote_threshold : Thresholds, tipping : Tippings, deposit : Nat]

VoteRecord ==
  [exists : {TRUE}, vote : Votes, weight : Nat, is_relinquished : BOOLEAN]

TransactionRecord ==
  [exists : {TRUE}, instruction : Instructions, executed : BOOLEAN]

GovernanceRecord ==
  [config : GovernanceConfigArgs \cup {None}, required_signatories_count : Int,
   active_proposal_count : Nat]

GovTypes ==
  /\ gov \in GovernanceRecord
  /\ GovernanceExists =>
       gov.config \in GovernanceConfigArgs /\ ValidGovernanceConfig(gov.config)
  /\ required \subseteq Signatories

ProposalTypes ==
  /\ proposals \in [Proposals -> {NoProposal} \cup ProposalRecord]
  /\ \A p \in Proposals : Exists(p) => GovernanceExists
  /\ signatories \in [Proposals -> [Signatories -> {"none", "added", "signed"}]]

\* The vote of a record was valid for its proposal, and of the right population.
VoteFits(p, k) ==
  LET vote == votes[p][k].vote IN
  /\ vote.kind = "approve" => DOMAIN vote.choices = DOMAIN proposals[p].options
  /\ proposals[p].mint = MintForVote(k[1], VoteKind(vote))

VoteRecordTypes ==
  /\ votes \in [Proposals -> [Records -> {NoVote} \cup VoteRecord]]
  /\ \A p \in Proposals : ~Exists(p) => \A k \in Records : votes[p][k] = NoVote
  /\ \A p \in Proposals, k \in Records : votes[p][k].exists => VoteFits(p, k)

VotersExist ==
  \A p \in Proposals, k \in Records : votes[p][k].exists => tor[k].exists

TransactionTypes ==
  /\ DOMAIN txs = Proposals
  /\ \A p \in Proposals :
       Exists(p) => txs[p] \in [Slots(p) -> {NoTransaction} \cup TransactionRecord]

TypeInv ==
  /\ RealmTypes /\ GovTypes /\ ProposalTypes
  /\ VoteRecordTypes /\ VotersExist /\ TransactionTypes

LEMMA InitTypes == Init => TypeInv
<1> SUFFICES ASSUME Init PROVE TypeInv
  OBVIOUS
<1>1. RealmTypes
  BY InitRealmTypes DEF Init
<1>2. govs = {}
  BY DEF Init, RealmInit, CreateRealm
<1>3. GovTypes
  BY <1>2 DEF Init, GovTypes, GovernanceRecord, GovernanceExists
<1>4. proposals = [p \in Proposals |-> NoProposal] /\ \A p \in Proposals : ~Exists(p)
  BY DEF Init, Exists, NoProposal
<1>5. ProposalTypes
  BY <1>4 DEF Init, ProposalTypes
<1>6. VoteRecordTypes
  BY <1>4 DEF Init, VoteRecordTypes, NoVote
<1>8. VotersExist
  BY DEF Init, VotersExist, NoVote
<1>7. TransactionTypes
  BY <1>4 DEF Init, TransactionTypes
<1> QED BY <1>1, <1>3, <1>5, <1>6, <1>7, <1>8 DEF TypeInv

\* A proposal that exists has a record, its options and a typed governance.
LEMMA ProposalOf ==
  ASSUME TypeInv, NEW p \in Proposals, Exists(p)
  PROVE  /\ proposals[p] \in ProposalRecord
         /\ proposals[p].options \in OptionLists
         /\ GovernanceExists
         /\ gov.config \in GovernanceConfigArgs /\ ValidGovernanceConfig(gov.config)
<1>1. proposals[p] \in ProposalRecord /\ GovernanceExists
  BY DEF TypeInv, ProposalTypes, Exists, NoProposal
<1> QED BY <1>1 DEF TypeInv, GovTypes, ProposalRecord

\* A list of options is a function from 1..n, for some n up to ten.
LEMMA OptionListOf ==
  ASSUME NEW opts \in OptionLists
  PROVE  /\ \E n \in 1..MaxOptions : opts \in [1..n -> ProposalOption] /\ DOMAIN opts = 1..n
         /\ \A i \in DOMAIN opts : opts[i] \in ProposalOption
         /\ opts \in [DOMAIN opts -> ProposalOption]
<1>1. PICK n \in 1..MaxOptions : opts \in [1..n -> ProposalOption]
  BY DEF OptionLists
<1> QED BY <1>1

LEMMA OptionListWith ==
  ASSUME NEW opts \in OptionLists, NEW new \in [DOMAIN opts -> ProposalOption]
  PROVE  new \in OptionLists
<1>1. PICK n \in 1..MaxOptions : DOMAIN opts = 1..n
  BY OptionListOf
<1>2. new \in [1..n -> ProposalOption]
  BY <1>1
<1> QED BY <1>2 DEF OptionLists

\* One proposal changes and has the same options as before.
LEMMA ProposalUpdate ==
  ASSUME TypeInv, NEW p \in Proposals, Exists(p), NEW q \in ProposalRecord,
         DOMAIN q.options = DOMAIN proposals[p].options, q.mint = proposals[p].mint,
         proposals' = [proposals EXCEPT ![p] = q],
         UNCHANGED govs
  PROVE  /\ proposals'[p] = q
         /\ \A r \in Proposals : r # p => proposals'[r] = proposals[r]
         /\ \A r \in Proposals : (Exists(r)' <=> Exists(r))
         /\ \A r \in Proposals : Exists(r) => Slots(r)' = Slots(r)
         /\ signatories' = signatories => ProposalTypes'
         /\ votes' = votes => VoteRecordTypes'
         /\ txs' = txs => TransactionTypes'
<1>1. /\ proposals \in [Proposals -> {NoProposal} \cup ProposalRecord]
      /\ \A r \in Proposals : Exists(r) => GovernanceExists
  BY DEF TypeInv, ProposalTypes
<1>2. proposals'[p] = q /\ \A r \in Proposals : r # p => proposals'[r] = proposals[r]
  BY <1>1
<1>3. q.state # "None"
  BY DEF ProposalRecord, ProposalStates
<1>4. \A r \in Proposals : (Exists(r)' <=> Exists(r))
  BY <1>2, <1>3 DEF Exists
<1>5. \A r \in Proposals : Slots(r)' = Slots(r)
  BY <1>2 DEF Slots
<1>6. signatories' = signatories => ProposalTypes'
  BY <1>1, <1>4 DEF TypeInv, ProposalTypes, GovernanceExists
<1>7. votes' = votes => VoteRecordTypes'
  <2>1. \A r \in Proposals : /\ DOMAIN proposals'[r].options = DOMAIN proposals[r].options
                             /\ proposals'[r].mint = proposals[r].mint
    BY <1>2
  <2> QED BY <1>4, <2>1 DEF TypeInv, VoteRecordTypes, VoteFits
<1>8. txs' = txs => TransactionTypes'
  BY <1>4, <1>5 DEF TypeInv, TransactionTypes
<1> QED BY <1>2, <1>4, <1>5, <1>6, <1>7, <1>8

\* The realm does not touch what belongs to its governance.
LEMMA GovernanceKept ==
  ASSUME TypeInv, RealmTypes', CountersKept, govs' = govs, UNCHANGED govVars
  PROVE  TypeInv'
<1>1. GovTypes' /\ ProposalTypes' /\ VoteRecordTypes' /\ TransactionTypes'
  BY DEF TypeInv, govVars, GovTypes, GovernanceExists, ProposalTypes, Exists,
         VoteRecordTypes, VoteFits, TransactionTypes, Slots
<1>2. VotersExist'
  BY DEF TypeInv, govVars, VotersExist, CountersKept
<1> QED BY <1>1, <1>2 DEF TypeInv

\* A step of one record that only counts.
LEMMA CountStep ==
  ASSUME RealmTypes, NEW t \in [Records -> OwnerRecord], tor' = t,
         \A k \in Records : t[k].exists = tor[k].exists,
         \A k \in Records : ~tor[k].exists => t[k] = tor[k],
         UNCHANGED <<now, realm, tokens, holding, wallet, govs>>
  PROVE  RealmTypes'
BY DEF RealmTypes, RecordTypes, ConfigTypes, BalanceTypes

-----------------------------------------------------------------------------
(* Types: what a step of the realm and the handlers of a governance write *)

\* What is common to the handlers that leave the realm, the governance and its
\* signatories alone and change one proposal.
LEMMA OneProposalTypes ==
  ASSUME TypeInv, NEW p \in Proposals, Exists(p), NEW q \in ProposalRecord,
         DOMAIN q.options = DOMAIN proposals[p].options, q.mint = proposals[p].mint,
         proposals' = [proposals EXCEPT ![p] = q],
         UNCHANGED <<realmVars, gov, required, signatories>>,
         votes' = votes, txs' = txs \/ TransactionTypes'
  PROVE  TypeInv'
<1>1. ProposalTypes' /\ VoteRecordTypes' /\ TransactionTypes'
  BY ProposalUpdate DEF realmVars
<1>2. RealmTypes'
  BY DEF TypeInv, realmVars, RealmTypes, ConfigTypes, RecordTypes, BalanceTypes
<1>3. GovTypes'
  BY DEF TypeInv, realmVars, GovTypes, GovernanceExists
<1>4. VotersExist'
  BY DEF TypeInv, realmVars, VotersExist
<1> QED BY <1>1, <1>2, <1>3, <1>4 DEF TypeInv

LEMMA CreateGovernanceTypes ==
  ASSUME TypeInv, NEW s, NEW k \in Records, NEW config \in GovernanceConfigs,
         CreateGovernance(s, k, config)
  PROVE  TypeInv'
<1>1. config \in GovernanceConfigArgs /\ ValidGovernanceConfig(config)
  BY GovernanceAssumption DEF CreateGovernance
<1>2. /\ ~GovernanceExists /\ govs' = govs \cup {GovernanceAccount}
      /\ UNCHANGED <<now, realm, tokens, tor, holding, wallet>>
      /\ UNCHANGED <<required, proposals, signatories, votes, txs>>
      /\ gov' = [config |-> config, required_signatories_count |-> 0,
                 active_proposal_count |-> 0]
  BY DEF CreateGovernance, AddGovernance, GovernanceExists
<1>3. RealmTypes'
  BY <1>2 DEF TypeInv, RealmTypes, ConfigTypes, RecordTypes, BalanceTypes
<1>4. GovTypes'
  BY <1>1, <1>2 DEF TypeInv, GovTypes, GovernanceRecord
<1>5. ProposalTypes' /\ VoteRecordTypes' /\ VotersExist' /\ TransactionTypes'
  BY <1>2 DEF TypeInv, ProposalTypes, VoteRecordTypes, VoteFits, TransactionTypes,
                 VotersExist, Exists, Slots
<1> QED BY <1>3, <1>4, <1>5 DEF TypeInv

LEMMA AddSignatoryTypes ==
  ASSUME TypeInv, NEW p \in Proposals, NEW s, NEW x \in Signatories, AddSignatory(p, s, x)
  PROVE  TypeInv'
<1> DEFINE q == [proposals[p] EXCEPT !.signatories_count = @ + 1]
<1>1. Exists(p)
  BY DEF AddSignatory, Exists
<1>2. q \in ProposalRecord /\ q.options = proposals[p].options /\ q.mint = proposals[p].mint
  BY <1>1, ProposalOf DEF ProposalRecord
<1>3. /\ proposals' = [proposals EXCEPT ![p] = q]
      /\ signatories' = [signatories EXCEPT ![p][x] = "added"]
      /\ UNCHANGED <<realmVars, gov, required, votes, txs>>
  BY DEF AddSignatory
<1> HIDE DEF q
<1>4. VoteRecordTypes' /\ TransactionTypes'
  BY <1>1, <1>2, <1>3, ProposalUpdate DEF realmVars
<1>5. ProposalTypes'
  <2>1. signatories' \in [Proposals -> [Signatories -> {"none", "added", "signed"}]]
    BY <1>3 DEF TypeInv, ProposalTypes
  <2>2. \A r \in Proposals : Exists(r)' <=> Exists(r)
    BY <1>1, <1>2, <1>3, ProposalUpdate DEF realmVars
  <2> QED BY <1>2, <1>3, <2>1, <2>2 DEF TypeInv, ProposalTypes, realmVars, GovernanceExists
<1>6. RealmTypes' /\ GovTypes' /\ VotersExist'
  BY <1>3 DEF TypeInv, realmVars, RealmTypes, ConfigTypes, RecordTypes, BalanceTypes,
              GovTypes, GovernanceExists, VotersExist
<1> QED BY <1>4, <1>5, <1>6 DEF TypeInv

\* The sign-off of a proposal without signatories, or of one of its signatories.
LEMMA SignOffProposalTypes ==
  ASSUME TypeInv, NEW p \in Proposals, NEW s, SignOffProposal(p, s)
  PROVE  TypeInv'
<1>1. Exists(p)
  BY DEF SignOffProposal, Exists
<1>2. now \in Nat
  BY RealmNumbers DEF TypeInv, RealmTypes
<1>3. PICK q \in ProposalRecord :
        q.options = proposals[p].options /\ q.mint = proposals[p].mint
        /\ proposals' = [proposals EXCEPT ![p] = q]
  <2>1. CASE proposals[p].signatories_count = 0
    <3> DEFINE q == [proposals[p] EXCEPT !.state = "Voting", !.voting_at = now]
    <3>1. q \in ProposalRecord /\ q.options = proposals[p].options /\ q.mint = proposals[p].mint
      BY <1>1, <1>2, ProposalOf DEF ProposalRecord, ProposalStates
    <3>2. proposals' = [proposals EXCEPT ![p] = q]
      BY <2>1 DEF SignOffProposal, StartVotingIf
    <3> QED BY <3>1, <3>2
  <2>2. CASE proposals[p].signatories_count # 0
    <3> DEFINE r == [proposals[p] EXCEPT !.signed_off_count = @ + 1, !.state = "SigningOff"]
               q == StartVotingIf(r, proposals[p].signed_off_count + 1
                                       = proposals[p].signatories_count)
    <3>1. r \in ProposalRecord /\ r.options = proposals[p].options /\ r.mint = proposals[p].mint
      <4> DEFINE t == [proposals[p] EXCEPT !.signed_off_count = @ + 1]
      <4>1. t \in ProposalRecord /\ t.options = proposals[p].options /\ t.mint = proposals[p].mint
        BY <1>1, ProposalOf DEF ProposalRecord
      <4>2. r = [t EXCEPT !.state = "SigningOff"]
        OBVIOUS
      <4> HIDE DEF t, r
      <4> QED BY <4>1, <4>2 DEF ProposalRecord, ProposalStates
    <3>2. q \in ProposalRecord /\ q.options = proposals[p].options /\ q.mint = proposals[p].mint
      <4> HIDE DEF r
      <4> QED BY <1>2, <3>1 DEF StartVotingIf, ProposalRecord, ProposalStates
    <3>3. proposals' = [proposals EXCEPT ![p] = q]
      BY <2>2 DEF SignOffProposal
    <3> HIDE DEF q
    <3> QED BY <3>2, <3>3
  <2> QED BY <2>1, <2>2
<1>4. UNCHANGED <<realmVars, gov, required, votes, txs>>
  BY DEF SignOffProposal
<1>5. VoteRecordTypes' /\ TransactionTypes'
  BY <1>1, <1>3, <1>4, ProposalUpdate DEF realmVars
<1>6. ProposalTypes'
  <2>1. signatories' \in [Proposals -> [Signatories -> {"none", "added", "signed"}]]
    <3>1. CASE proposals[p].signatories_count = 0
      BY <3>1 DEF SignOffProposal, TypeInv, ProposalTypes
    <3>2. CASE proposals[p].signatories_count # 0
      <4>1. s \in Signatories /\ signatories' = [signatories EXCEPT ![p][s] = "signed"]
        BY <3>2 DEF SignOffProposal
      <4> QED BY <4>1 DEF TypeInv, ProposalTypes
    <3> QED BY <3>1, <3>2
  <2>2. \A r \in Proposals : Exists(r)' <=> Exists(r)
    BY <1>1, <1>3, <1>4, ProposalUpdate DEF realmVars
  <2> QED BY <1>3, <1>4, <2>1, <2>2 DEF TypeInv, ProposalTypes, realmVars, GovernanceExists
<1>7. RealmTypes' /\ GovTypes' /\ VotersExist'
  BY <1>4 DEF TypeInv, realmVars, RealmTypes, ConfigTypes, RecordTypes, BalanceTypes,
              GovTypes, GovernanceExists, VotersExist
<1> QED BY <1>5, <1>6, <1>7 DEF TypeInv

LEMMA CompleteProposalTypes ==
  ASSUME TypeInv, NEW p \in Proposals, NEW s, CompleteProposal(p, s)
  PROVE  TypeInv'
<1> DEFINE q == [proposals[p] EXCEPT !.state = "Completed"]
<1>1. Exists(p)
  BY DEF CompleteProposal
<1>2. q \in ProposalRecord /\ q.options = proposals[p].options /\ q.mint = proposals[p].mint
  BY <1>1, ProposalOf DEF ProposalRecord, ProposalStates
<1>3. /\ proposals' = [proposals EXCEPT ![p] = q]
      /\ UNCHANGED <<realmVars, gov, required, signatories, votes, txs>>
  BY DEF CompleteProposal
<1> HIDE DEF q
<1> QED BY <1>1, <1>2, <1>3, OneProposalTypes

LEMMA RefundProposalDepositTypes ==
  ASSUME TypeInv, NEW p \in Proposals, RefundProposalDeposit(p)
  PROVE  TypeInv'
<1> DEFINE q == [proposals[p] EXCEPT !.deposit = 0]
<1>1. Exists(p)
  BY DEF RefundProposalDeposit
<1>2. q \in ProposalRecord /\ q.options = proposals[p].options /\ q.mint = proposals[p].mint
  BY <1>1, ProposalOf DEF ProposalRecord
<1>3. /\ proposals' = [proposals EXCEPT ![p] = q]
      /\ UNCHANGED <<realmVars, gov, required, signatories, votes, txs>>
  BY DEF RefundProposalDeposit
<1> HIDE DEF q
<1> QED BY <1>1, <1>2, <1>3, OneProposalTypes

\* One option of a proposal changes.
LEMMA OptionUpdate ==
  ASSUME TypeInv, NEW p \in Proposals, Exists(p), NEW i \in DOMAIN proposals[p].options,
         NEW o \in ProposalOption
  PROVE  LET q == [proposals[p] EXCEPT !.options[i] = o]
         IN  /\ q \in ProposalRecord
             /\ DOMAIN q.options = DOMAIN proposals[p].options
             /\ q.options = [proposals[p].options EXCEPT ![i] = o]
             /\ q.mint = proposals[p].mint
<1> DEFINE q == [proposals[p] EXCEPT !.options[i] = o]
           opts == [proposals[p].options EXCEPT ![i] = o]
<1>1. q = [proposals[p] EXCEPT !.options = opts]
  OBVIOUS
<1>2. opts \in OptionLists /\ DOMAIN opts = DOMAIN proposals[p].options
  <2>1. opts \in [DOMAIN proposals[p].options -> ProposalOption]
    BY ProposalOf, OptionListOf
  <2> QED BY <2>1, ProposalOf, OptionListWith
<1>3. proposals[p] \in ProposalRecord
  BY ProposalOf
<1> HIDE DEF opts, q
<1>4. q \in ProposalRecord /\ q.options = opts /\ q.mint = proposals[p].mint
  BY <1>1, <1>2, <1>3 DEF ProposalRecord
<1> QED BY <1>2, <1>4 DEF opts, q

\* The transactions of a proposal with one slot changed.
LEMMA SlotUpdate ==
  ASSUME TypeInv, NEW p \in Proposals, Exists(p), NEW x \in Slots(p),
         NEW t \in {NoTransaction} \cup TransactionRecord,
         txs' = [txs EXCEPT ![p][x] = t],
         \A r \in Proposals : (Exists(r)' <=> Exists(r)),
         \A r \in Proposals : Exists(r) => Slots(r)' = Slots(r)
  PROVE  TransactionTypes'
<1>1. \A r \in Proposals : r # p => txs'[r] = txs[r]
  BY DEF TypeInv, TransactionTypes
<1>2. txs'[p] = [txs[p] EXCEPT ![x] = t]
  BY DEF TypeInv, TransactionTypes
<1>3. txs'[p] \in [Slots(p) -> {NoTransaction} \cup TransactionRecord]
  BY <1>2 DEF TypeInv, TransactionTypes
<1> QED BY <1>1, <1>3 DEF TypeInv, TransactionTypes

LEMMA InsertTransactionTypes ==
  ASSUME TypeInv, NEW p \in Proposals, NEW s, NEW i, NEW n, NEW x \in Instructions,
         InsertTransaction(p, s, i, n, x)
  PROVE  TypeInv'
<1> DEFINE old == proposals[p].options[i]
           o == WithTransaction(old, n)
           q == [proposals[p] EXCEPT !.options[i] = o]
           t == [exists |-> TRUE, instruction |-> x, executed |-> FALSE]
<1>1. Exists(p) /\ <<i, n>> \in Slots(p)
  BY DEF InsertTransaction
<1>2. i \in DOMAIN proposals[p].options
  BY <1>1 DEF Slots
<1>3. old \in ProposalOption
  BY <1>1, <1>2, ProposalOf, OptionListOf
<1>4. o \in ProposalOption
  <2> DEFINE c == [old EXCEPT !.transactions_count = @ + 1]
             next == IF n = old.transactions_next_index
                     THEN old.transactions_next_index + 1 ELSE old.transactions_next_index
  <2>1. c \in ProposalOption /\ c.transactions_next_index = old.transactions_next_index
    BY <1>3 DEF ProposalOption
  <2>2. next \in Int
    BY <1>3 DEF ProposalOption
  <2>3. o = [c EXCEPT !.transactions_next_index = next]
    BY <2>1 DEF WithTransaction
  <2> HIDE DEF c, next
  <2> QED BY <2>1, <2>2, <2>3 DEF ProposalOption
<1>5. /\ proposals' = [proposals EXCEPT ![p] = q]
      /\ txs' = [txs EXCEPT ![p][<<i, n>>] = t]
      /\ UNCHANGED <<realmVars, gov, required, signatories, votes>>
  BY DEF InsertTransaction
<1>6. t \in TransactionRecord
  BY DEF TransactionRecord
<1> HIDE DEF old, o, t
<1>7. q \in ProposalRecord /\ DOMAIN q.options = DOMAIN proposals[p].options
      /\ q.mint = proposals[p].mint
  BY <1>1, <1>2, <1>4, OptionUpdate
<1> HIDE DEF q
<1>8. /\ \A r \in Proposals : (Exists(r)' <=> Exists(r))
      /\ \A r \in Proposals : Exists(r) => Slots(r)' = Slots(r)
  BY <1>1, <1>5, <1>7, ProposalUpdate DEF realmVars
<1>9. TransactionTypes'
  BY <1>1, <1>5, <1>6, <1>8, SlotUpdate
<1> QED BY <1>1, <1>5, <1>7, <1>9, OneProposalTypes

LEMMA RemoveTransactionTypes ==
  ASSUME TypeInv, NEW p \in Proposals, NEW s, NEW i, NEW n, RemoveTransaction(p, s, i, n)
  PROVE  TypeInv'
<1> DEFINE old == proposals[p].options[i]
           o == [old EXCEPT !.transactions_count = @ - 1]
           q == [proposals[p] EXCEPT !.options[i] = o]
<1>1. Exists(p) /\ <<i, n>> \in Slots(p)
  BY DEF RemoveTransaction
<1>2. i \in DOMAIN proposals[p].options
  BY <1>1 DEF Slots
<1>3. old \in ProposalOption
  BY <1>1, <1>2, ProposalOf, OptionListOf
<1>4. o \in ProposalOption
  <2> HIDE DEF old
  <2> QED BY <1>3 DEF ProposalOption
<1>5. /\ proposals' = [proposals EXCEPT ![p] = q]
      /\ txs' = [txs EXCEPT ![p][<<i, n>>] = NoTransaction]
      /\ UNCHANGED <<realmVars, gov, required, signatories, votes>>
  BY DEF RemoveTransaction
<1> HIDE DEF old, o
<1>7. q \in ProposalRecord /\ DOMAIN q.options = DOMAIN proposals[p].options
      /\ q.mint = proposals[p].mint
  BY <1>1, <1>2, <1>4, OptionUpdate
<1> HIDE DEF q
<1>8. /\ \A r \in Proposals : (Exists(r)' <=> Exists(r))
      /\ \A r \in Proposals : Exists(r) => Slots(r)' = Slots(r)
  BY <1>1, <1>5, <1>7, ProposalUpdate DEF realmVars
<1>9. TransactionTypes'
  BY <1>1, <1>5, <1>8, SlotUpdate
<1> QED BY <1>1, <1>5, <1>7, <1>9, OneProposalTypes

-----------------------------------------------------------------------------
(* Types: counters of the records, and the arithmetic of votes *)

LEMMA DecreasedType ==
  ASSUME NEW r \in OwnerRecord
  PROVE  LET d == DecreaseOutstanding(r)
         IN  /\ d \in OwnerRecord
             /\ d.exists = r.exists /\ d.deposit = r.deposit
             /\ d.unrelinquished = r.unrelinquished
             /\ d.outstanding = IF r.outstanding = 0 THEN 0 ELSE r.outstanding - 1
             /\ r = NoRecord => d = NoRecord
<1> DEFINE d == DecreaseOutstanding(r)
           out == IF r.outstanding = 0 THEN 0 ELSE r.outstanding - 1
<1>1. out \in 0..MaxOutstanding
  BY DEF OwnerRecord, MaxOutstanding
<1>2. d = [r EXCEPT !.outstanding = out]
  BY DEF DecreaseOutstanding
<1> HIDE DEF out
<1>3. /\ d \in OwnerRecord /\ d.outstanding = out
      /\ d.exists = r.exists /\ d.deposit = r.deposit
      /\ d.unrelinquished = r.unrelinquished
  BY <1>1, <1>2 DEF OwnerRecord
<1>4. r = NoRecord => d = NoRecord
  <2> SUFFICES ASSUME r = NoRecord PROVE d = r
    OBVIOUS
  <2>1. r.outstanding = out
    BY DEF out, NoRecord
  <2> QED BY <1>2, <2>1 DEF OwnerRecord
<1> QED BY <1>3, <1>4 DEF out

LEMMA CountedType ==
  ASSUME NEW r \in OwnerRecord, NEW n \in Int
  PROVE  LET d == [r EXCEPT !.unrelinquished = n]
         IN  /\ d \in OwnerRecord
             /\ d.exists = r.exists /\ d.deposit = r.deposit
             /\ d.unrelinquished = n /\ d.outstanding = r.outstanding
BY DEF OwnerRecord

\* One more vote of a record that exists, or one less.
LEMMA VoteCounted ==
  ASSUME TypeInv, NEW k \in Records, tor[k].exists, NEW n \in Int
  PROVE  LET t == [tor EXCEPT ![k].unrelinquished = n]
         IN  /\ t \in [Records -> OwnerRecord]
             /\ \A j \in Records : t[j].exists = tor[j].exists
             /\ \A j \in Records : ~tor[j].exists => t[j] = tor[j]
             /\ \A j \in Records : j # k => t[j] = tor[j]
             /\ t[k].unrelinquished = n /\ t[k].outstanding = tor[k].outstanding
             /\ t[k].deposit = tor[k].deposit
<1> DEFINE d == [tor[k] EXCEPT !.unrelinquished = n]
           t == [tor EXCEPT ![k] = d]
<1>1. tor \in [Records -> OwnerRecord]
  BY DEF TypeInv, RealmTypes, RecordTypes
<1>2. /\ d \in OwnerRecord /\ d.exists = tor[k].exists /\ d.deposit = tor[k].deposit
      /\ d.unrelinquished = n /\ d.outstanding = tor[k].outstanding
  BY <1>1, CountedType
<1>3. [tor EXCEPT ![k].unrelinquished = n] = t
  OBVIOUS
<1>4. /\ t \in [Records -> OwnerRecord] /\ t[k] = d
      /\ \A j \in Records : j # k => t[j] = tor[j]
  <2> HIDE DEF d
  <2> QED BY <1>1, <1>2
<1> HIDE DEF d, t
<1>5. /\ \A j \in Records : t[j].exists = tor[j].exists
      /\ \A j \in Records : ~tor[j].exists => t[j] = tor[j]
  BY <1>2, <1>4
<1> QED BY <1>2, <1>3, <1>4, <1>5

\* A proposal less of its owner.
LEMMA OutstandingDecreased ==
  ASSUME NEW t \in [Records -> OwnerRecord], NEW k \in Records,
         \A j \in Records : ~t[j].exists => t[j] = NoRecord
  PROVE  LET u == [t EXCEPT ![k] = DecreaseOutstanding(@)]
         IN  /\ u \in [Records -> OwnerRecord]
             /\ \A j \in Records : u[j].exists = t[j].exists
             /\ \A j \in Records : ~t[j].exists => u[j] = t[j]
             /\ \A j \in Records : j # k => u[j] = t[j]
             /\ \A j \in Records : u[j].unrelinquished = t[j].unrelinquished
             /\ \A j \in Records : u[j].deposit = t[j].deposit
             /\ u[k].outstanding = IF t[k].outstanding = 0 THEN 0 ELSE t[k].outstanding - 1
<1> DEFINE d == DecreaseOutstanding(t[k])
           u == [t EXCEPT ![k] = d]
<1>1. /\ d \in OwnerRecord
      /\ d.exists = t[k].exists /\ d.deposit = t[k].deposit
      /\ d.unrelinquished = t[k].unrelinquished
      /\ d.outstanding = IF t[k].outstanding = 0 THEN 0 ELSE t[k].outstanding - 1
      /\ t[k] = NoRecord => d = NoRecord
  BY DecreasedType
<1> HIDE DEF d
<1>2. /\ u \in [Records -> OwnerRecord] /\ u[k] = d
      /\ \A j \in Records : j # k => u[j] = t[j]
  BY <1>1
<1>3. [t EXCEPT ![k] = DecreaseOutstanding(@)] = u
  BY DEF d
<1> HIDE DEF u
<1>4. /\ \A j \in Records : u[j].exists = t[j].exists
      /\ \A j \in Records : ~t[j].exists => u[j] = t[j]
      /\ \A j \in Records : u[j].unrelinquished = t[j].unrelinquished
      /\ \A j \in Records : u[j].deposit = t[j].deposit
  BY <1>1, <1>2
<1> QED BY <1>1, <1>2, <1>3, <1>4

LEMMA PercentageNat ==
  ASSUME NEW w \in Nat, NEW c \in 0..100
  PROVE  ChoiceWeight(c, w) \in Nat
<1>1. w * c \in Nat
  OBVIOUS
<1>2. \A n \in Nat : n \div 100 \in Nat
  OBVIOUS
<1> QED BY <1>1, <1>2 DEF ChoiceWeight

\* The parts of a vote that may be cast.
LEMMA PartsNat ==
  ASSUME NEW vote \in Votes, NEW w \in Nat
  PROVE  /\ \A i \in DOMAIN vote.choices : OptionPart(vote, w, i) \in Nat
         /\ vote.kind # "approve" => \A i : OptionPart(vote, w, i) = 0
         /\ DenyPart(vote, w) \in Nat /\ VetoPart(vote, w) \in Nat
<1>1. \A i \in DOMAIN vote.choices : ChoiceWeight(vote.choices[i], w) \in Nat
  BY PercentageNat, GovernanceAssumption
<1> QED BY <1>1 DEF OptionPart, DenyPart, VetoPart

\* An option with another weight.
Weighted(o, n) == [o EXCEPT !.vote_weight = n]

LEMMA WeightedOption ==
  ASSUME NEW o \in ProposalOption, NEW n \in Int
  PROVE  /\ Weighted(o, n) \in ProposalOption
         /\ Weighted(o, n).vote_weight = n
         /\ Weighted(o, n).vote_result = o.vote_result
         /\ Weighted(o, n).transactions_count = o.transactions_count
         /\ Weighted(o, n).transactions_executed_count = o.transactions_executed_count
BY DEF Weighted, ProposalOption

\* A tally with a vote added or taken back, part by part.
LEMMA TalliedType ==
  ASSUME NEW q \in ProposalRecord, NEW vote \in Votes, NEW w \in Nat, NEW sign \in {1, -1},
         vote.kind = "approve" => DOMAIN vote.choices = DOMAIN q.options
  PROVE  LET t == Tallied(q, vote, w, sign)
         IN  /\ t \in ProposalRecord
             /\ DOMAIN t.options = DOMAIN q.options
             /\ \A i \in DOMAIN q.options :
                  /\ OptionPart(vote, w, i) \in Nat
                  /\ t.options[i] = Weighted(q.options[i],
                       q.options[i].vote_weight + sign * OptionPart(vote, w, i))
             /\ t.deny_vote_weight = q.deny_vote_weight + sign * DenyPart(vote, w)
             /\ t.veto_vote_weight = q.veto_vote_weight + sign * VetoPart(vote, w)
             /\ t.state = q.state /\ t.mint = q.mint /\ t.owner = q.owner
             /\ t.tipping = q.tipping /\ t.use_deny = q.use_deny
             /\ t.vote_type = q.vote_type
<1> DEFINE opts == [i \in DOMAIN q.options |->
                      Weighted(q.options[i],
                        q.options[i].vote_weight + sign * OptionPart(vote, w, i))]
           deny == q.deny_vote_weight + sign * DenyPart(vote, w)
           veto == q.veto_vote_weight + sign * VetoPart(vote, w)
           t == Tallied(q, vote, w, sign)
<1>1. q.options \in OptionLists /\ q.deny_vote_weight \in Int /\ q.veto_vote_weight \in Int
  BY DEF ProposalRecord
<1>2. \A i \in DOMAIN q.options : OptionPart(vote, w, i) \in Nat
  BY PartsNat
<1>3. \A n \in Nat : sign * n \in Int
  OBVIOUS
<1>4. deny \in Int /\ veto \in Int
  BY <1>1, <1>3, PartsNat
<1>5. opts \in [DOMAIN q.options -> ProposalOption]
  <2>1. \A i \in DOMAIN q.options : q.options[i] \in ProposalOption
    BY <1>1, OptionListOf
  <2>2. \A i \in DOMAIN q.options :
          q.options[i].vote_weight + sign * OptionPart(vote, w, i) \in Int
    BY <1>2, <1>3, <2>1 DEF ProposalOption
  <2> QED BY <2>1, <2>2, WeightedOption
<1>6. opts \in OptionLists
  BY <1>1, <1>5, OptionListWith
<1>7. t = [q EXCEPT !.options = opts, !.deny_vote_weight = deny, !.veto_vote_weight = veto]
  BY DEF Tallied, Weighted
<1>8. DOMAIN opts = DOMAIN q.options
  OBVIOUS
<1>9. \A i \in DOMAIN q.options :
        opts[i] = Weighted(q.options[i],
                           q.options[i].vote_weight + sign * OptionPart(vote, w, i))
  OBVIOUS
<1> HIDE DEF opts, deny, veto, t
<1>10. /\ t \in ProposalRecord /\ t.options = opts
       /\ t.deny_vote_weight = deny /\ t.veto_vote_weight = veto
       /\ t.state = q.state /\ t.mint = q.mint /\ t.owner = q.owner
       /\ t.tipping = q.tipping /\ t.use_deny = q.use_deny
       /\ t.vote_type = q.vote_type
  BY <1>4, <1>6, <1>7 DEF ProposalRecord
<1> QED BY <1>2, <1>8, <1>9, <1>10 DEF deny, veto, t

\* A list of integers has a greatest entry.
LEMMA GreatestEntry ==
  ASSUME NEW n \in Nat \ {0}, NEW f \in [1..n -> Int]
  PROVE  \E j \in 1..n : \A i \in 1..n : f[i] <= f[j]
<1> DEFINE Top(k) == \E j \in 1..k : \A i \in 1..k : f[i] <= f[j]
           Bad == {k \in 1..n : ~Top(k)}
<1>1. SUFFICES ASSUME Bad # {} PROVE FALSE
  <2>1. n \in 1..n
    OBVIOUS
  <2>2. Bad = {} => Top(n)
    BY <2>1, Zenon
  <2> QED BY <2>2
<1>2. Bad \in SUBSET Nat
  OBVIOUS
<1>3. \E k \in Bad : \A y \in Bad : k <= y
  <2> HIDE DEF Bad
  <2> QED BY <1>1, <1>2, LeastElement
<1>4. PICK k \in 1..n : ~Top(k) /\ \A y \in Bad : k <= y
  BY <1>3
<1>5. CASE k = 1
  BY <1>4, <1>5
<1>6. CASE k # 1
  <2>1. k-1 \in 1..n
    BY <1>6
  <2>2. k-1 \notin Bad
    <3> HIDE DEF Bad
    <3> QED BY <1>4
  <2>3. Top(k-1)
    <3> HIDE DEF Top
    <3> QED BY <2>1, <2>2
  <2>4. PICK j \in 1..(k-1) : \A i \in 1..(k-1) : f[i] <= f[j]
    BY <2>3
  <2>5. f[j] \in Int /\ f[k] \in Int /\ \A i \in 1..k : f[i] \in Int
    OBVIOUS
  <2>6. \A i \in 1..k : i = k \/ i \in 1..(k-1)
    OBVIOUS
  <2>7. CASE f[k] <= f[j]
    <3>1. \A i \in 1..k : f[i] <= f[j]
      BY <2>4, <2>6, <2>7
    <3> QED BY <1>4, <3>1
  <2>8. CASE ~(f[k] <= f[j])
    <3>1. \A i \in 1..k : f[i] <= f[k]
      BY <2>4, <2>5, <2>6, <2>8
    <3> QED BY <1>4, <3>1
  <2> QED BY <2>7, <2>8
<1> QED BY <1>5, <1>6

\* The highest weight of an option is the weight of some option.
LEMMA BestOptionWeightOf ==
  ASSUME NEW q \in ProposalRecord
  PROVE  /\ BestOptionWeight(q) \in {q.options[i].vote_weight : i \in DOMAIN q.options}
         /\ \A i \in DOMAIN q.options : q.options[i].vote_weight <= BestOptionWeight(q)
         /\ BestOptionWeight(q) \in Int
<1>1. PICK n \in 1..MaxOptions : q.options \in [1..n -> ProposalOption] /\ DOMAIN q.options = 1..n
  BY OptionListOf DEF ProposalRecord
<1> DEFINE f == [i \in 1..n |-> q.options[i].vote_weight]
           S == {q.options[i].vote_weight : i \in DOMAIN q.options}
<1>2. f \in [1..n -> Int] /\ n \in Nat \ {0}
  <2>1. \A i \in 1..n : q.options[i].vote_weight \in Int
    BY <1>1 DEF ProposalOption
  <2> QED BY <2>1 DEF MaxOptions
<1>3. PICK j \in 1..n : \A i \in 1..n : f[i] <= f[j]
  <2> HIDE DEF f
  <2> QED BY <1>2, GreatestEntry
<1>4. \E w \in S : \A i \in DOMAIN q.options : q.options[i].vote_weight <= w
  BY <1>1, <1>3
<1>5. /\ BestOptionWeight(q) \in S
      /\ \A i \in DOMAIN q.options : q.options[i].vote_weight <= BestOptionWeight(q)
  <2> DEFINE P(w) == \A i \in DOMAIN q.options : q.options[i].vote_weight <= w
  <2>1. BestOptionWeight(q) = CHOOSE w \in S : P(w)
    BY DEF BestOptionWeight
  <2>2. \E w \in S : P(w)
    BY <1>4
  <2> HIDE DEF P, S
  <2>3. (CHOOSE w \in S : P(w)) \in S /\ P(CHOOSE w \in S : P(w))
    BY <2>2
  <2> QED BY <2>1, <2>3, Zenon DEF P
<1>6. \A w \in S : w \in Int
  BY <1>1 DEF ProposalOption
<1> QED BY <1>5, <1>6

LEMMA CoercedNat ==
  ASSUME NEW q \in ProposalRecord, NEW max \in Nat, NEW kind
  PROVE  CoerceMaxVoterWeight(q, max, kind) \in Nat
<1> DEFINE cast == IF kind = "veto" THEN q.veto_vote_weight
                   ELSE BestOptionWeight(q) + q.deny_vote_weight
<1>1. cast \in Int
  BY BestOptionWeightOf DEF ProposalRecord
<1> HIDE DEF cast
<1>2. Greater(max, cast) \in Nat
  BY <1>1 DEF Greater
<1> QED BY <1>2 DEF CoerceMaxVoterWeight, cast

\* The maximum weight of a vote is a natural number.
LEMMA MaxVoterWeightNat ==
  ASSUME TypeInv, NEW q \in ProposalRecord, NEW m \in GoverningMints, NEW kind,
         NEW max \in MaxVoterWeights(q, m, kind)
  PROVE  max \in Nat
<1> DEFINE supply == holding[m] + wallet[m]
<1>1. supply \in Nat
  BY DEF TypeInv, RealmTypes, BalanceTypes
<1>2. realm.source \in SourceArgs /\ realm.source.value \in Nat
  BY DEF TypeInv, RealmTypes, ConfigTypes, RealmRecord, SourceArgs
<1>3. \A w \in 0..MaxSupply : CoerceMaxVoterWeight(q, w, kind) \in Nat
  BY CoercedNat, RealmNumbers
<1>4. (supply * realm.source.value) \div SUPPLY_FRACTION_BASE \in Nat
  <2>1. supply * realm.source.value \in Nat
    <3> HIDE DEF supply
    <3> QED BY <1>1, <1>2
  <2>2. \A n \in Nat, d \in Nat \ {0} : n \div d \in Nat
    OBVIOUS
  <2> QED BY <2>1, <2>2, RealmNumbers
<1> HIDE DEF supply
<1>5. MaxVoterWeightFromSupply(q, m = Council, realm.source, supply, kind,
                               SUPPLY_FRACTION_BASE) \in Nat
  <2> DEFINE own == IF realm.source.kind = "fraction"
                    THEN (supply * realm.source.value) \div SUPPLY_FRACTION_BASE
                    ELSE realm.source.value
  <2>1. own \in Nat
    BY <1>2, <1>4
  <2>2. CoerceMaxVoterWeight(q, own, kind) \in Nat
    <3> HIDE DEF own
    <3> QED BY <2>1, CoercedNat
  <2> QED BY <1>1, <2>2 DEF MaxVoterWeightFromSupply
<1> QED BY <1>3, <1>5 DEF MaxVoterWeights, supply

LEMMA ThresholdType ==
  ASSUME TypeInv, GovernanceExists, NEW isCouncil \in BOOLEAN, NEW kind
  PROVE  /\ VoteThreshold(gov.config, isCouncil, kind) \in Thresholds
         /\ VoteTipping(gov.config, isCouncil) \in Tippings
<1>1. gov.config \in GovernanceConfigArgs /\ ValidGovernanceConfig(gov.config)
  BY DEF TypeInv, GovTypes
<1> QED BY <1>1 DEF VoteThreshold, VoteTipping, ValidGovernanceConfig, GovernanceConfigArgs

\* A state that a vote tips into.
LEMMA TippedStateType ==
  ASSUME NEW q, NEW max, NEW threshold, NEW tipping, NEW kind
  PROVE  LET state == TippedState(q, max, threshold, tipping, kind)
         IN  /\ state \in {"Voting", "Vetoed", "Succeeded", "Defeated"}
             /\ kind = "veto" => state \in {"Voting", "Vetoed"}
             /\ kind # "veto" => state # "Vetoed"
BY DEF TippedState

\* The record of a proposal that a vote decides.
TippedRecord(q, state, at, max, threshold, tipping) ==
  [Tipped(q, state) EXCEPT !.voting_completed_at = at, !.max_vote_weight = max,
                           !.vote_threshold = threshold, !.tipping = tipping]

TippedOptions(q, state) ==
  IF state = "Vetoed" THEN q.options
  ELSE [q.options EXCEPT ![1] = [q.options[1] EXCEPT !.vote_result = state]]

LEMMA TippedType ==
  ASSUME NEW q \in ProposalRecord, NEW state \in {"Vetoed", "Succeeded", "Defeated"},
         NEW at \in Nat, NEW max \in Nat, NEW threshold \in Thresholds,
         NEW tipping \in Tippings
  PROVE  LET r == TippedRecord(q, state, at, max, threshold, tipping)
         IN  /\ r \in ProposalRecord
             /\ DOMAIN r.options = DOMAIN q.options
             /\ r.mint = q.mint /\ r.owner = q.owner /\ r.state = state
             /\ r.tipping = tipping /\ r.max_vote_weight = max
             /\ r.vote_threshold = threshold /\ r.vote_type = q.vote_type
             /\ r.deny_vote_weight = q.deny_vote_weight
             /\ r.veto_vote_weight = q.veto_vote_weight /\ r.use_deny = q.use_deny
             /\ r.options = TippedOptions(q, state)
<1> DEFINE opts == IF state = "Vetoed" THEN q.options
                   ELSE [q.options EXCEPT ![1] = [q.options[1] EXCEPT !.vote_result = state]]
           t == Tipped(q, state)
           r == [t EXCEPT !.voting_completed_at = at, !.max_vote_weight = max,
                          !.vote_threshold = threshold, !.tipping = tipping]
<1>1. q.options \in OptionLists
  BY DEF ProposalRecord
<1>2. opts \in OptionLists /\ DOMAIN opts = DOMAIN q.options
  <2>1. PICK n \in 1..MaxOptions : q.options \in [1..n -> ProposalOption]
    BY <1>1, OptionListOf
  <2>2. 1 \in 1..n
    BY DEF MaxOptions
  <2>3. state # "Vetoed" => [q.options[1] EXCEPT !.vote_result = state] \in ProposalOption
    BY <2>1, <2>2 DEF ProposalOption, VoteResults
  <2>4. opts \in [DOMAIN q.options -> ProposalOption]
    BY <2>1, <2>3
  <2> QED BY <1>1, <2>4, OptionListWith
<1>3. t = [q EXCEPT !.state = state, !.options = opts]
  <2>1. CASE state = "Vetoed"
    BY <2>1 DEF Tipped, ProposalRecord
  <2>2. CASE state # "Vetoed"
    BY <2>2 DEF Tipped
  <2> QED BY <2>1, <2>2
<1> HIDE DEF opts, t
<1>4. /\ t \in ProposalRecord /\ t.options = opts /\ t.state = state
      /\ t.mint = q.mint /\ t.owner = q.owner /\ t.vote_type = q.vote_type
      /\ t.deny_vote_weight = q.deny_vote_weight
      /\ t.veto_vote_weight = q.veto_vote_weight /\ t.use_deny = q.use_deny
  BY <1>2, <1>3 DEF ProposalRecord, ProposalStates
<1>5. /\ r \in ProposalRecord /\ r.options = t.options /\ r.state = t.state
      /\ r.mint = t.mint /\ r.owner = t.owner /\ r.vote_type = t.vote_type
      /\ r.deny_vote_weight = t.deny_vote_weight
      /\ r.veto_vote_weight = t.veto_vote_weight /\ r.use_deny = t.use_deny
      /\ r.tipping = tipping /\ r.max_vote_weight = max /\ r.vote_threshold = threshold
  BY <1>4 DEF ProposalRecord
<1> HIDE DEF r
<1>6. r = TippedRecord(q, state, at, max, threshold, tipping)
  BY DEF r, t, TippedRecord
<1> QED BY <1>2, <1>4, <1>5, <1>6 DEF opts, TippedOptions

-----------------------------------------------------------------------------
(* What the handlers of votes write *)

\* The tally of a proposal with a vote added.
WithVote(p, vote, weight) == Tallied(proposals[p], vote, weight, 1)

\* The vote is counted and the proposal stays open.
CastOnly(p, k, vote, weight) ==
  /\ proposals' = [proposals EXCEPT ![p] = WithVote(p, vote, weight)]
  /\ tor' = [tor EXCEPT ![k].unrelinquished = @ + 1]
  /\ gov' = gov

\* The vote is counted and decides the proposal.
CastAndTip(p, k, vote, weight, max, state) ==
  LET threshold == VoteThreshold(gov.config, k[1] = Council, VoteKind(vote))
      tipping == VoteTipping(gov.config, k[1] = Council)
  IN
  /\ state = TippedState(WithVote(p, vote, weight), max, threshold, tipping, VoteKind(vote))
  /\ proposals' = [proposals EXCEPT ![p] =
       TippedRecord(WithVote(p, vote, weight), state, now, max, threshold, tipping)]
  /\ tor' = [[tor EXCEPT ![k].unrelinquished = @ + 1] EXCEPT
               ![proposals[p].owner] = DecreaseOutstanding(@)]
  /\ gov' = [gov EXCEPT !.active_proposal_count = Minus(@, 1)]

LEMMA CastVoteOutcome ==
  ASSUME TypeInv, NEW p \in Proposals, NEW k \in Records, NEW s, NEW vote \in Votes,
         CastVote(p, k, s, vote)
  PROVE  /\ Exists(p) /\ ~votes[p][k].exists /\ tor[k].exists /\ ValidMint(k[1])
         /\ proposals[p].state = "Voting" /\ ValidVote(proposals[p], vote)
         /\ proposals[p].mint = MintForVote(k[1], VoteKind(vote))
         /\ UNCHANGED <<now, realm, tokens, holding, wallet, govs, required,
                        signatories, txs>>
         /\ \E weight \in VoterWeights(k) :
              /\ weight \in Nat
              /\ WithVote(p, vote, weight) \in ProposalRecord
              /\ votes' = [votes EXCEPT ![p][k] =
                   [exists |-> TRUE, vote |-> vote, weight |-> weight,
                    is_relinquished |-> FALSE]]
              /\ \/ CastOnly(p, k, vote, weight)
                 \/ \E max \in Nat, state \in {"Vetoed", "Succeeded", "Defeated"} :
                      /\ max \in MaxVoterWeights(WithVote(p, vote, weight), k[1], VoteKind(vote))
                      /\ CastAndTip(p, k, vote, weight, max, state)
<1> DEFINE kind == VoteKind(vote)
           threshold == VoteThreshold(gov.config, k[1] = Council, kind)
           tipping == VoteTipping(gov.config, k[1] = Council)
           State(q, max) == TippedState(q, max, threshold, tipping, kind)
<1>1. /\ Exists(p) /\ ~votes[p][k].exists /\ tor[k].exists /\ ValidMint(k[1])
      /\ proposals[p].state = "Voting" /\ ValidVote(proposals[p], vote)
      /\ proposals[p].mint = MintForVote(k[1], VoteKind(vote))
      /\ UNCHANGED <<now, realm, tokens, holding, wallet, govs, required,
                     signatories, txs>>
  BY DEF CastVote, OwnerOrDelegateSigns, CanCastVote
<1>2. PICK weight, max :
        LET q == WithVote(p, vote, weight)
            state == State(q, max)
            voter == [tor EXCEPT ![k].unrelinquished = @ + 1]
        IN
        /\ weight \in VoterWeights(k) /\ max \in MaxVoterWeights(q, k[1], kind)
        /\ votes' = [votes EXCEPT ![p][k] =
             [exists |-> TRUE, vote |-> vote, weight |-> weight, is_relinquished |-> FALSE]]
        /\ IF state # "Voting"
           THEN /\ proposals' = [proposals EXCEPT ![p] =
                     [Tipped(q, state) EXCEPT
                        !.voting_completed_at = now, !.max_vote_weight = max,
                        !.vote_threshold = threshold, !.tipping = tipping]]
                /\ tor' = [voter EXCEPT ![q.owner] = DecreaseOutstanding(@)]
                /\ gov' = [gov EXCEPT !.active_proposal_count = Minus(@, 1)]
           ELSE /\ proposals' = [proposals EXCEPT ![p] = q]
                /\ tor' = voter
                /\ UNCHANGED gov
  BY DEF CastVote, WithVote
<1>3. weight \in Nat
  BY <1>2, RealmNumbers DEF VoterWeights, TypeInv, RealmTypes, RecordTypes, OwnerRecord
<1>4. /\ WithVote(p, vote, weight) \in ProposalRecord
      /\ WithVote(p, vote, weight).owner = proposals[p].owner
  <2>1. proposals[p] \in ProposalRecord
    BY <1>1, ProposalOf
  <2>2. vote.kind = "approve" => DOMAIN vote.choices = DOMAIN proposals[p].options
    BY <1>1 DEF ValidVote
  <2>3. 1 \in {1, -1}
    OBVIOUS
  <2> QED BY <1>1, <1>3, <2>1, <2>2, <2>3, TalliedType DEF WithVote
<1>6. max \in Nat
  BY <1>2, <1>4, MaxVoterWeightNat, RecordKeys
<1> DEFINE q == WithVote(p, vote, weight)
<1>7. State(q, max) \in {"Voting", "Vetoed", "Succeeded", "Defeated"}
  BY TippedStateType
<1>8. CASE State(q, max) = "Voting"
  <2>1. CastOnly(p, k, vote, weight)
    BY <1>2, <1>8 DEF CastOnly
  <2> QED BY <1>1, <1>2, <1>3, <1>4, <2>1
<1>9. CASE State(q, max) # "Voting"
  <2>1. CastAndTip(p, k, vote, weight, max, State(q, max))
    BY <1>2, <1>4, <1>9 DEF CastAndTip, TippedRecord
  <2>2. State(q, max) \in {"Vetoed", "Succeeded", "Defeated"}
    BY <1>7, <1>9
  <2> HIDE DEF State, kind, threshold, tipping
  <2>3. \E m \in Nat, state \in {"Vetoed", "Succeeded", "Defeated"} :
          /\ m \in MaxVoterWeights(WithVote(p, vote, weight), k[1], VoteKind(vote))
          /\ CastAndTip(p, k, vote, weight, m, state)
    BY <1>2, <1>6, <2>1, <2>2 DEF kind
  <2> QED BY <1>1, <1>2, <1>3, <1>4, <2>3
<1> QED BY <1>8, <1>9

\* A vote is taken back: the record it leaves.
LEMMA WithdrawVoteOutcome ==
  ASSUME TypeInv, NEW p \in Proposals, NEW k \in Records, NEW s, WithdrawVote(p, k, s)
  PROVE  /\ Exists(p) /\ LiveVote(p, k) /\ tor[k].exists
         /\ votes[p][k] \in VoteRecord /\ VoteFits(p, k)
         /\ proposals[p].state = "Voting"
         /\ Tallied(proposals[p], votes[p][k].vote, votes[p][k].weight, -1) \in ProposalRecord
         /\ proposals' = [proposals EXCEPT ![p] =
              Tallied(proposals[p], votes[p][k].vote, votes[p][k].weight, -1)]
         /\ votes' = [votes EXCEPT ![p][k] = NoVote]
         /\ tor' = [tor EXCEPT ![k].unrelinquished = @ - 1]
         /\ UNCHANGED <<now, realm, tokens, holding, wallet, govs, gov, required,
                        signatories, txs>>
<1>1. Exists(p) /\ LiveVote(p, k) /\ tor[k].exists /\ proposals[p].state = "Voting"
  BY DEF WithdrawVote, OwnerOrDelegateSigns, RelinquishAllowed, VoteOpen
<1>2. votes[p][k] \in VoteRecord /\ VoteFits(p, k)
  BY <1>1 DEF LiveVote, TypeInv, VoteRecordTypes, NoVote
<1>3. Tallied(proposals[p], votes[p][k].vote, votes[p][k].weight, -1) \in ProposalRecord
  BY <1>1, <1>2, ProposalOf, TalliedType DEF VoteRecord, VoteFits
<1> QED BY <1>1, <1>2, <1>3 DEF WithdrawVote

LEMMA ReleaseVoteOutcome ==
  ASSUME TypeInv, NEW p \in Proposals, NEW k \in Records, ReleaseVote(p, k)
  PROVE  /\ Exists(p) /\ LiveVote(p, k) /\ tor[k].exists
         /\ votes[p][k] \in VoteRecord /\ VoteFits(p, k)
         /\ proposals[p].state # "Voting"
         /\ votes' = [votes EXCEPT ![p][k].is_relinquished = TRUE]
         /\ tor' = [tor EXCEPT ![k].unrelinquished = @ - 1]
         /\ UNCHANGED <<now, realm, tokens, holding, wallet, govs, gov, required,
                        proposals, signatories, txs>>
<1>1. Exists(p) /\ LiveVote(p, k) /\ proposals[p].state # "Voting"
  BY DEF ReleaseVote, RelinquishAllowed, Decided
<1>2. votes[p][k] \in VoteRecord /\ VoteFits(p, k) /\ tor[k].exists
  BY <1>1 DEF LiveVote, TypeInv, VoteRecordTypes, VotersExist, NoVote
<1> QED BY <1>1, <1>2 DEF ReleaseVote

\* A vote whose time is over is resolved.
LEMMA FinalizeVoteOutcome ==
  ASSUME TypeInv, NEW p \in Proposals, FinalizeVote(p)
  PROVE  /\ Exists(p) /\ proposals[p].state = "Voting"
         /\ tor' = [tor EXCEPT ![proposals[p].owner] = DecreaseOutstanding(@)]
         /\ gov' = [gov EXCEPT !.active_proposal_count = Minus(@, 1)]
         /\ UNCHANGED <<now, realm, tokens, holding, wallet, govs, required, signatories,
                        votes, txs>>
         /\ \E max \in Nat, threshold \in Thresholds : \E r \in ProposalRecord :
              LET q == proposals[p]
                  min == MinVoteThresholdWeight(threshold, max)
              IN
              /\ proposals' = [proposals EXCEPT ![p] = r]
              /\ DOMAIN r.options = DOMAIN q.options
              /\ \A i \in DOMAIN q.options :
                   r.options[i] = [q.options[i] EXCEPT !.vote_result =
                     IF i \in Winners(q, min) THEN "Succeeded" ELSE "Defeated"]
              /\ r.state = FinalVoteState(q, min)
              /\ r.mint = q.mint /\ r.owner = q.owner /\ r.tipping = q.tipping
              /\ r.use_deny = q.use_deny /\ r.vote_type = q.vote_type
              /\ r.deny_vote_weight = q.deny_vote_weight
              /\ r.veto_vote_weight = q.veto_vote_weight
<1> DEFINE q == proposals[p]
           threshold == VoteThreshold(gov.config, q.mint = Council, "electorate")
           at == VotingMaxTimeEnd(q, gov.config)
<1>1. /\ Exists(p) /\ q.state = "Voting"
      /\ tor' = [tor EXCEPT ![proposals[p].owner] = DecreaseOutstanding(@)]
      /\ gov' = [gov EXCEPT !.active_proposal_count = Minus(@, 1)]
      /\ UNCHANGED <<now, realm, tokens, holding, wallet, govs, required, signatories,
                     votes, txs>>
  BY DEF FinalizeVote, CanFinalizeVote
<1>2. PICK max \in MaxVoterWeights(q, q.mint, "electorate") :
        proposals' = [proposals EXCEPT ![p] =
          [ResolveFinalVoteState(q, max, threshold) EXCEPT
             !.voting_completed_at = at, !.max_vote_weight = max, !.vote_threshold = threshold]]
  BY DEF FinalizeVote
<1>3. /\ q \in ProposalRecord /\ q.options \in OptionLists /\ q.mint \in GoverningMints
      /\ gov.config \in GovernanceConfigArgs
  BY <1>1, ProposalOf DEF ProposalRecord
<1>4. max \in Nat /\ threshold \in Thresholds
  BY <1>1, <1>3, MaxVoterWeightNat, ThresholdType, ProposalOf
<1>5. at \in Nat
  BY <1>3 DEF VotingMaxTimeEnd, VotingBaseTimeEnd, ProposalRecord, GovernanceConfigArgs
<1> DEFINE min == MinVoteThresholdWeight(threshold, max)
           opts == [i \in DOMAIN q.options |-> [q.options[i] EXCEPT !.vote_result =
                      IF i \in Winners(q, min) THEN "Succeeded" ELSE "Defeated"]]
           t == ResolveFinalVoteState(q, max, threshold)
           r == [t EXCEPT !.voting_completed_at = at, !.max_vote_weight = max,
                          !.vote_threshold = threshold]
<1>6. opts \in OptionLists
  <2>1. \A i \in DOMAIN q.options : q.options[i] \in ProposalOption
    BY <1>3, OptionListOf
  <2>2. \A o \in ProposalOption, v \in VoteResults : [o EXCEPT !.vote_result = v] \in ProposalOption
    BY DEF ProposalOption
  <2>3. opts \in [DOMAIN q.options -> ProposalOption]
    BY <2>1, <2>2 DEF VoteResults
  <2> QED BY <1>3, <2>3, OptionListWith
<1>7. FinalVoteState(q, min) \in ProposalStates
  BY DEF FinalVoteState, ProposalStates
<1>8. t = [q EXCEPT !.state = FinalVoteState(q, min), !.options = opts]
  BY DEF ResolveFinalVoteState
<1>9. /\ DOMAIN opts = DOMAIN q.options
      /\ \A i \in DOMAIN q.options : opts[i] = [q.options[i] EXCEPT !.vote_result =
                      IF i \in Winners(q, min) THEN "Succeeded" ELSE "Defeated"]
  OBVIOUS
<1> HIDE DEF opts, t, min, at, threshold, q
<1>10. /\ t \in ProposalRecord /\ t.options = opts /\ t.state = FinalVoteState(q, min)
       /\ t.mint = q.mint /\ t.owner = q.owner /\ t.tipping = q.tipping
       /\ t.use_deny = q.use_deny /\ t.vote_type = q.vote_type
       /\ t.deny_vote_weight = q.deny_vote_weight /\ t.veto_vote_weight = q.veto_vote_weight
  BY <1>3, <1>6, <1>7, <1>8 DEF ProposalRecord
<1>11. /\ r \in ProposalRecord /\ r.options = t.options /\ r.state = t.state
       /\ r.mint = t.mint /\ r.owner = t.owner /\ r.tipping = t.tipping
       /\ r.use_deny = t.use_deny /\ r.vote_type = t.vote_type
       /\ r.deny_vote_weight = t.deny_vote_weight /\ r.veto_vote_weight = t.veto_vote_weight
  BY <1>4, <1>5, <1>10 DEF ProposalRecord
<1>12. proposals' = [proposals EXCEPT ![p] = r]
  BY <1>2 DEF t
<1> HIDE DEF r
<1>13. /\ proposals' = [proposals EXCEPT ![p] = r]
       /\ DOMAIN r.options = DOMAIN q.options
       /\ \A i \in DOMAIN q.options :
            r.options[i] = [q.options[i] EXCEPT !.vote_result =
              IF i \in Winners(q, min) THEN "Succeeded" ELSE "Defeated"]
       /\ r.state = FinalVoteState(q, min)
       /\ r.mint = q.mint /\ r.owner = q.owner /\ r.tipping = q.tipping
       /\ r.use_deny = q.use_deny /\ r.vote_type = q.vote_type
       /\ r.deny_vote_weight = q.deny_vote_weight
       /\ r.veto_vote_weight = q.veto_vote_weight
  BY <1>9, <1>10, <1>11, <1>12
<1> QED BY <1>1, <1>4, <1>11, <1>13 DEF q, min

LEMMA CancelProposalOutcome ==
  ASSUME TypeInv, NEW p \in Proposals, NEW s, CancelProposal(p, s)
  PROVE  LET q == [proposals[p] EXCEPT !.state = "Cancelled"]
         IN  /\ Exists(p) /\ proposals[p].state \in Undecided
             /\ q \in ProposalRecord /\ q.options = proposals[p].options
             /\ q.mint = proposals[p].mint /\ q.owner = proposals[p].owner
             /\ q.state = "Cancelled"
             /\ proposals' = [proposals EXCEPT ![p] = q]
             /\ tor' = [tor EXCEPT ![proposals[p].owner] = DecreaseOutstanding(@)]
             /\ gov' = [gov EXCEPT !.active_proposal_count = Minus(@, 1)]
             /\ UNCHANGED <<now, realm, tokens, holding, wallet, govs, required,
                            signatories, votes, txs>>
<1> DEFINE q == [proposals[p] EXCEPT !.state = "Cancelled"]
<1>1. Exists(p) /\ proposals[p].state \in Undecided
  BY DEF CancelProposal, CanCancel, Undecided
<1>2. /\ q \in ProposalRecord /\ q.options = proposals[p].options
      /\ q.mint = proposals[p].mint /\ q.owner = proposals[p].owner /\ q.state = "Cancelled"
  BY <1>1, ProposalOf DEF ProposalRecord, ProposalStates
<1> QED BY <1>1, <1>2 DEF CancelProposal

-----------------------------------------------------------------------------
(* Types: votes and decisions *)

\* One proposal changes, counters of records and of the governance, and votes.
LEMMA CountedTypes ==
  ASSUME TypeInv, NEW p \in Proposals, Exists(p), NEW q \in ProposalRecord,
         DOMAIN q.options = DOMAIN proposals[p].options, q.mint = proposals[p].mint,
         proposals' = [proposals EXCEPT ![p] = q],
         NEW t \in [Records -> OwnerRecord], tor' = t,
         \A k \in Records : t[k].exists = tor[k].exists,
         \A k \in Records : ~tor[k].exists => t[k] = tor[k],
         gov' = gov \/ gov' = [gov EXCEPT !.active_proposal_count = Minus(@, 1)],
         UNCHANGED <<now, realm, tokens, holding, wallet, govs, required, signatories, txs>>,
         votes' = votes \/ (VoteRecordTypes' /\ VotersExist')
  PROVE  TypeInv'
<1>1. ProposalTypes' /\ VoteRecordTypes' /\ TransactionTypes'
  BY ProposalUpdate
<1>2. RealmTypes'
  BY CountStep DEF TypeInv
<1>3. GovTypes'
  <2>1. gov' \in GovernanceRecord /\ gov'.config = gov.config
    BY DEF TypeInv, GovTypes, GovernanceRecord, Minus
  <2> QED BY <2>1 DEF TypeInv, GovTypes, GovernanceExists
<1>4. VotersExist'
  BY DEF TypeInv, VotersExist
<1> QED BY <1>1, <1>2, <1>3, <1>4 DEF TypeInv

\* What decreases the outstanding proposals of an owner.
LEMMA OwnerReleased ==
  ASSUME TypeInv, NEW k \in Records,
         tor' = [tor EXCEPT ![k] = DecreaseOutstanding(@)]
  PROVE  /\ tor' \in [Records -> OwnerRecord]
         /\ \A j \in Records : tor'[j].exists = tor[j].exists
         /\ \A j \in Records : ~tor[j].exists => tor'[j] = tor[j]
         /\ \A j \in Records : j # k => tor'[j] = tor[j]
         /\ \A j \in Records : tor'[j].unrelinquished = tor[j].unrelinquished
         /\ \A j \in Records : tor'[j].deposit = tor[j].deposit
         /\ tor'[k].outstanding = IF tor[k].outstanding = 0 THEN 0 ELSE tor[k].outstanding - 1
<1>1. tor \in [Records -> OwnerRecord] /\ \A j \in Records : ~tor[j].exists => tor[j] = NoRecord
  BY DEF TypeInv, RealmTypes, RecordTypes
<1> QED BY <1>1, OutstandingDecreased

LEMMA FinalizeVoteTypes ==
  ASSUME TypeInv, NEW p \in Proposals, FinalizeVote(p)
  PROVE  TypeInv'
<1>1. proposals[p].owner \in Records
  BY FinalizeVoteOutcome, ProposalOf DEF ProposalRecord
<1>2. PICK r \in ProposalRecord :
        /\ proposals' = [proposals EXCEPT ![p] = r]
        /\ DOMAIN r.options = DOMAIN proposals[p].options /\ r.mint = proposals[p].mint
  BY FinalizeVoteOutcome
<1>3. /\ tor' \in [Records -> OwnerRecord]
      /\ \A j \in Records : tor'[j].exists = tor[j].exists
      /\ \A j \in Records : ~tor[j].exists => tor'[j] = tor[j]
  BY <1>1, FinalizeVoteOutcome, OwnerReleased
<1> QED BY <1>2, <1>3, FinalizeVoteOutcome, CountedTypes

LEMMA CancelProposalTypes ==
  ASSUME TypeInv, NEW p \in Proposals, NEW s, CancelProposal(p, s)
  PROVE  TypeInv'
<1>1. proposals[p].owner \in Records
  BY CancelProposalOutcome, ProposalOf DEF ProposalRecord
<1>3. /\ tor' \in [Records -> OwnerRecord]
      /\ \A j \in Records : tor'[j].exists = tor[j].exists
      /\ \A j \in Records : ~tor[j].exists => tor'[j] = tor[j]
  BY <1>1, CancelProposalOutcome, OwnerReleased
<1> QED BY <1>3, CancelProposalOutcome, CountedTypes

\* One vote record changes, and proposals keep what it has to fit.
LEMMA VoteUpdate ==
  ASSUME TypeInv, NEW p \in Proposals, Exists(p), NEW k \in Records,
         NEW v \in {NoVote} \cup VoteRecord, votes' = [votes EXCEPT ![p][k] = v],
         v.exists => /\ tor[k].exists
                     /\ v.vote.kind = "approve" =>
                          DOMAIN v.vote.choices = DOMAIN proposals[p].options
                     /\ proposals[p].mint = MintForVote(k[1], VoteKind(v.vote)),
         \A r \in Proposals : /\ (Exists(r)' <=> Exists(r))
                              /\ DOMAIN proposals'[r].options = DOMAIN proposals[r].options
                              /\ proposals'[r].mint = proposals[r].mint,
         \A j \in Records : tor'[j].exists = tor[j].exists
  PROVE  /\ VoteRecordTypes' /\ VotersExist'
         /\ \A r \in Proposals, j \in Records :
              votes'[r][j] = IF r = p /\ j = k THEN v ELSE votes[r][j]
<1>1. votes \in [Proposals -> [Records -> {NoVote} \cup VoteRecord]]
  BY DEF TypeInv, VoteRecordTypes
<1>2. /\ votes' \in [Proposals -> [Records -> {NoVote} \cup VoteRecord]]
      /\ \A r \in Proposals, j \in Records :
           votes'[r][j] = IF r = p /\ j = k THEN v ELSE votes[r][j]
  BY <1>1
<1>3. \A r \in Proposals : ~Exists(r)' => \A j \in Records : votes'[r][j] = NoVote
  BY <1>2 DEF TypeInv, VoteRecordTypes
<1>4. \A r \in Proposals, j \in Records : votes'[r][j].exists => VoteFits(r, j)'
  BY <1>2 DEF TypeInv, VoteRecordTypes, VoteFits
<1>5. VotersExist'
  BY <1>2 DEF TypeInv, VotersExist
<1> QED BY <1>2, <1>3, <1>4, <1>5 DEF VoteRecordTypes

LEMMA WithdrawVoteTypes ==
  ASSUME TypeInv, NEW p \in Proposals, NEW k \in Records, NEW s, WithdrawVote(p, k, s)
  PROVE  TypeInv'
<1> DEFINE v == votes[p][k]
           q == Tallied(proposals[p], v.vote, v.weight, -1)
           t == [tor EXCEPT ![k].unrelinquished = tor[k].unrelinquished - 1]
<1>1. /\ Exists(p) /\ tor[k].exists /\ q \in ProposalRecord
      /\ DOMAIN q.options = DOMAIN proposals[p].options /\ q.mint = proposals[p].mint
      /\ proposals' = [proposals EXCEPT ![p] = q]
      /\ votes' = [votes EXCEPT ![p][k] = NoVote] /\ tor' = t
      /\ UNCHANGED <<now, realm, tokens, holding, wallet, govs, gov, required,
                     signatories, txs>>
  <2>1. v \in VoteRecord /\ VoteFits(p, k) /\ Exists(p)
    BY WithdrawVoteOutcome
  <2>2. DOMAIN q.options = DOMAIN proposals[p].options /\ q.mint = proposals[p].mint
    <3>1. /\ v.vote \in Votes /\ v.weight \in Nat
          /\ v.vote.kind = "approve" => DOMAIN v.vote.choices = DOMAIN proposals[p].options
      BY <2>1 DEF VoteRecord, VoteFits
    <3>2. proposals[p] \in ProposalRecord
      BY <2>1, ProposalOf
    <3> HIDE DEF v
    <3> QED BY <3>1, <3>2, TalliedType
  <2>3. tor' = t
    BY WithdrawVoteOutcome
  <2> QED BY <2>2, <2>3, WithdrawVoteOutcome
<1>2. tor[k].unrelinquished - 1 \in Int
  BY DEF TypeInv, RealmTypes, RecordTypes, OwnerRecord
<1>3. /\ t \in [Records -> OwnerRecord]
      /\ \A j \in Records : t[j].exists = tor[j].exists
      /\ \A j \in Records : ~tor[j].exists => t[j] = tor[j]
  BY <1>1, <1>2, VoteCounted
<1> HIDE DEF q, t
<1>4. \A r \in Proposals : /\ (Exists(r)' <=> Exists(r))
                           /\ DOMAIN proposals'[r].options = DOMAIN proposals[r].options
                           /\ proposals'[r].mint = proposals[r].mint
  BY <1>1, ProposalUpdate
<1>5. VoteRecordTypes' /\ VotersExist'
  BY <1>1, <1>3, <1>4, VoteUpdate DEF NoVote
<1> QED BY <1>1, <1>3, <1>5, CountedTypes

LEMMA ReleaseVoteTypes ==
  ASSUME TypeInv, NEW p \in Proposals, NEW k \in Records, ReleaseVote(p, k)
  PROVE  TypeInv'
<1> DEFINE v == [votes[p][k] EXCEPT !.is_relinquished = TRUE]
           t == [tor EXCEPT ![k].unrelinquished = tor[k].unrelinquished - 1]
<1>1. /\ Exists(p) /\ tor[k].exists /\ tor' = t
      /\ UNCHANGED <<now, realm, tokens, holding, wallet, govs, gov, required,
                     proposals, signatories, txs>>
      /\ votes' = [votes EXCEPT ![p][k] = v]
  BY ReleaseVoteOutcome
<1>2. tor[k].unrelinquished - 1 \in Int
  BY DEF TypeInv, RealmTypes, RecordTypes, OwnerRecord
<1>3. /\ t \in [Records -> OwnerRecord]
      /\ \A j \in Records : t[j].exists = tor[j].exists
      /\ \A j \in Records : ~tor[j].exists => t[j] = tor[j]
  BY <1>1, <1>2, VoteCounted
<1>4. votes[p][k] \in VoteRecord /\ VoteFits(p, k)
  BY ReleaseVoteOutcome
<1>5. v \in VoteRecord /\ v.vote = votes[p][k].vote
  BY <1>4 DEF VoteRecord
<1> HIDE DEF t, v
<1>6. \A r \in Proposals : /\ (Exists(r)' <=> Exists(r))
                           /\ DOMAIN proposals'[r].options = DOMAIN proposals[r].options
                           /\ proposals'[r].mint = proposals[r].mint
  BY <1>1 DEF Exists
<1>7. VoteRecordTypes' /\ VotersExist'
  BY <1>1, <1>3, <1>4, <1>5, <1>6, VoteUpdate DEF VoteFits
<1>8. RealmTypes'
  BY <1>1, <1>3, CountStep DEF TypeInv
<1>9. GovTypes' /\ ProposalTypes' /\ TransactionTypes'
  BY <1>1 DEF TypeInv, GovTypes, GovernanceExists, ProposalTypes, Exists, TransactionTypes, Slots
<1> QED BY <1>7, <1>8, <1>9 DEF TypeInv

LEMMA CastVoteTypes ==
  ASSUME TypeInv, NEW p \in Proposals, NEW k \in Records, NEW s, NEW vote \in Votes,
         CastVote(p, k, s, vote)
  PROVE  TypeInv'
<1>1. /\ Exists(p) /\ tor[k].exists /\ ValidMint(k[1])
      /\ ValidVote(proposals[p], vote)
      /\ proposals[p].mint = MintForVote(k[1], VoteKind(vote))
      /\ UNCHANGED <<now, realm, tokens, holding, wallet, govs, required,
                     signatories, txs>>
  BY CastVoteOutcome
<1>2. PICK weight \in VoterWeights(k) :
        /\ weight \in Nat
        /\ WithVote(p, vote, weight) \in ProposalRecord
        /\ votes' = [votes EXCEPT ![p][k] =
             [exists |-> TRUE, vote |-> vote, weight |-> weight, is_relinquished |-> FALSE]]
        /\ \/ CastOnly(p, k, vote, weight)
           \/ \E max \in Nat, state \in {"Vetoed", "Succeeded", "Defeated"} :
                CastAndTip(p, k, vote, weight, max, state)
  BY CastVoteOutcome
<1> DEFINE v == [exists |-> TRUE, vote |-> vote, weight |-> weight, is_relinquished |-> FALSE]
           t == [tor EXCEPT ![k].unrelinquished = tor[k].unrelinquished + 1]
           q == WithVote(p, vote, weight)
<1>3. v \in VoteRecord /\ v.vote = vote
  BY <1>2 DEF VoteRecord
<1>4. tor[k].unrelinquished + 1 \in Int
  BY DEF TypeInv, RealmTypes, RecordTypes, OwnerRecord
<1>5. /\ t \in [Records -> OwnerRecord]
      /\ \A j \in Records : t[j].exists = tor[j].exists
      /\ \A j \in Records : ~tor[j].exists => t[j] = tor[j]
  BY <1>1, <1>4, VoteCounted
<1>6. /\ q \in ProposalRecord /\ q.mint = proposals[p].mint
      /\ DOMAIN q.options = DOMAIN proposals[p].options /\ q.owner = proposals[p].owner
  BY <1>1, <1>2, ProposalOf, TalliedType DEF WithVote, ValidVote
<1>7. q.owner \in Records
  BY <1>6 DEF ProposalRecord
<1>8. PICK r \in ProposalRecord, u \in [Records -> OwnerRecord] :
        /\ proposals' = [proposals EXCEPT ![p] = r] /\ tor' = u
        /\ r.mint = proposals[p].mint /\ DOMAIN r.options = DOMAIN proposals[p].options
        /\ \A j \in Records : u[j].exists = tor[j].exists
        /\ \A j \in Records : ~tor[j].exists => u[j] = tor[j]
        /\ gov' = gov \/ gov' = [gov EXCEPT !.active_proposal_count = Minus(@, 1)]
  <2>1. CASE CastOnly(p, k, vote, weight)
    <3>1. proposals' = [proposals EXCEPT ![p] = q] /\ tor' = t /\ gov' = gov
      BY <2>1 DEF CastOnly
    <3> HIDE DEF q, t
    <3> QED BY <1>5, <1>6, <3>1
  <2>2. ASSUME NEW max \in Nat, NEW state \in {"Vetoed", "Succeeded", "Defeated"},
               CastAndTip(p, k, vote, weight, max, state)
        PROVE  \E r \in ProposalRecord, u \in [Records -> OwnerRecord] :
        /\ proposals' = [proposals EXCEPT ![p] = r] /\ tor' = u
        /\ r.mint = proposals[p].mint /\ DOMAIN r.options = DOMAIN proposals[p].options
        /\ \A j \in Records : u[j].exists = tor[j].exists
        /\ \A j \in Records : ~tor[j].exists => u[j] = tor[j]
        /\ gov' = gov \/ gov' = [gov EXCEPT !.active_proposal_count = Minus(@, 1)]
    <3> DEFINE threshold == VoteThreshold(gov.config, k[1] = Council, VoteKind(vote))
               tipping == VoteTipping(gov.config, k[1] = Council)
               r == TippedRecord(q, state, now, max, threshold, tipping)
               u == [t EXCEPT ![proposals[p].owner] = DecreaseOutstanding(@)]
    <3>1. proposals' = [proposals EXCEPT ![p] = r] /\ tor' = u
          /\ gov' = [gov EXCEPT !.active_proposal_count = Minus(@, 1)]
      BY <2>2 DEF CastAndTip
    <3>2. threshold \in Thresholds /\ tipping \in Tippings /\ now \in Nat
      <4>1. now \in Nat
        BY RealmNumbers DEF TypeInv, RealmTypes
      <4>2. GovernanceExists /\ (k[1] = Council) \in BOOLEAN
        BY <1>1, ProposalOf
      <4> QED BY <4>1, <4>2, ThresholdType
    <3> HIDE DEF q, t, threshold, tipping
    <3>3. r \in ProposalRecord /\ DOMAIN r.options = DOMAIN q.options /\ r.mint = q.mint
      <4>1. q \in ProposalRecord
        BY <1>6
      <4> QED BY <3>2, <4>1, TippedType
    <3>4. \A j \in Records : ~t[j].exists => t[j] = NoRecord
      BY <1>5 DEF TypeInv, RealmTypes, RecordTypes
    <3>5. /\ u \in [Records -> OwnerRecord]
          /\ \A j \in Records : u[j].exists = t[j].exists
          /\ \A j \in Records : ~t[j].exists => u[j] = t[j]
      BY <1>5, <1>6, <1>7, <3>4, OutstandingDecreased
    <3> HIDE DEF r, u
    <3> QED BY <1>5, <1>6, <3>1, <3>3, <3>5
  <2> QED BY <1>2, <2>1, <2>2
<1>9. \A x \in Proposals : /\ (Exists(x)' <=> Exists(x))
                           /\ DOMAIN proposals'[x].options = DOMAIN proposals[x].options
                           /\ proposals'[x].mint = proposals[x].mint
  <2>1. /\ proposals' = [proposals EXCEPT ![p] = r] /\ r.mint = proposals[p].mint
        /\ DOMAIN r.options = DOMAIN proposals[p].options /\ UNCHANGED govs /\ Exists(p)
    BY <1>1, <1>8
  <2> QED BY <2>1, ProposalUpdate
<1> HIDE DEF q, t
<1>10. VoteRecordTypes' /\ VotersExist'
  <2>1. votes' = [votes EXCEPT ![p][k] = v]
    BY <1>2
  <2> HIDE DEF v
  <2> QED BY <1>1, <1>3, <1>8, <1>9, <2>1, VoteUpdate DEF ValidVote
<1> QED BY <1>1, <1>8, <1>10, CountedTypes

\* The record of a new proposal.
Drafted(k, args) ==
  [state |-> "Draft", mint |-> args.mint, owner |-> k,
   vote_type |-> args.vote_type, use_deny |-> args.use_deny,
   options |-> [i \in 1..args.options |-> NewOption],
   deny_vote_weight |-> 0, veto_vote_weight |-> 0,
   signatories_count |-> 0, signed_off_count |-> 0,
   voting_at |-> 0, voting_completed_at |-> 0,
   max_vote_weight |-> 0, vote_threshold |-> Disabled, tipping |-> "Disabled",
   deposit |-> ProposalDepositAmount(gov.active_proposal_count + 1, gov.config)]

NoTransactions(n) == [x \in (1..n) \X (0..MaxTransactions-1) |-> NoTransaction]

LEMMA CreateProposalOutcome ==
  ASSUME TypeInv, NEW p \in Proposals, NEW k \in Records, NEW s, NEW args \in ProposalArgs,
         CreateProposal(p, k, s, args)
  PROVE  /\ GovernanceExists /\ ~Exists(p) /\ tor[k].exists
         /\ Drafted(k, args) \in ProposalRecord
         /\ DOMAIN Drafted(k, args).options = 1..args.options
         /\ \A i \in 1..args.options : Drafted(k, args).options[i] = NewOption
         /\ proposals' = [proposals EXCEPT ![p] = Drafted(k, args)]
         /\ tor[k].outstanding + 1 \in 0..MaxOutstanding
         /\ tor' = [tor EXCEPT ![k].outstanding = tor[k].outstanding + 1]
         /\ gov' = [gov EXCEPT !.active_proposal_count = @ + 1]
         /\ txs' = [txs EXCEPT ![p] = NoTransactions(args.options)]
         /\ UNCHANGED <<now, realm, tokens, holding, wallet, govs, required, signatories, votes>>
<1>1. /\ GovernanceExists /\ ~Exists(p) /\ tor[k].exists
      /\ tor[k].outstanding < MaxOutstanding
      /\ args.options \in 1..MaxOptions
  BY DEF CreateProposal, OwnerOrDelegateSigns, CanCreateProposal, ValidOptions
<1>2. gov.config \in GovernanceConfigArgs /\ gov.active_proposal_count \in Nat
  BY <1>1 DEF TypeInv, GovTypes, GovernanceRecord
<1>3. ProposalDepositAmount(gov.active_proposal_count + 1, gov.config) \in Nat
  BY <1>2 DEF ProposalDepositAmount, Minus, GovernanceConfigArgs
<1>4. [i \in 1..args.options |-> NewOption] \in OptionLists
  <2>1. NewOption \in ProposalOption
    BY DEF NewOption, ProposalOption, VoteResults
  <2> QED BY <1>1, <2>1 DEF OptionLists
<1>5. args.mint \in GoverningMints /\ args.vote_type \in VoteTypes /\ args.use_deny \in BOOLEAN
  BY GovernanceAssumption
<1>6. Drafted(k, args) \in ProposalRecord
  BY <1>3, <1>4, <1>5 DEF Drafted, ProposalRecord, ProposalStates, Thresholds, Tippings
<1>7. DOMAIN Drafted(k, args).options = 1..args.options
      /\ \A i \in 1..args.options : Drafted(k, args).options[i] = NewOption
  BY DEF Drafted
<1>8. tor[k].outstanding + 1 \in 0..MaxOutstanding
  BY <1>1 DEF TypeInv, RealmTypes, RecordTypes, OwnerRecord, MaxOutstanding
<1>9. /\ proposals' = [proposals EXCEPT ![p] = Drafted(k, args)]
      /\ txs' = [txs EXCEPT ![p] = NoTransactions(args.options)]
  BY DEF CreateProposal, Drafted, NoTransactions
<1>10. tor' = [tor EXCEPT ![k].outstanding = tor[k].outstanding + 1]
  BY DEF CreateProposal
<1>11. /\ gov' = [gov EXCEPT !.active_proposal_count = @ + 1]
       /\ UNCHANGED <<now, realm, tokens, holding, wallet, govs, required, signatories, votes>>
  BY DEF CreateProposal
<1> QED BY <1>1, <1>6, <1>7, <1>8, <1>9, <1>10, <1>11, Zenon

LEMMA CreateProposalTypes ==
  ASSUME TypeInv, NEW p \in Proposals, NEW k \in Records, NEW s, NEW args \in ProposalArgs,
         CreateProposal(p, k, s, args)
  PROVE  TypeInv'
<1> DEFINE q == Drafted(k, args)
           d == [tor[k] EXCEPT !.outstanding = tor[k].outstanding + 1]
<1>1. /\ GovernanceExists /\ ~Exists(p) /\ tor[k].exists /\ q \in ProposalRecord
      /\ DOMAIN q.options = 1..args.options
      /\ proposals' = [proposals EXCEPT ![p] = q]
      /\ tor[k].outstanding + 1 \in 0..MaxOutstanding
      /\ tor' = [tor EXCEPT ![k] = d]
      /\ gov' = [gov EXCEPT !.active_proposal_count = @ + 1]
      /\ txs' = [txs EXCEPT ![p] = NoTransactions(args.options)]
      /\ UNCHANGED <<now, realm, tokens, holding, wallet, govs, required, signatories, votes>>
  <2>1. tor' = [tor EXCEPT ![k].outstanding = tor[k].outstanding + 1]
    BY CreateProposalOutcome
  <2>2. tor' = [tor EXCEPT ![k] = d]
    BY <2>1
  <2>3. /\ GovernanceExists /\ ~Exists(p) /\ tor[k].exists /\ q \in ProposalRecord
        /\ DOMAIN q.options = 1..args.options
        /\ tor[k].outstanding + 1 \in 0..MaxOutstanding
    BY CreateProposalOutcome
  <2>4. /\ proposals' = [proposals EXCEPT ![p] = q]
        /\ gov' = [gov EXCEPT !.active_proposal_count = @ + 1]
        /\ txs' = [txs EXCEPT ![p] = NoTransactions(args.options)]
    BY CreateProposalOutcome
  <2>5. UNCHANGED <<now, realm, tokens, holding, wallet, govs, required, signatories, votes>>
    BY CreateProposalOutcome
  <2> HIDE DEF q, d
  <2> QED BY <2>2, <2>3, <2>4, <2>5
<1>2. d \in OwnerRecord /\ d.exists = tor[k].exists
  BY <1>1 DEF TypeInv, RealmTypes, RecordTypes, OwnerRecord
<1> HIDE DEF q, d
<1>3. RealmTypes'
  <2>1. RecordTypes'
    BY <1>1, <1>2, RecordStep DEF TypeInv, RealmTypes
  <2> QED BY <1>1, <2>1 DEF TypeInv, RealmTypes, ConfigTypes, BalanceTypes
<1>4. GovTypes'
  <2>1. gov' \in GovernanceRecord /\ gov'.config = gov.config
    BY <1>1 DEF TypeInv, GovTypes, GovernanceRecord
  <2> QED BY <1>1, <2>1 DEF TypeInv, GovTypes, GovernanceExists
<1>5. /\ proposals'[p] = q /\ q.state # "None"
      /\ \A r \in Proposals : r # p => proposals'[r] = proposals[r]
      /\ proposals' \in [Proposals -> {NoProposal} \cup ProposalRecord]
  BY <1>1 DEF TypeInv, ProposalTypes, ProposalRecord, ProposalStates
<1>6. ProposalTypes'
  BY <1>1, <1>5 DEF TypeInv, ProposalTypes, Exists, GovernanceExists
<1>7. \A r \in Proposals : r # p => (Exists(r)' <=> Exists(r))
  BY <1>5 DEF Exists
<1>8. VoteRecordTypes'
  <2>1. \A j \in Records : ~votes[p][j].exists
    BY <1>1 DEF TypeInv, VoteRecordTypes, NoVote
  <2>2. \A r \in Proposals, j \in Records : votes'[r][j].exists => VoteFits(r, j)'
    BY <1>1, <1>5, <2>1 DEF TypeInv, VoteRecordTypes, VoteFits
  <2>3. \A r \in Proposals : ~Exists(r)' => \A j \in Records : votes'[r][j] = NoVote
    BY <1>1, <1>5, <1>7 DEF TypeInv, VoteRecordTypes, Exists
  <2> QED BY <1>1, <2>2, <2>3 DEF TypeInv, VoteRecordTypes
<1>9. VotersExist'
  <2>1. \A j \in Records : tor'[j].exists = tor[j].exists
    BY <1>1, <1>2 DEF TypeInv, RealmTypes, RecordTypes
  <2> QED BY <1>1, <2>1 DEF TypeInv, VotersExist
<1>10. TransactionTypes'
  <2>1. /\ DOMAIN txs' = Proposals
        /\ \A r \in Proposals : r # p => txs'[r] = txs[r]
        /\ txs'[p] = NoTransactions(args.options)
    BY <1>1 DEF TypeInv, TransactionTypes
  <2>2. Slots(p)' = (1..args.options) \X (0..MaxTransactions-1)
    BY <1>1, <1>5 DEF Slots
  <2>3. \A r \in Proposals : r # p => Slots(r)' = Slots(r)
    BY <1>5 DEF Slots
  <2>4. txs'[p] \in [Slots(p)' -> {NoTransaction} \cup TransactionRecord]
    BY <2>1, <2>2 DEF NoTransactions
  <2> QED BY <1>7, <2>1, <2>3, <2>4 DEF TypeInv, TransactionTypes
<1> QED BY <1>3, <1>4, <1>6, <1>8, <1>9, <1>10 DEF TypeInv

-----------------------------------------------------------------------------
(* Types: execution, and the steps of the realm *)

\* What an instruction of an executed transaction does to the realm and the governance.
LEMMA PerformStep ==
  ASSUME TypeInv, GovernanceExists, NEW x \in Instructions, Perform(x)
  PROVE  /\ RealmTypes' /\ CountersKept /\ (Backed => Backed') /\ govs' = govs
         /\ GovTypes'
         /\ gov'.active_proposal_count = gov.active_proposal_count
<1>0. RealmTypes /\ GovTypes /\ gov \in GovernanceRecord
  BY DEF TypeInv, GovTypes
<1>1. ASSUME UNCHANGED realmVars
      PROVE  RealmTypes' /\ CountersKept /\ (Backed => Backed') /\ govs' = govs
  <2>1. ConfigTypes'
    BY <1>0, <1>1 DEF RealmTypes, ConfigTypes, realmVars
  <2> QED BY <1>0, <1>1, <2>1, ConfigStep DEF realmVars
<1>2. CASE x.kind = "external" /\ UNCHANGED <<realmVars, gov, required>>
  <2>1. GovTypes'
    BY <1>0, <1>2 DEF GovTypes, GovernanceExists, realmVars
  <2> QED BY <1>1, <1>2, <2>1
<1>3. CASE x.kind = "SetGovernanceConfig" /\ SetGovernanceConfig(x.config)
  <2>1. /\ x.config \in GovernanceConfigArgs /\ ValidGovernanceConfig(x.config)
        /\ gov' = [gov EXCEPT !.config = x.config] /\ UNCHANGED <<realmVars, required>>
    BY <1>3, GovernanceAssumption DEF SetGovernanceConfig
  <2>2. /\ gov' \in GovernanceRecord /\ gov'.config = x.config
        /\ gov'.active_proposal_count = gov.active_proposal_count
    BY <1>0, <2>1 DEF GovernanceRecord
  <2> QED BY <1>0, <1>1, <2>1, <2>2 DEF GovTypes, GovernanceExists, realmVars
<1>4. CASE x.kind = "AddRequiredSignatory" /\ AddRequiredSignatory(x.signatory)
  <2>1. /\ x.signatory \in Signatories /\ required' = required \cup {x.signatory}
        /\ gov' = [gov EXCEPT !.required_signatories_count = @ + 1] /\ UNCHANGED realmVars
    BY <1>4, GovernanceAssumption DEF AddRequiredSignatory
  <2>2. /\ gov' \in GovernanceRecord /\ gov'.config = gov.config
        /\ gov'.active_proposal_count = gov.active_proposal_count
    BY <1>0, <2>1 DEF GovernanceRecord
  <2> QED BY <1>0, <1>1, <2>1, <2>2 DEF GovTypes, GovernanceExists, realmVars
<1>5. CASE x.kind = "RemoveRequiredSignatory" /\ RemoveRequiredSignatory(x.signatory)
  <2>1. /\ required' = required \ {x.signatory}
        /\ gov' = [gov EXCEPT !.required_signatories_count = @ - 1] /\ UNCHANGED realmVars
    BY <1>5 DEF RemoveRequiredSignatory
  <2>2. /\ gov' \in GovernanceRecord /\ gov'.config = gov.config
        /\ gov'.active_proposal_count = gov.active_proposal_count
    BY <1>0, <2>1 DEF GovernanceRecord
  <2> QED BY <1>0, <1>1, <2>1, <2>2 DEF GovTypes, GovernanceExists, realmVars
<1>6. CASE /\ x.kind = "SetRealmConfig" /\ SetRealmConfig(GovernanceAccount, x.args)
           /\ UNCHANGED <<gov, required>>
  <2>1. x.args \in RealmConfigArgs
    BY <1>6, GovernanceAssumption
  <2>2. RealmTypes' /\ CountersKept /\ (Backed => Backed')
    BY <1>0, <1>6, <2>1, SetRealmConfigStep
  <2>3. govs' = govs
    BY <1>6 DEF SetRealmConfig
  <2>4. GovTypes'
    BY <1>0, <1>6, <2>3 DEF GovTypes, GovernanceExists
  <2> QED BY <1>6, <2>2, <2>3, <2>4
<1> QED BY <1>2, <1>3, <1>4, <1>5, <1>6 DEF Perform

\* The proposal after a transaction of option i is executed.
ExecutedOption(o) == [o EXCEPT !.transactions_executed_count = @ + 1]

WinnersExecuted(opts) ==
  \A j \in DOMAIN opts : opts[j].vote_result = "Succeeded" =>
    opts[j].transactions_executed_count = opts[j].transactions_count

LEMMA AfterExecutionOf ==
  ASSUME TypeInv, NEW p \in Proposals, Exists(p), NEW i \in DOMAIN proposals[p].options
  PROVE  LET q == proposals[p]
             o == ExecutedOption(q.options[i])
             r == AfterExecution(q, i)
         IN  /\ r \in ProposalRecord
             /\ r.options = [q.options EXCEPT ![i] = o]
             /\ DOMAIN r.options = DOMAIN q.options
             /\ o \in ProposalOption
             /\ o.transactions_executed_count = q.options[i].transactions_executed_count + 1
             /\ o.transactions_count = q.options[i].transactions_count
             /\ o.vote_result = q.options[i].vote_result
             /\ o.vote_weight = q.options[i].vote_weight
             /\ r.state = IF WinnersExecuted(r.options) THEN "Completed" ELSE "Executing"
             /\ r.mint = q.mint /\ r.owner = q.owner /\ r.tipping = q.tipping
             /\ r.use_deny = q.use_deny /\ r.vote_type = q.vote_type
             /\ r.deny_vote_weight = q.deny_vote_weight
             /\ r.veto_vote_weight = q.veto_vote_weight
             /\ r.max_vote_weight = q.max_vote_weight
             /\ r.vote_threshold = q.vote_threshold
<1> DEFINE q == proposals[p]
           old == q.options[i]
           o == ExecutedOption(old)
           opts == [q.options EXCEPT ![i] = o]
           t == [q EXCEPT !.options[i] = o]
           final == IF WinnersExecuted(opts) THEN "Completed" ELSE "Executing"
           r == [t EXCEPT !.state = final]
<1>1. old \in ProposalOption /\ q \in ProposalRecord
  BY ProposalOf, OptionListOf
<1>2. /\ o \in ProposalOption
      /\ o.transactions_executed_count = old.transactions_executed_count + 1
      /\ o.transactions_count = old.transactions_count
      /\ o.vote_result = old.vote_result /\ o.vote_weight = old.vote_weight
  <2> HIDE DEF old
  <2> QED BY <1>1 DEF ProposalOption, ExecutedOption
<1>3. [q EXCEPT !.options[i].transactions_executed_count = @ + 1] = t
  BY DEF ExecutedOption
<1> HIDE DEF old, o
<1>4. t \in ProposalRecord /\ DOMAIN t.options = DOMAIN q.options /\ t.options = opts
  BY <1>2, OptionUpdate
<1>5. /\ t.mint = q.mint /\ t.owner = q.owner /\ t.tipping = q.tipping
      /\ t.use_deny = q.use_deny /\ t.vote_type = q.vote_type
      /\ t.deny_vote_weight = q.deny_vote_weight
      /\ t.veto_vote_weight = q.veto_vote_weight
      /\ t.max_vote_weight = q.max_vote_weight /\ t.vote_threshold = q.vote_threshold
  BY <1>1 DEF ProposalRecord
<1>6. AfterExecution(q, i) = r
  BY <1>3, <1>4 DEF AfterExecution, WinnersExecuted
<1>7. final \in ProposalStates
  BY DEF ProposalStates
<1> HIDE DEF t, opts, final, q
<1>8. /\ r \in ProposalRecord /\ r.options = t.options /\ r.state = final
      /\ r.mint = t.mint /\ r.owner = t.owner /\ r.tipping = t.tipping
      /\ r.use_deny = t.use_deny /\ r.vote_type = t.vote_type
      /\ r.deny_vote_weight = t.deny_vote_weight
      /\ r.veto_vote_weight = t.veto_vote_weight
      /\ r.max_vote_weight = t.max_vote_weight /\ r.vote_threshold = t.vote_threshold
  BY <1>4, <1>7 DEF ProposalRecord
<1> HIDE DEF r
<1>9. final = IF WinnersExecuted(r.options) THEN "Completed" ELSE "Executing"
  BY <1>4, <1>8 DEF final
<1>10. r.options = opts /\ DOMAIN r.options = DOMAIN q.options
  BY <1>4, <1>8
<1> QED BY <1>2, <1>5, <1>6, <1>8, <1>9, <1>10 DEF q, old, o, opts

LEMMA ExecuteTransactionTypes ==
  ASSUME TypeInv, NEW p \in Proposals, NEW i, NEW n, ExecuteTransaction(p, i, n)
  PROVE  /\ TypeInv' /\ CountersKept /\ (Backed => Backed')
         /\ gov'.active_proposal_count = gov.active_proposal_count
<1> DEFINE r == AfterExecution(proposals[p], i)
           t == [txs[p][<<i, n>>] EXCEPT !.executed = TRUE]
<1>1. /\ Exists(p) /\ <<i, n>> \in Slots(p) /\ GovernanceExists
      /\ txs[p][<<i, n>>].exists
      /\ Perform(txs[p][<<i, n>>].instruction)
      /\ proposals' = [proposals EXCEPT ![p] = r]
      /\ txs' = [txs EXCEPT ![p][<<i, n>>] = t]
      /\ UNCHANGED <<signatories, votes>>
  <2>1. /\ Exists(p) /\ <<i, n>> \in Slots(p) /\ txs[p][<<i, n>>].exists
        /\ Perform(txs[p][<<i, n>>].instruction)
        /\ proposals' = [proposals EXCEPT ![p] = r]
        /\ txs' = [txs EXCEPT ![p][<<i, n>>].executed = TRUE]
        /\ UNCHANGED <<signatories, votes>>
    BY Zenon DEF ExecuteTransaction
  <2>2. txs' = [txs EXCEPT ![p][<<i, n>>] = t]
    BY <2>1
  <2> HIDE DEF r, t
  <2> QED BY <2>1, <2>2, ProposalOf
<1>2. i \in DOMAIN proposals[p].options
  BY <1>1 DEF Slots
<1>3. txs[p][<<i, n>>] \in TransactionRecord
  BY <1>1 DEF TypeInv, TransactionTypes, NoTransaction
<1>4. t \in TransactionRecord /\ txs[p][<<i, n>>].instruction \in Instructions
  BY <1>3 DEF TransactionRecord
<1>5. /\ RealmTypes' /\ CountersKept /\ (Backed => Backed') /\ govs' = govs /\ GovTypes'
      /\ gov'.active_proposal_count = gov.active_proposal_count
  BY <1>1, <1>4, PerformStep
<1>6. r \in ProposalRecord /\ DOMAIN r.options = DOMAIN proposals[p].options
      /\ r.mint = proposals[p].mint
  BY <1>1, <1>2, AfterExecutionOf
<1> HIDE DEF r, t
<1>7. /\ ProposalTypes' /\ VoteRecordTypes'
      /\ \A x \in Proposals : (Exists(x)' <=> Exists(x))
      /\ \A x \in Proposals : Exists(x) => Slots(x)' = Slots(x)
  BY <1>1, <1>5, <1>6, ProposalUpdate
<1>8. TransactionTypes'
  BY <1>1, <1>4, <1>7, SlotUpdate
<1>9. VotersExist'
  BY <1>1, <1>5 DEF TypeInv, VotersExist, CountersKept
<1> QED BY <1>5, <1>7, <1>8, <1>9 DEF TypeInv

\* Every step of the realm itself.
LEMMA RealmStepKept ==
  ASSUME RealmTypes, RealmStep
  PROVE  RealmTypes' /\ CountersKept /\ (Backed => Backed') /\ govs' = govs
<1> DEFINE Kept == RealmTypes' /\ CountersKept /\ (Backed => Backed')
<1>1. ASSUME NEW k \in Records, CreateTokenOwnerRecord(k) PROVE Kept /\ govs' = govs
  BY <1>1, CreateTokenOwnerRecordStep DEF CreateTokenOwnerRecord
<1>2. ASSUME NEW k \in Records, WithdrawGoverningTokens(k) PROVE Kept /\ govs' = govs
  BY <1>2, WithdrawGoverningTokensStep DEF WithdrawGoverningTokens
<1>3. ASSUME NEW k \in Records, NEW amount \in Amounts, NEW minted \in BOOLEAN,
             DepositGoverningTokens(k, amount, minted)
      PROVE  Kept /\ govs' = govs
  BY <1>3, DepositGoverningTokensStep DEF DepositGoverningTokens
<1>4. ASSUME NEW k \in Records, NEW s, NEW amount \in Amounts,
             RevokeGoverningTokens(k, s, amount)
      PROVE  Kept /\ govs' = govs
  BY <1>4, RevokeGoverningTokensStep DEF RevokeGoverningTokens
<1>5. ASSUME NEW k \in Records, NEW s, NEW d \in Delegates \cup {None},
             SetGovernanceDelegate(k, s, d)
      PROVE  Kept /\ govs' = govs
  BY <1>5, SetGovernanceDelegateStep DEF SetGovernanceDelegate
<1>6. ASSUME NEW k \in Records, NEW lock \in Locks, SetTokenOwnerRecordLock(k, lock)
      PROVE  Kept /\ govs' = govs
  BY <1>6, SetTokenOwnerRecordLockStep DEF SetTokenOwnerRecordLock
<1>7. ASSUME NEW k \in Records, NEW a, NEW s, NEW ids,
             RelinquishTokenOwnerRecordLocks(k, a, s, ids)
      PROVE  Kept /\ govs' = govs
  BY <1>7, RelinquishTokenOwnerRecordLocksStep DEF RelinquishTokenOwnerRecordLocks
<1>8. ASSUME NEW s, NEW args \in RealmConfigs, SetRealmConfig(s, args)
      PROVE  Kept /\ govs' = govs
  <2>1. args \in RealmConfigArgs
    BY RealmArgsAssumption
  <2>2. govs' = govs
    BY <1>8 DEF SetRealmConfig
  <2> QED BY <1>8, <2>1, <2>2, SetRealmConfigStep
<1>9. ASSUME NEW s, NEW m \in GoverningMints, NEW a \in LockAuthorities,
             AddLockAuthority(s, m, a) \/ RemoveLockAuthority(s, m, a)
      PROVE  Kept /\ govs' = govs
  BY <1>9, AddLockAuthorityStep, RemoveLockAuthorityStep
     DEF AddLockAuthority, RemoveLockAuthority
<1>10. ASSUME NEW s, NEW action, NEW new \in {None} \cup NewAuthorities,
              SetRealmAuthority(s, action, new)
       PROVE  Kept /\ govs' = govs
  BY <1>10, SetRealmAuthorityStep DEF SetRealmAuthority
<1>11. ASSUME NEW m \in GoverningMints, NEW amount \in Amounts, TransferToHolding(m, amount)
       PROVE  Kept /\ govs' = govs
  BY <1>11, TransferToHoldingStep DEF TransferToHolding
<1>12. Tick => Kept /\ govs' = govs
  BY TickStep DEF Tick
<1>13. \A id \in LockIds, a \in LockAuthorities :
         /\ \A t \in LockTerms : [id |-> id, authority |-> a, expiry |-> now + t] \in Locks
         /\ [id |-> id, authority |-> a, expiry |-> NeverExpires] \in Locks
  BY RealmNumbers, RealmAssumption DEF RealmTypes, Locks
<1>14. CASE \E k \in Records :
              \/ CreateTokenOwnerRecord(k) \/ WithdrawGoverningTokens(k)
              \/ \E amount \in Amounts :
                   \/ DepositGoverningTokens(k, amount, TRUE)
                   \/ DepositGoverningTokens(k, amount, FALSE)
                   \/ RevokeGoverningTokens(k, k[2], amount)
                   \/ RevokeGoverningTokens(k, MintAuthority, amount)
              \/ \E s \in Voters, d \in Delegates \cup {None} : SetGovernanceDelegate(k, s, d)
              \/ \E id \in LockIds, a \in LockAuthorities :
                   \/ \E t \in LockTerms : SetTokenOwnerRecordLock(k,
                        [id |-> id, authority |-> a, expiry |-> now + t])
                   \/ SetTokenOwnerRecordLock(k,
                        [id |-> id, authority |-> a, expiry |-> NeverExpires])
                   \/ \E s \in Owners \cup LockAuthorities :
                        RelinquishTokenOwnerRecordLocks(k, a, s, {id})
              \/ \E a \in LockAuthorities : RelinquishTokenOwnerRecordLocks(k, a, a, {})
  <2> HIDE DEF Kept
  <2> QED BY <1>1, <1>2, <1>3, <1>4, <1>5, <1>6, <1>7, <1>13, <1>14, Zenon DEF Kept
<1>15. CASE \E s \in {RealmAuthority} \cup NewAuthorities :
         /\ s # GovernanceAccount
         /\ \/ \E args \in RealmConfigs : SetRealmConfig(s, args)
            \/ \E m \in GoverningMints, a \in LockAuthorities :
                 AddLockAuthority(s, m, a) \/ RemoveLockAuthority(s, m, a)
            \/ \E new \in NewAuthorities, action \in {"SetUnchecked", "SetChecked"} :
                 SetRealmAuthority(s, action, new)
            \/ NewAuthorities # {} /\ SetRealmAuthority(s, "Remove", None)
  <2>1. None \in {None} \cup NewAuthorities /\ NewAuthorities \subseteq {None} \cup NewAuthorities
    OBVIOUS
  <2> HIDE DEF Kept
  <2> QED BY <1>8, <1>9, <1>10, <1>15, <2>1, Zenon DEF Kept
<1> HIDE DEF Kept
<1> QED BY <1>11, <1>12, <1>14, <1>15, Zenon DEF RealmStep, Kept

-----------------------------------------------------------------------------
(* Type correctness, and the backing of the deposits *)

\* What a handler of a proposal leaves of the realm.
DepositsKept ==
  /\ \A k \in Records : tor'[k].deposit = tor[k].deposit
  /\ UNCHANGED <<now, tokens, holding, wallet>>

LEMMA DepositsKeptBacked == DepositsKept => (Backed => Backed')
<1> SUFFICES ASSUME DepositsKept, Backed PROVE Backed'
  OBVIOUS
<1>1. \A m \in GoverningMints : Deposited(m)' = Deposited(m)
  BY SameDeposits DEF DepositsKept
<1> QED BY <1>1 DEF Backed, DepositsKept

LEMMA RealmVarsKept == UNCHANGED realmVars => DepositsKept
BY DEF realmVars, DepositsKept

LEMMA CreateGovernanceKept ==
  ASSUME NEW s, NEW k, NEW config, CreateGovernance(s, k, config)
  PROVE  DepositsKept
BY DEF CreateGovernance, AddGovernance, DepositsKept

LEMMA CreateProposalKept ==
  ASSUME TypeInv, NEW p \in Proposals, NEW k \in Records, NEW s, NEW args \in ProposalArgs,
         CreateProposal(p, k, s, args)
  PROVE  DepositsKept
<1>1. /\ tor' = [tor EXCEPT ![k].outstanding = tor[k].outstanding + 1]
      /\ UNCHANGED <<now, tokens, holding, wallet>>
  BY DEF CreateProposal
<1> QED BY <1>1 DEF DepositsKept, TypeInv, RealmTypes, RecordTypes, OwnerRecord

LEMMA WithdrawVoteKept ==
  ASSUME TypeInv, NEW p \in Proposals, NEW k \in Records, NEW s, WithdrawVote(p, k, s)
  PROVE  DepositsKept
<1>1. /\ tor' = [tor EXCEPT ![k].unrelinquished = @ - 1]
      /\ UNCHANGED <<now, tokens, holding, wallet>>
  BY WithdrawVoteOutcome
<1> QED BY <1>1 DEF DepositsKept, TypeInv, RealmTypes, RecordTypes, OwnerRecord

LEMMA ReleaseVoteKept ==
  ASSUME TypeInv, NEW p \in Proposals, NEW k \in Records, ReleaseVote(p, k)
  PROVE  DepositsKept
<1>1. /\ tor' = [tor EXCEPT ![k].unrelinquished = @ - 1]
      /\ UNCHANGED <<now, tokens, holding, wallet>>
  BY ReleaseVoteOutcome
<1> QED BY <1>1 DEF DepositsKept, TypeInv, RealmTypes, RecordTypes, OwnerRecord

LEMMA OwnerReleasedKept ==
  ASSUME TypeInv, NEW k \in Records, tor' = [tor EXCEPT ![k] = DecreaseOutstanding(@)],
         UNCHANGED <<now, tokens, holding, wallet>>
  PROVE  DepositsKept
BY OwnerReleased DEF DepositsKept

LEMMA CastVoteKept ==
  ASSUME TypeInv, NEW p \in Proposals, NEW k \in Records, NEW s, NEW vote \in Votes,
         CastVote(p, k, s, vote)
  PROVE  DepositsKept
<1>1. Exists(p) /\ tor[k].exists /\ UNCHANGED <<now, tokens, holding, wallet>>
  BY CastVoteOutcome
<1>2. PICK weight : CastOnly(p, k, vote, weight)
                    \/ \E max, state : CastAndTip(p, k, vote, weight, max, state)
  BY CastVoteOutcome
<1> DEFINE t == [tor EXCEPT ![k].unrelinquished = tor[k].unrelinquished + 1]
<1>3. /\ t \in [Records -> OwnerRecord]
      /\ \A j \in Records : t[j].deposit = tor[j].deposit
      /\ \A j \in Records : ~t[j].exists => t[j] = NoRecord
  <2>1. tor[k].unrelinquished + 1 \in Int
    BY DEF TypeInv, RealmTypes, RecordTypes, OwnerRecord
  <2>2. /\ t \in [Records -> OwnerRecord]
        /\ \A j \in Records : t[j].exists = tor[j].exists
        /\ \A j \in Records : ~tor[j].exists => t[j] = tor[j]
        /\ \A j \in Records : j # k => t[j] = tor[j]
        /\ t[k].deposit = tor[k].deposit
    BY <1>1, <2>1, VoteCounted
  <2> HIDE DEF t
  <2>3. \A j \in Records : t[j].deposit = tor[j].deposit
    BY <2>2
  <2> QED BY <2>2, <2>3 DEF TypeInv, RealmTypes, RecordTypes
<1>4. CASE CastOnly(p, k, vote, weight)
  <2>1. tor' = t
    BY <1>4 DEF CastOnly
  <2> HIDE DEF t
  <2> QED BY <1>1, <1>3, <2>1 DEF DepositsKept
<1>5. ASSUME NEW max, NEW state, CastAndTip(p, k, vote, weight, max, state)
      PROVE  DepositsKept
  <2>1. tor' = [t EXCEPT ![proposals[p].owner] = DecreaseOutstanding(@)]
    BY <1>5 DEF CastAndTip
  <2>2. proposals[p].owner \in Records
    BY <1>1, ProposalOf DEF ProposalRecord
  <2> HIDE DEF t
  <2>3. \A j \in Records : tor'[j].deposit = t[j].deposit
    BY <1>3, <2>1, <2>2, OutstandingDecreased
  <2> QED BY <1>1, <1>3, <2>3 DEF DepositsKept
<1> QED BY <1>2, <1>4, <1>5

LEMMA FinalizeVoteKept ==
  ASSUME TypeInv, NEW p \in Proposals, FinalizeVote(p)
  PROVE  DepositsKept
<1>1. proposals[p].owner \in Records
  BY FinalizeVoteOutcome, ProposalOf DEF ProposalRecord
<1> QED BY <1>1, FinalizeVoteOutcome, OwnerReleasedKept

LEMMA CancelProposalKept ==
  ASSUME TypeInv, NEW p \in Proposals, NEW s, CancelProposal(p, s)
  PROVE  DepositsKept
<1>1. proposals[p].owner \in Records
  BY CancelProposalOutcome, ProposalOf DEF ProposalRecord
<1> QED BY <1>1, CancelProposalOutcome, OwnerReleasedKept

\* Every step keeps the types, and no step takes from a holding account what
\* deposits need.
LEMMA NextTypes ==
  ASSUME TypeInv, [Next]_vars
  PROVE  TypeInv' /\ (Backed => Backed')
<1> DEFINE Kept == TypeInv' /\ (Backed => Backed')
<1> SUFFICES Kept
  OBVIOUS
<1>1. ASSUME RealmStep, UNCHANGED govVars PROVE Kept
  <2>1. RealmTypes' /\ CountersKept /\ (Backed => Backed') /\ govs' = govs
    BY <1>1, RealmStepKept DEF TypeInv
  <2> QED BY <1>1, <2>1, GovernanceKept
<1>2. ASSUME NEW s, NEW k \in Records, NEW config \in GovernanceConfigs,
             CreateGovernance(s, k, config)
      PROVE  Kept
  BY <1>2, CreateGovernanceTypes, CreateGovernanceKept, DepositsKeptBacked
<1>3. ASSUME NEW p \in Proposals, FinalizeVote(p) PROVE Kept
  BY <1>3, FinalizeVoteTypes, FinalizeVoteKept, DepositsKeptBacked
<1>4. ASSUME NEW p \in Proposals, RefundProposalDeposit(p) PROVE Kept
  <2>1. UNCHANGED realmVars
    BY <1>4 DEF RefundProposalDeposit
  <2> QED BY <1>4, <2>1, RefundProposalDepositTypes, RealmVarsKept, DepositsKeptBacked
<1>5. ASSUME NEW p \in Proposals, NEW k \in Records, ReleaseVote(p, k) PROVE Kept
  BY <1>5, ReleaseVoteTypes, ReleaseVoteKept, DepositsKeptBacked
<1>6. ASSUME NEW p \in Proposals, NEW s, SignOffProposal(p, s) PROVE Kept
  <2>1. UNCHANGED realmVars
    BY <1>6 DEF SignOffProposal
  <2> QED BY <1>6, <2>1, SignOffProposalTypes, RealmVarsKept, DepositsKeptBacked
<1>7. ASSUME NEW p \in Proposals, NEW s, CancelProposal(p, s) PROVE Kept
  BY <1>7, CancelProposalTypes, CancelProposalKept, DepositsKeptBacked
<1>8. ASSUME NEW p \in Proposals, NEW s, CompleteProposal(p, s) PROVE Kept
  <2>1. UNCHANGED realmVars
    BY <1>8 DEF CompleteProposal
  <2> QED BY <1>8, <2>1, CompleteProposalTypes, RealmVarsKept, DepositsKeptBacked
<1>9. ASSUME NEW p \in Proposals, NEW s, NEW x \in Signatories, AddSignatory(p, s, x)
      PROVE  Kept
  <2>1. UNCHANGED realmVars
    BY <1>9 DEF AddSignatory
  <2> QED BY <1>9, <2>1, AddSignatoryTypes, RealmVarsKept, DepositsKeptBacked
<1>10. ASSUME NEW p \in Proposals, NEW s, NEW k \in Records, NEW args \in ProposalArgs,
              CreateProposal(p, k, s, args)
       PROVE  Kept
  BY <1>10, CreateProposalTypes, CreateProposalKept, DepositsKeptBacked
<1>11. ASSUME NEW p \in Proposals, NEW s, NEW k \in Records, NEW vote \in Votes,
              CastVote(p, k, s, vote)
       PROVE  Kept
  BY <1>11, CastVoteTypes, CastVoteKept, DepositsKeptBacked
<1>12. ASSUME NEW p \in Proposals, NEW s, NEW k \in Records, WithdrawVote(p, k, s)
       PROVE  Kept
  BY <1>12, WithdrawVoteTypes, WithdrawVoteKept, DepositsKeptBacked
<1>13. ASSUME NEW p \in Proposals, NEW s, NEW i, NEW n, NEW x \in Instructions,
              InsertTransaction(p, s, i, n, x)
       PROVE  Kept
  <2>1. UNCHANGED realmVars
    BY <1>13, Zenon DEF InsertTransaction
  <2> QED BY <1>13, <2>1, InsertTransactionTypes, RealmVarsKept, DepositsKeptBacked
<1>14. ASSUME NEW p \in Proposals, NEW s, NEW i, NEW n, RemoveTransaction(p, s, i, n)
       PROVE  Kept
  <2>1. UNCHANGED realmVars
    BY <1>14, Zenon DEF RemoveTransaction
  <2> QED BY <1>14, <2>1, RemoveTransactionTypes, RealmVarsKept, DepositsKeptBacked
<1>15. ASSUME NEW p \in Proposals, NEW i, NEW n, ExecuteTransaction(p, i, n) PROVE Kept
  BY <1>15, ExecuteTransactionTypes
<1>16. CASE UNCHANGED vars
  <2>1. UNCHANGED realmVars /\ UNCHANGED govVars
    BY <1>16 DEF vars
  <2>2. TypeInv'
    BY <2>1 DEF TypeInv, realmVars, govVars, RealmTypes, ConfigTypes, RecordTypes, BalanceTypes,
                GovTypes, GovernanceExists, ProposalTypes, Exists, VoteRecordTypes, VoteFits,
                VotersExist, TransactionTypes, Slots
  <2> QED BY <2>1, <2>2, RealmVarsKept, DepositsKeptBacked
<1> HIDE DEF Kept
<1>17. CASE ProposalStep
  <2>1. CASE \E k \in Records, config \in GovernanceConfigs :
               \/ \E s \in Voters : CreateGovernance(s, k, config)
               \/ CreateGovernance(RealmAuthority, k, config)
    BY <1>2, <2>1, Zenon
  <2>2. ASSUME NEW p \in Proposals,
               \/ FinalizeVote(p)
               \/ RefundProposalDeposit(p)
               \/ \E k \in Records : ReleaseVote(p, k)
               \/ \E i \in 1..MaxOptions, n \in 0..MaxTransactions-1 : ExecuteTransaction(p, i, n)
        PROVE  Kept
    BY <1>3, <1>4, <1>5, <1>15, <2>2, Zenon
  <2>3. ASSUME NEW p \in Proposals, NEW s \in Signers,
               \/ SignOffProposal(p, s)
               \/ CancelProposal(p, s)
               \/ CompleteProposal(p, s)
               \/ \E x \in Signatories : AddSignatory(p, s, x)
               \/ \E k \in Records :
                    \/ \E args \in ProposalArgs : CreateProposal(p, k, s, args)
                    \/ \E vote \in Votes : CastVote(p, k, s, vote)
                    \/ WithdrawVote(p, k, s)
               \/ \E i \in 1..MaxOptions, n \in 0..MaxTransactions-1 :
                    \/ \E x \in Instructions : InsertTransaction(p, s, i, n, x)
                    \/ RemoveTransaction(p, s, i, n)
        PROVE  Kept
    BY <1>6, <1>7, <1>8, <1>9, <1>10, <1>11, <1>12, <1>13, <1>14, <2>3, Zenon
  <2> QED BY <1>17, <2>1, <2>2, <2>3, Zenon DEF ProposalStep
<1> QED BY <1>1, <1>16, <1>17 DEF Next

\* The types of everything a governance and its realm keep: records, proposals,
\* votes and transactions, and what a vote has to fit to have been accepted
\* (proposal.rs:assert_valid_vote, realm.rs:assert_can_withdraw_governing_token).
THEOREM TypeInvariant == Spec => []TypeInv
<1>1. Init => TypeInv
  BY InitTypes
<1>2. TypeInv /\ [Next]_vars => TypeInv'
  BY NextTypes
<1> QED BY <1>1, <1>2, PTL DEF Spec

LEMMA InitBacked == Init => Backed
BY InitRealmBacked DEF Init

\* Whatever is minted, revoked, withdrawn, locked or voted, the holding account of a
\* mint has what its owners' records say they deposited, so that the transfer of
\* process_withdraw_governing_tokens.rs never lacks the tokens.
THEOREM DepositsBacked == Spec => []HoldingBacked
<1>1. Backed => HoldingBacked
  BY Zenon DEF Backed, Deposited, HoldingBacked
<1>2. TypeInv /\ Backed /\ [Next]_vars => Backed'
  BY NextTypes
<1> QED BY <1>1, <1>2, InitBacked, TypeInvariant, PTL DEF Spec

-----------------------------------------------------------------------------
(* Counters *)

LEMMA ProposalsFinite ==
  ASSUME NEW S \in SUBSET Proposals
  PROVE  IsFiniteSet(S) /\ Cardinality(S) \in Nat
<1>1. IsFiniteSet(Proposals)
  BY FS_Interval, GovernanceAssumption DEF Proposals
<1>2. IsFiniteSet(S)
  BY <1>1, FS_Subset
<1> QED BY <1>2, FS_CardinalityType

LEMMA OneMore ==
  ASSUME NEW S, IsFiniteSet(S), NEW x, x \notin S, NEW T, T = S \cup {x}
  PROVE  IsFiniteSet(T) /\ Cardinality(T) = Cardinality(S) + 1
BY FS_AddElement

LEMMA OneLess ==
  ASSUME NEW S, IsFiniteSet(S), NEW x \in S, NEW T, T = S \ {x}
  PROVE  /\ IsFiniteSet(T) /\ Cardinality(T) = Cardinality(S) - 1
         /\ Cardinality(S) \in Nat /\ Cardinality(S) # 0
<1>1. Cardinality(T) = Cardinality(S) - 1 /\ IsFiniteSet(T)
  BY FS_RemoveElement
<1> QED BY <1>1, FS_CardinalityType, FS_EmptySet

\* What the three counters count.
Live(k) == {p \in Proposals : LiveVote(p, k)}
Open == {p \in Proposals : proposals[p].state \in Undecided}
OpenOf(k) == {p \in Proposals : proposals[p].state \in Undecided /\ proposals[p].owner = k}

LiveAgree == \A k \in Records : tor[k].unrelinquished = Cardinality(Live(k))
OpenAgree ==
  /\ \A k \in Records : tor[k].outstanding = Cardinality(OpenOf(k))
  /\ gov.active_proposal_count = Cardinality(Open)

LEMMA CountersAgreeParts == CountersAgree <=> LiveAgree /\ OpenAgree
BY Zenon DEF CountersAgree, LiveAgree, OpenAgree, Live, Open, OpenOf

LEMMA NextCountersAgreeParts == CountersAgree' <=> LiveAgree' /\ OpenAgree'
BY Zenon DEF CountersAgree, LiveAgree, OpenAgree, Live, Open, OpenOf

\* Steps that change no vote record and none of the counters of votes.
LEMMA LiveSame ==
  ASSUME LiveAgree, votes' = votes,
         \A k \in Records : tor'[k].unrelinquished = tor[k].unrelinquished
  PROVE  LiveAgree'
<1>1. \A k \in Records : Live(k)' = Live(k)
  BY DEF Live, LiveVote
<1> QED BY <1>1 DEF LiveAgree

\* Steps that neither open nor decide a proposal.
LEMMA OpenSame ==
  ASSUME OpenAgree,
         \A p \in Proposals :
           /\ proposals'[p].state \in Undecided <=> proposals[p].state \in Undecided
           /\ proposals[p].state \in Undecided => proposals'[p].owner = proposals[p].owner,
         \A k \in Records : tor'[k].outstanding = tor[k].outstanding,
         gov'.active_proposal_count = gov.active_proposal_count
  PROVE  OpenAgree'
<1>1. Open' = Open
  BY DEF Open
<1>2. \A k \in Records : OpenOf(k)' = OpenOf(k)
  BY DEF OpenOf
<1> QED BY <1>1, <1>2 DEF OpenAgree

\* A proposal of k is drafted.
LEMMA OpenAdded ==
  ASSUME OpenAgree, NEW p \in Proposals, NEW k \in Records,
         proposals[p].state \notin Undecided,
         proposals'[p].state \in Undecided, proposals'[p].owner = k,
         \A r \in Proposals : r # p => proposals'[r] = proposals[r],
         \A j \in Records : tor'[j].outstanding =
           IF j = k THEN tor[k].outstanding + 1 ELSE tor[j].outstanding,
         gov'.active_proposal_count = gov.active_proposal_count + 1
  PROVE  OpenAgree'
<1>1. Open' = Open \cup {p} /\ p \notin Open /\ IsFiniteSet(Open)
  BY ProposalsFinite DEF Open
<1>2. OpenOf(k)' = OpenOf(k) \cup {p} /\ p \notin OpenOf(k) /\ IsFiniteSet(OpenOf(k))
  BY ProposalsFinite DEF OpenOf
<1>3. \A j \in Records : j # k => OpenOf(j)' = OpenOf(j)
  BY DEF OpenOf
<1>4. Cardinality(Open') = Cardinality(Open) + 1
  BY <1>1, OneMore
<1>5. Cardinality(OpenOf(k)') = Cardinality(OpenOf(k)) + 1
  BY <1>2, OneMore
<1> QED BY <1>3, <1>4, <1>5 DEF OpenAgree

\* A proposal of k is decided.
LEMMA OpenRemoved ==
  ASSUME OpenAgree, NEW p \in Proposals, NEW k \in Records,
         proposals[p].state \in Undecided, proposals[p].owner = k,
         proposals'[p].state \notin Undecided,
         \A r \in Proposals : r # p => proposals'[r] = proposals[r],
         \A j \in Records : tor'[j].outstanding =
           IF j = k THEN (IF tor[k].outstanding = 0 THEN 0 ELSE tor[k].outstanding - 1)
           ELSE tor[j].outstanding,
         gov'.active_proposal_count = Minus(gov.active_proposal_count, 1)
  PROVE  OpenAgree'
<1>1. Open' = Open \ {p} /\ p \in Open /\ IsFiniteSet(Open)
  BY ProposalsFinite DEF Open
<1>2. OpenOf(k)' = OpenOf(k) \ {p} /\ p \in OpenOf(k) /\ IsFiniteSet(OpenOf(k))
  BY ProposalsFinite DEF OpenOf
<1>3. \A j \in Records : j # k => OpenOf(j)' = OpenOf(j)
  BY DEF OpenOf
<1>4. /\ Cardinality(Open') = Cardinality(Open) - 1
      /\ Cardinality(Open) \in Nat /\ Cardinality(Open) # 0
  BY <1>1, OneLess
<1>5. /\ Cardinality(OpenOf(k)') = Cardinality(OpenOf(k)) - 1
      /\ Cardinality(OpenOf(k)) \in Nat /\ Cardinality(OpenOf(k)) # 0
  BY <1>2, OneLess
<1>6. gov'.active_proposal_count = Cardinality(Open')
  BY <1>4 DEF OpenAgree, Minus
<1>7. \A j \in Records : tor'[j].outstanding = Cardinality(OpenOf(j)')
  BY <1>3, <1>5 DEF OpenAgree
<1> QED BY <1>6, <1>7 DEF OpenAgree

\* A vote of k is cast, and one is taken back or released.
LEMMA LiveAdded ==
  ASSUME LiveAgree, NEW p \in Proposals, NEW k \in Records, ~LiveVote(p, k), LiveVote(p, k)',
         \A r \in Proposals, j \in Records : r # p \/ j # k => votes'[r][j] = votes[r][j],
         \A j \in Records : tor'[j].unrelinquished =
           IF j = k THEN tor[k].unrelinquished + 1 ELSE tor[j].unrelinquished
  PROVE  LiveAgree'
<1>1. Live(k)' = Live(k) \cup {p} /\ p \notin Live(k) /\ IsFiniteSet(Live(k))
  BY ProposalsFinite DEF Live, LiveVote
<1>2. \A j \in Records : j # k => Live(j)' = Live(j)
  BY DEF Live, LiveVote
<1>3. Cardinality(Live(k)') = Cardinality(Live(k)) + 1
  BY <1>1, OneMore
<1> QED BY <1>2, <1>3 DEF LiveAgree

LEMMA LiveRemoved ==
  ASSUME LiveAgree, NEW p \in Proposals, NEW k \in Records, LiveVote(p, k), ~LiveVote(p, k)',
         \A r \in Proposals, j \in Records : r # p \/ j # k => votes'[r][j] = votes[r][j],
         \A j \in Records : tor'[j].unrelinquished =
           IF j = k THEN tor[k].unrelinquished - 1 ELSE tor[j].unrelinquished
  PROVE  LiveAgree'
<1>1. Live(k)' = Live(k) \ {p} /\ p \in Live(k) /\ IsFiniteSet(Live(k))
  BY ProposalsFinite DEF Live, LiveVote
<1>2. \A j \in Records : j # k => Live(j)' = Live(j)
  BY DEF Live, LiveVote
<1>3. Cardinality(Live(k)') = Cardinality(Live(k)) - 1
  BY <1>1, OneLess
<1> QED BY <1>2, <1>3 DEF LiveAgree

LEMMA InitCounters == Init => CountersAgree
<1> SUFFICES ASSUME Init PROVE LiveAgree /\ OpenAgree
  BY CountersAgreeParts
<1>1. \A p \in Proposals : proposals[p].state = "None"
  BY DEF Init, NoProposal
<1>2. \A p \in Proposals, k \in Records : ~votes[p][k].exists
  BY DEF Init, NoVote
<1>3. gov.active_proposal_count = 0
  BY DEF Init
<1>4. \A k \in Records : tor[k].unrelinquished = 0 /\ tor[k].outstanding = 0
  <2>1. PICK deposits :
          tor = [k \in Records |->
            IF k \in DOMAIN deposits THEN [NewRecord EXCEPT !.deposit = deposits[k]]
                                     ELSE NoRecord]
    BY Zenon DEF Init, RealmInit
  <2>2. \A d : /\ [NewRecord EXCEPT !.deposit = d].unrelinquished = 0
               /\ [NewRecord EXCEPT !.deposit = d].outstanding = 0
    BY DEF NewRecord, NoRecord
  <2> QED BY <2>1, <2>2 DEF NoRecord
<1>5. Open = {} /\ \A k \in Records : OpenOf(k) = {} /\ Live(k) = {}
  BY <1>1, <1>2 DEF Open, OpenOf, Live, LiveVote, Undecided
<1> QED BY <1>3, <1>4, <1>5, FS_EmptySet DEF LiveAgree, OpenAgree

\* Handlers that change one proposal and neither open nor decide it.
LEMMA QuietStep ==
  ASSUME TypeInv, CountersAgree, NEW p \in Proposals, NEW q,
         proposals' = [proposals EXCEPT ![p] = q],
         q.state \in Undecided <=> proposals[p].state \in Undecided,
         q.owner = proposals[p].owner,
         votes' = votes, \A k \in Records : /\ tor'[k].unrelinquished = tor[k].unrelinquished
                                            /\ tor'[k].outstanding = tor[k].outstanding,
         gov'.active_proposal_count = gov.active_proposal_count
  PROVE  CountersAgree'
<1>1. \A r \in Proposals : proposals'[r] = IF r = p THEN q ELSE proposals[r]
  BY DEF TypeInv, ProposalTypes
<1>2. OpenAgree'
  BY <1>1, CountersAgreeParts, OpenSame
<1>3. LiveAgree'
  BY CountersAgreeParts, LiveSame
<1> QED BY <1>2, <1>3, NextCountersAgreeParts

LEMMA AddSignatoryCounters ==
  ASSUME TypeInv, CountersAgree, NEW p \in Proposals, NEW s, NEW x, AddSignatory(p, s, x)
  PROVE  CountersAgree'
<1> DEFINE q == [proposals[p] EXCEPT !.signatories_count = @ + 1]
<1>1. Exists(p) /\ proposals' = [proposals EXCEPT ![p] = q]
      /\ UNCHANGED <<realmVars, gov, votes>>
  BY DEF AddSignatory, Exists
<1>2. q.state = proposals[p].state /\ q.owner = proposals[p].owner
  BY <1>1, ProposalOf DEF ProposalRecord
<1> HIDE DEF q
<1> QED BY <1>1, <1>2, QuietStep DEF realmVars

LEMMA SignOffProposalCounters ==
  ASSUME TypeInv, CountersAgree, NEW p \in Proposals, NEW s, SignOffProposal(p, s)
  PROVE  CountersAgree'
<1>1. /\ Exists(p) /\ proposals[p].state \in Undecided
      /\ UNCHANGED <<realmVars, gov, votes>>
  BY DEF SignOffProposal, Exists, Undecided
<1>2. proposals[p] \in ProposalRecord
  BY <1>1, ProposalOf
<1>3. \E q : /\ proposals' = [proposals EXCEPT ![p] = q]
             /\ q.state \in Undecided /\ q.owner = proposals[p].owner
  <2>1. CASE proposals[p].signatories_count = 0
    <3> DEFINE q == StartVotingIf(proposals[p], TRUE)
    <3>1. proposals' = [proposals EXCEPT ![p] = q]
      BY <2>1 DEF SignOffProposal
    <3>2. q.state \in Undecided /\ q.owner = proposals[p].owner
      BY <1>2 DEF ProposalRecord, StartVotingIf, Undecided
    <3> QED BY <3>1, <3>2
  <2>2. CASE proposals[p].signatories_count # 0
    <3> DEFINE r == [proposals[p] EXCEPT !.signed_off_count = @ + 1, !.state = "SigningOff"]
               all == proposals[p].signed_off_count + 1 = proposals[p].signatories_count
               q == StartVotingIf(r, all)
    <3>1. proposals' = [proposals EXCEPT ![p] = q]
      BY <2>2 DEF SignOffProposal
    <3>2. r.state = "SigningOff" /\ r.owner = proposals[p].owner
          /\ [r EXCEPT !.state = "Voting", !.voting_at = now].state = "Voting"
          /\ [r EXCEPT !.state = "Voting", !.voting_at = now].owner = proposals[p].owner
      BY <1>2 DEF ProposalRecord
    <3> HIDE DEF all
    <3>3. q.state \in Undecided /\ q.owner = proposals[p].owner
      BY <3>2 DEF StartVotingIf, Undecided
    <3> QED BY <3>1, <3>3
  <2> QED BY <2>1, <2>2
<1> QED BY <1>1, <1>3, QuietStep DEF realmVars

LEMMA InsertTransactionCounters ==
  ASSUME TypeInv, CountersAgree, NEW p \in Proposals, NEW s, NEW i, NEW n, NEW x,
         InsertTransaction(p, s, i, n, x)
  PROVE  CountersAgree'
<1> DEFINE o == WithTransaction(proposals[p].options[i], n)
           q == [proposals[p] EXCEPT !.options[i] = o]
<1>1. Exists(p) /\ UNCHANGED <<realmVars, gov, votes>>
  BY Zenon DEF InsertTransaction
<1>2. proposals' = [proposals EXCEPT ![p] = q]
  BY Zenon DEF InsertTransaction
<1> HIDE DEF o
<1>3. q.state = proposals[p].state /\ q.owner = proposals[p].owner
  BY <1>1, ProposalOf DEF ProposalRecord
<1> HIDE DEF q
<1> QED BY <1>1, <1>2, <1>3, QuietStep DEF realmVars

LEMMA RemoveTransactionCounters ==
  ASSUME TypeInv, CountersAgree, NEW p \in Proposals, NEW s, NEW i, NEW n,
         RemoveTransaction(p, s, i, n)
  PROVE  CountersAgree'
<1> DEFINE q == [proposals[p] EXCEPT !.options[i].transactions_count = @ - 1]
<1>1. Exists(p) /\ UNCHANGED <<realmVars, gov, votes>>
  BY Zenon DEF RemoveTransaction
<1>2. proposals' = [proposals EXCEPT ![p] = q]
  BY Zenon DEF RemoveTransaction
<1>3. q.state = proposals[p].state /\ q.owner = proposals[p].owner
  BY <1>1, ProposalOf DEF ProposalRecord
<1> HIDE DEF q
<1> QED BY <1>1, <1>2, <1>3, QuietStep DEF realmVars

LEMMA CompleteProposalCounters ==
  ASSUME TypeInv, CountersAgree, NEW p \in Proposals, NEW s, CompleteProposal(p, s)
  PROVE  CountersAgree'
<1> DEFINE q == [proposals[p] EXCEPT !.state = "Completed"]
<1>1. Exists(p) /\ proposals' = [proposals EXCEPT ![p] = q]
      /\ UNCHANGED <<realmVars, gov, votes>> /\ proposals[p].state = "Succeeded"
  BY DEF CompleteProposal, CanComplete
<1>2. q.state = "Completed" /\ q.owner = proposals[p].owner
  BY <1>1, ProposalOf DEF ProposalRecord
<1> HIDE DEF q
<1>3. q.state \in Undecided <=> proposals[p].state \in Undecided
  BY <1>1, <1>2 DEF Undecided
<1> QED BY <1>1, <1>2, <1>3, QuietStep DEF realmVars

LEMMA RefundProposalDepositCounters ==
  ASSUME TypeInv, CountersAgree, NEW p \in Proposals, RefundProposalDeposit(p)
  PROVE  CountersAgree'
<1> DEFINE q == [proposals[p] EXCEPT !.deposit = 0]
<1>1. Exists(p) /\ proposals' = [proposals EXCEPT ![p] = q]
      /\ UNCHANGED <<realmVars, gov, votes>>
  BY DEF RefundProposalDeposit
<1>2. q.state = proposals[p].state /\ q.owner = proposals[p].owner
  BY <1>1, ProposalOf DEF ProposalRecord
<1> HIDE DEF q
<1> QED BY <1>1, <1>2, QuietStep DEF realmVars

LEMMA ExecuteTransactionCounters ==
  ASSUME TypeInv, CountersAgree, NEW p \in Proposals, NEW i, NEW n,
         ExecuteTransaction(p, i, n)
  PROVE  CountersAgree'
<1> DEFINE r == AfterExecution(proposals[p], i)
<1>1. /\ Exists(p) /\ <<i, n>> \in Slots(p) /\ proposals' = [proposals EXCEPT ![p] = r]
      /\ votes' = votes /\ proposals[p].state \in {"Succeeded", "Executing"}
  BY Zenon DEF ExecuteTransaction, CanExecuteTransaction
<1>2. i \in DOMAIN proposals[p].options
  BY <1>1 DEF Slots
<1>3. r.owner = proposals[p].owner /\ r.state \in {"Completed", "Executing"}
  BY <1>1, <1>2, AfterExecutionOf
<1> HIDE DEF r
<1>4. r.state \in Undecided <=> proposals[p].state \in Undecided
  BY <1>1, <1>3 DEF Undecided
<1>5. CountersKept /\ gov'.active_proposal_count = gov.active_proposal_count
  BY ExecuteTransactionTypes
<1> QED BY <1>1, <1>3, <1>4, <1>5, QuietStep DEF CountersKept

LEMMA CreateGovernanceCounters ==
  ASSUME TypeInv, CountersAgree, NEW s, NEW k, NEW config, CreateGovernance(s, k, config)
  PROVE  CountersAgree'
<1>1. /\ ~GovernanceExists /\ UNCHANGED <<tor, proposals, votes>>
      /\ gov'.active_proposal_count = 0
  BY DEF CreateGovernance, AddGovernance, GovernanceExists
<1>2. Open = {}
  BY <1>1 DEF TypeInv, ProposalTypes, Exists, Open, Undecided
<1>3. gov.active_proposal_count = 0
  BY <1>2, CountersAgreeParts, FS_EmptySet DEF OpenAgree
<1>4. LiveAgree' /\ OpenAgree'
  BY <1>1, <1>3, CountersAgreeParts, LiveSame, OpenSame
<1> QED BY <1>4, NextCountersAgreeParts

LEMMA CreateProposalCounters ==
  ASSUME TypeInv, CountersAgree, NEW p \in Proposals, NEW k \in Records, NEW s,
         NEW args \in ProposalArgs, CreateProposal(p, k, s, args)
  PROVE  CountersAgree'
<1>1. /\ ~Exists(p) /\ proposals' = [proposals EXCEPT ![p] = Drafted(k, args)]
      /\ tor' = [tor EXCEPT ![k].outstanding = tor[k].outstanding + 1]
      /\ votes' = votes
  BY CreateProposalOutcome
<1>2. gov'.active_proposal_count = gov.active_proposal_count + 1
  BY CreateProposalOutcome DEF TypeInv, GovTypes, GovernanceRecord
<1>3. Drafted(k, args).state = "Draft" /\ Drafted(k, args).owner = k
  BY DEF Drafted
<1>4. \A r \in Proposals : proposals'[r] = IF r = p THEN Drafted(k, args) ELSE proposals[r]
  BY <1>1 DEF TypeInv, ProposalTypes
<1>5. \A j \in Records : /\ tor'[j].outstanding =
                              IF j = k THEN tor[k].outstanding + 1 ELSE tor[j].outstanding
                         /\ tor'[j].unrelinquished = tor[j].unrelinquished
  BY <1>1 DEF TypeInv, RealmTypes, RecordTypes, OwnerRecord
<1>6. proposals[p].state \notin Undecided /\ proposals'[p].state \in Undecided
      /\ proposals'[p].owner = k
  BY <1>1, <1>3, <1>4 DEF Exists, Undecided
<1>7. LiveAgree'
  BY <1>1, <1>5, CountersAgreeParts, LiveSame
<1>8. OpenAgree'
  BY <1>2, <1>4, <1>5, <1>6, CountersAgreeParts, OpenAdded
<1> QED BY <1>7, <1>8, NextCountersAgreeParts

\* A decision of a proposal without a vote: finalized or cancelled.
LEMMA DecisionCounters ==
  ASSUME TypeInv, CountersAgree, NEW p \in Proposals, Exists(p),
         proposals[p].state \in Undecided,
         NEW q, proposals' = [proposals EXCEPT ![p] = q], q.state \notin Undecided,
         tor' = [tor EXCEPT ![proposals[p].owner] = DecreaseOutstanding(@)],
         gov' = [gov EXCEPT !.active_proposal_count = Minus(@, 1)], votes' = votes
  PROVE  CountersAgree'
<1> DEFINE k == proposals[p].owner
<1>1. k \in Records
  BY ProposalOf DEF ProposalRecord
<1>2. gov'.active_proposal_count = Minus(gov.active_proposal_count, 1)
  BY DEF TypeInv, GovTypes, GovernanceRecord
<1>3. \A r \in Proposals : proposals'[r] = IF r = p THEN q ELSE proposals[r]
  BY DEF TypeInv, ProposalTypes
<1>4. \A j \in Records : /\ tor'[j].unrelinquished = tor[j].unrelinquished
                         /\ j # k => tor'[j] = tor[j]
  BY <1>1, OwnerReleased
<1>5. tor'[k].outstanding = IF tor[k].outstanding = 0 THEN 0 ELSE tor[k].outstanding - 1
  BY <1>1, OwnerReleased
<1>6. LiveAgree'
  BY <1>4, CountersAgreeParts, LiveSame
<1> HIDE DEF k
<1>7. OpenAgree'
  BY <1>1, <1>2, <1>3, <1>4, <1>5, CountersAgreeParts, OpenRemoved DEF k
<1> QED BY <1>6, <1>7, NextCountersAgreeParts

LEMMA FinalizeVoteCounters ==
  ASSUME TypeInv, CountersAgree, NEW p \in Proposals, FinalizeVote(p)
  PROVE  CountersAgree'
<1>1. \E r : /\ proposals' = [proposals EXCEPT ![p] = r] /\ r.state \notin Undecided
  <2>1. PICK r, min : /\ proposals' = [proposals EXCEPT ![p] = r]
                      /\ r.state = FinalVoteState(proposals[p], min)
    BY FinalizeVoteOutcome
  <2> QED BY <2>1 DEF FinalVoteState, Undecided
<1>2. /\ Exists(p) /\ proposals[p].state \in Undecided
      /\ tor' = [tor EXCEPT ![proposals[p].owner] = DecreaseOutstanding(@)]
      /\ gov' = [gov EXCEPT !.active_proposal_count = Minus(@, 1)] /\ votes' = votes
  BY FinalizeVoteOutcome DEF Undecided
<1> QED BY <1>1, <1>2, DecisionCounters

LEMMA CancelProposalCounters ==
  ASSUME TypeInv, CountersAgree, NEW p \in Proposals, NEW s, CancelProposal(p, s)
  PROVE  CountersAgree'
<1>1. \E r : /\ proposals' = [proposals EXCEPT ![p] = r] /\ r.state \notin Undecided
  BY CancelProposalOutcome DEF Undecided
<1> QED BY <1>1, CancelProposalOutcome, DecisionCounters

LEMMA WithdrawVoteCounters ==
  ASSUME TypeInv, CountersAgree, NEW p \in Proposals, NEW k \in Records, NEW s,
         WithdrawVote(p, k, s)
  PROVE  CountersAgree'
<1> DEFINE v == votes[p][k]
           q == Tallied(proposals[p], v.vote, v.weight, -1)
<1>1. /\ Exists(p) /\ LiveVote(p, k) /\ tor[k].exists
      /\ v \in VoteRecord /\ VoteFits(p, k)
      /\ proposals' = [proposals EXCEPT ![p] = q]
      /\ votes' = [votes EXCEPT ![p][k] = NoVote]
      /\ tor' = [tor EXCEPT ![k].unrelinquished = @ - 1] /\ gov' = gov
  BY WithdrawVoteOutcome
<1>2. q.state = proposals[p].state /\ q.owner = proposals[p].owner
  <2>1. /\ v.vote \in Votes /\ v.weight \in Nat
        /\ v.vote.kind = "approve" => DOMAIN v.vote.choices = DOMAIN proposals[p].options
        /\ proposals[p] \in ProposalRecord
    BY <1>1, ProposalOf DEF VoteRecord, VoteFits
  <2> HIDE DEF v
  <2> QED BY <2>1, TalliedType
<1> HIDE DEF q
<1>3. \A r \in Proposals : proposals'[r] = IF r = p THEN q ELSE proposals[r]
  BY <1>1 DEF TypeInv, ProposalTypes
<1>4. \A j \in Records : /\ tor'[j].unrelinquished =
                              IF j = k THEN tor[k].unrelinquished - 1 ELSE tor[j].unrelinquished
                         /\ tor'[j].outstanding = tor[j].outstanding
  BY <1>1 DEF TypeInv, RealmTypes, RecordTypes, OwnerRecord
<1>5. \A r \in Proposals, j \in Records :
        votes'[r][j] = IF r = p /\ j = k THEN NoVote ELSE votes[r][j]
  BY <1>1 DEF TypeInv, VoteRecordTypes
<1>6. ~LiveVote(p, k)'
  BY <1>5 DEF LiveVote, NoVote
<1>7. LiveAgree'
  BY <1>1, <1>4, <1>5, <1>6, CountersAgreeParts, LiveRemoved
<1>8. OpenAgree'
  BY <1>1, <1>2, <1>3, <1>4, CountersAgreeParts, OpenSame
<1> QED BY <1>7, <1>8, NextCountersAgreeParts

LEMMA ReleaseVoteCounters ==
  ASSUME TypeInv, CountersAgree, NEW p \in Proposals, NEW k \in Records, ReleaseVote(p, k)
  PROVE  CountersAgree'
<1> DEFINE v == [votes[p][k] EXCEPT !.is_relinquished = TRUE]
<1>1. /\ LiveVote(p, k) /\ votes[p][k] \in VoteRecord
      /\ UNCHANGED <<proposals, gov>> /\ votes' = [votes EXCEPT ![p][k] = v]
      /\ tor' = [tor EXCEPT ![k].unrelinquished = @ - 1]
  BY ReleaseVoteOutcome
<1>2. v.is_relinquished = TRUE
  BY <1>1 DEF VoteRecord
<1> HIDE DEF v
<1>4. \A j \in Records : /\ tor'[j].unrelinquished =
                              IF j = k THEN tor[k].unrelinquished - 1 ELSE tor[j].unrelinquished
                         /\ tor'[j].outstanding = tor[j].outstanding
  BY <1>1 DEF TypeInv, RealmTypes, RecordTypes, OwnerRecord
<1>5. \A r \in Proposals, j \in Records :
        votes'[r][j] = IF r = p /\ j = k THEN v ELSE votes[r][j]
  BY <1>1 DEF TypeInv, VoteRecordTypes
<1>6. ~LiveVote(p, k)'
  BY <1>2, <1>5 DEF LiveVote
<1>7. LiveAgree'
  BY <1>1, <1>4, <1>5, <1>6, CountersAgreeParts, LiveRemoved
<1>8. OpenAgree'
  BY <1>1, <1>4, CountersAgreeParts, OpenSame
<1> QED BY <1>7, <1>8, NextCountersAgreeParts

\* The record of a voter and, where the vote decides, that of the proposal's owner:
\* they may be the same.
LEMMA CastVoteCounts ==
  ASSUME TypeInv, NEW p \in Proposals, NEW k \in Records, NEW s, NEW vote \in Votes,
         CastVote(p, k, s, vote), NEW weight
  PROVE  /\ CastOnly(p, k, vote, weight) =>
              \A j \in Records :
                /\ tor'[j].unrelinquished =
                     IF j = k THEN tor[k].unrelinquished + 1 ELSE tor[j].unrelinquished
                /\ tor'[j].outstanding = tor[j].outstanding
         /\ \A max, state : CastAndTip(p, k, vote, weight, max, state) =>
              \A j \in Records :
                /\ tor'[j].unrelinquished =
                     IF j = k THEN tor[k].unrelinquished + 1 ELSE tor[j].unrelinquished
                /\ tor'[j].outstanding =
                     IF j = proposals[p].owner
                     THEN (IF tor[j].outstanding = 0 THEN 0 ELSE tor[j].outstanding - 1)
                     ELSE tor[j].outstanding
<1> DEFINE t == [tor EXCEPT ![k].unrelinquished = tor[k].unrelinquished + 1]
           h == proposals[p].owner
<1>1. Exists(p) /\ tor[k].exists
  BY CastVoteOutcome
<1>2. h \in Records
  BY <1>1, ProposalOf DEF ProposalRecord
<1>3. /\ t \in [Records -> OwnerRecord]
      /\ \A j \in Records : /\ t[j].outstanding = tor[j].outstanding
                            /\ t[j].unrelinquished =
                                 IF j = k THEN tor[k].unrelinquished + 1 ELSE tor[j].unrelinquished
                            /\ ~t[j].exists => t[j] = NoRecord
  <2>1. tor[k].unrelinquished + 1 \in Int
    BY DEF TypeInv, RealmTypes, RecordTypes, OwnerRecord
  <2>2. /\ t \in [Records -> OwnerRecord]
        /\ \A j \in Records : t[j].exists = tor[j].exists
        /\ \A j \in Records : ~tor[j].exists => t[j] = tor[j]
        /\ \A j \in Records : j # k => t[j] = tor[j]
        /\ t[k].unrelinquished = tor[k].unrelinquished + 1
        /\ t[k].outstanding = tor[k].outstanding
    BY <1>1, <2>1, VoteCounted
  <2> HIDE DEF t
  <2> QED BY <2>2 DEF TypeInv, RealmTypes, RecordTypes
<1>4. CastOnly(p, k, vote, weight) => tor' = t
  BY DEF CastOnly
<1>5. \A max, state : CastAndTip(p, k, vote, weight, max, state) =>
        tor' = [t EXCEPT ![h] = DecreaseOutstanding(@)]
  BY Zenon DEF CastAndTip
<1> HIDE DEF t, h
<1>6. LET u == [t EXCEPT ![h] = DecreaseOutstanding(@)]
      IN  /\ \A j \in Records : u[j].unrelinquished = t[j].unrelinquished
          /\ \A j \in Records : j # h => u[j] = t[j]
          /\ u[h].outstanding = IF t[h].outstanding = 0 THEN 0 ELSE t[h].outstanding - 1
  BY <1>2, <1>3, OutstandingDecreased
<1>7. ASSUME NEW max, NEW state, CastAndTip(p, k, vote, weight, max, state), NEW j \in Records
      PROVE  /\ tor'[j].unrelinquished =
                  IF j = k THEN tor[k].unrelinquished + 1 ELSE tor[j].unrelinquished
             /\ tor'[j].outstanding =
                  IF j = h THEN (IF tor[j].outstanding = 0 THEN 0 ELSE tor[j].outstanding - 1)
                  ELSE tor[j].outstanding
  <2>1. /\ tor'[j].unrelinquished = t[j].unrelinquished
        /\ j # h => tor'[j] = t[j]
        /\ tor'[h].outstanding = IF t[h].outstanding = 0 THEN 0 ELSE t[h].outstanding - 1
    BY <1>5, <1>6, <1>7
  <2> QED BY <1>3, <2>1
<1> QED BY <1>3, <1>4, <1>7 DEF h

LEMMA CastVoteCounters ==
  ASSUME TypeInv, CountersAgree, NEW p \in Proposals, NEW k \in Records, NEW s,
         NEW vote \in Votes, CastVote(p, k, s, vote)
  PROVE  CountersAgree'
<1> DEFINE h == proposals[p].owner
<1>1. /\ Exists(p) /\ ~votes[p][k].exists /\ proposals[p].state = "Voting"
      /\ proposals[p] \in ProposalRecord /\ h \in Records
  BY CastVoteOutcome, ProposalOf DEF ProposalRecord
<1>2. PICK weight \in Nat :
        /\ WithVote(p, vote, weight) \in ProposalRecord
        /\ votes' = [votes EXCEPT ![p][k] =
             [exists |-> TRUE, vote |-> vote, weight |-> weight, is_relinquished |-> FALSE]]
        /\ \/ CastOnly(p, k, vote, weight)
           \/ \E max \in Nat, state \in {"Vetoed", "Succeeded", "Defeated"} :
                CastAndTip(p, k, vote, weight, max, state)
  BY CastVoteOutcome
<1> DEFINE v == [exists |-> TRUE, vote |-> vote, weight |-> weight, is_relinquished |-> FALSE]
           q == WithVote(p, vote, weight)
<1>3. \A r \in Proposals, j \in Records :
        votes'[r][j] = IF r = p /\ j = k THEN v ELSE votes[r][j]
  <2>1. votes' = [votes EXCEPT ![p][k] = v]
    BY <1>2
  <2> HIDE DEF v
  <2> QED BY <2>1 DEF TypeInv, VoteRecordTypes
<1>4. ~LiveVote(p, k) /\ LiveVote(p, k)'
  BY <1>1, <1>3 DEF LiveVote
<1>5. q.state = "Voting" /\ q.owner = h
  <2>1. vote.kind = "approve" => DOMAIN vote.choices = DOMAIN proposals[p].options
    BY CastVoteOutcome DEF ValidVote
  <2> QED BY <1>1, <2>1, TalliedType DEF WithVote
<1> HIDE DEF v, h
<1>6. CASE CastOnly(p, k, vote, weight)
  <2>1. \A j \in Records :
          /\ tor'[j].unrelinquished =
               IF j = k THEN tor[k].unrelinquished + 1 ELSE tor[j].unrelinquished
          /\ tor'[j].outstanding = tor[j].outstanding
    BY <1>6, CastVoteCounts
  <2>2. proposals' = [proposals EXCEPT ![p] = q] /\ gov' = gov
    BY <1>6 DEF CastOnly
  <2> HIDE DEF q
  <2>3. \A r \in Proposals : proposals'[r] = IF r = p THEN q ELSE proposals[r]
    BY <2>2 DEF TypeInv, ProposalTypes
  <2>4. LiveAgree'
    BY <1>3, <1>4, <2>1, CountersAgreeParts, LiveAdded
  <2>5. OpenAgree'
    BY <1>1, <1>5, <2>1, <2>2, <2>3, CountersAgreeParts, OpenSame DEF h
  <2> QED BY <2>4, <2>5, NextCountersAgreeParts
<1>7. ASSUME NEW max \in Nat, NEW state \in {"Vetoed", "Succeeded", "Defeated"},
             CastAndTip(p, k, vote, weight, max, state)
      PROVE  CountersAgree'
  <2> DEFINE threshold == VoteThreshold(gov.config, k[1] = Council, VoteKind(vote))
             tipping == VoteTipping(gov.config, k[1] = Council)
             r == TippedRecord(q, state, now, max, threshold, tipping)
  <2>1. \A j \in Records :
          /\ tor'[j].unrelinquished =
               IF j = k THEN tor[k].unrelinquished + 1 ELSE tor[j].unrelinquished
          /\ tor'[j].outstanding =
               IF j = h THEN (IF tor[j].outstanding = 0 THEN 0 ELSE tor[j].outstanding - 1)
               ELSE tor[j].outstanding
    BY <1>7, CastVoteCounts DEF h
  <2>2. /\ proposals' = [proposals EXCEPT ![p] = r]
        /\ gov' = [gov EXCEPT !.active_proposal_count = Minus(@, 1)]
    BY <1>7 DEF CastAndTip
  <2>3. gov'.active_proposal_count = Minus(gov.active_proposal_count, 1)
    BY <2>2 DEF TypeInv, GovTypes, GovernanceRecord
  <2>4. r.state = state
    <3>1. q \in ProposalRecord /\ now \in Nat
      BY <1>2, RealmNumbers DEF TypeInv, RealmTypes
    <3>2. GovernanceExists /\ (k[1] = Council) \in BOOLEAN
      BY <1>1, ProposalOf
    <3>3. threshold \in Thresholds /\ tipping \in Tippings
      BY <3>2, ThresholdType
    <3> HIDE DEF q, threshold, tipping
    <3> QED BY <3>1, <3>3, TippedType
  <2> HIDE DEF r
  <2>5. \A x \in Proposals : proposals'[x] = IF x = p THEN r ELSE proposals[x]
    BY <2>2 DEF TypeInv, ProposalTypes
  <2>6. LiveAgree'
    BY <1>3, <1>4, <2>1, CountersAgreeParts, LiveAdded
  <2>7. /\ proposals[p].state \in Undecided /\ proposals'[p].state \notin Undecided
        /\ proposals[p].owner = h /\ h \in Records
    BY <1>1, <2>4, <2>5 DEF Undecided, h
  <2>8. OpenAgree'
    BY <2>1, <2>3, <2>5, <2>7, CountersAgreeParts, OpenRemoved
  <2> QED BY <2>6, <2>8, NextCountersAgreeParts
<1> QED BY <1>2, <1>6, <1>7

LEMMA NextCounters ==
  ASSUME TypeInv, CountersAgree, [Next]_vars
  PROVE  CountersAgree'
<1>1. ASSUME RealmStep, UNCHANGED govVars PROVE CountersAgree'
  <2>1. CountersKept
    BY <1>1, RealmStepKept DEF TypeInv
  <2>2. LiveAgree' /\ OpenAgree'
    BY <1>1, <2>1, CountersAgreeParts, LiveSame, OpenSame DEF govVars, CountersKept
  <2> QED BY <2>2, NextCountersAgreeParts
<1>2. CASE UNCHANGED vars
  <2>1. UNCHANGED <<tor, gov, proposals, votes>>
    BY <1>2 DEF vars, realmVars, govVars
  <2>2. LiveAgree' /\ OpenAgree'
    BY <2>1, CountersAgreeParts, LiveSame, OpenSame
  <2> QED BY <2>2, NextCountersAgreeParts
<1>3. CASE ProposalStep
  <2>1. CASE \E k \in Records, config \in GovernanceConfigs :
               \/ \E s \in Voters : CreateGovernance(s, k, config)
               \/ CreateGovernance(RealmAuthority, k, config)
    BY <2>1, CreateGovernanceCounters, Zenon
  <2>2. ASSUME NEW p \in Proposals,
               \/ FinalizeVote(p)
               \/ RefundProposalDeposit(p)
               \/ \E k \in Records : ReleaseVote(p, k)
               \/ \E i \in 1..MaxOptions, n \in 0..MaxTransactions-1 : ExecuteTransaction(p, i, n)
        PROVE  CountersAgree'
    BY <2>2, FinalizeVoteCounters, RefundProposalDepositCounters, ReleaseVoteCounters,
       ExecuteTransactionCounters, Zenon
  <2>3. ASSUME NEW p \in Proposals, NEW s \in Signers,
               \/ SignOffProposal(p, s)
               \/ CancelProposal(p, s)
               \/ CompleteProposal(p, s)
               \/ \E x \in Signatories : AddSignatory(p, s, x)
               \/ \E k \in Records :
                    \/ \E args \in ProposalArgs : CreateProposal(p, k, s, args)
                    \/ \E vote \in Votes : CastVote(p, k, s, vote)
                    \/ WithdrawVote(p, k, s)
               \/ \E i \in 1..MaxOptions, n \in 0..MaxTransactions-1 :
                    \/ \E x \in Instructions : InsertTransaction(p, s, i, n, x)
                    \/ RemoveTransaction(p, s, i, n)
        PROVE  CountersAgree'
    BY <2>3, SignOffProposalCounters, CancelProposalCounters, CompleteProposalCounters,
       AddSignatoryCounters, CreateProposalCounters, CastVoteCounters, WithdrawVoteCounters,
       InsertTransactionCounters, RemoveTransactionCounters, Zenon
  <2> QED BY <1>3, <2>1, <2>2, <2>3, Zenon DEF ProposalStep
<1> QED BY <1>1, <1>2, <1>3 DEF Next

\* A record's counters of votes and proposals and the governance's counter of active
\* proposals are what the accounts say, whichever of the handlers decided a proposal,
\* took a vote back or released it: no deposit is locked by a counter that nothing
\* can decrease, and none is freed while a vote of it stands.
THEOREM CountersExact == Spec => []CountersAgree
<1>1. TypeInv /\ CountersAgree /\ [Next]_vars => CountersAgree'
  BY NextCounters
<1> QED BY <1>1, InitCounters, TypeInvariant, PTL DEF Spec

LEMMA TypesFollow == TypeInv /\ CountersAgree => GovernanceTypeOK
<1> SUFFICES ASSUME TypeInv, CountersAgree PROVE GovernanceTypeOK
  OBVIOUS
<1>1. /\ now \in 0..MaxTime /\ govs \subseteq {GovernanceAccount}
      /\ realm.authority \in {RealmAuthority, None} \cup NewAuthorities
      /\ realm.council \in BOOLEAN /\ required \subseteq Signatories
  BY DEF TypeInv, RealmTypes, ConfigTypes, RealmRecord, GovTypes
<1>2. tor \in [Records -> TokenOwnerRecord]
  <2>1. tor \in [Records -> OwnerRecord]
    BY DEF TypeInv, RealmTypes, RecordTypes
  <2>2. \A k \in Records : tor[k].unrelinquished \in Nat
    <3> TAKE k \in Records
    <3>1. tor[k].unrelinquished = Cardinality(Live(k))
      BY CountersAgreeParts DEF LiveAgree
    <3>2. Cardinality(Live(k)) \in Nat
      BY ProposalsFinite DEF Live
    <3> QED BY <3>1, <3>2
  <2>3. \A r \in OwnerRecord : r.unrelinquished \in Nat => r \in TokenOwnerRecord
    BY DEF OwnerRecord, TokenOwnerRecord
  <2> QED BY <2>1, <2>2, <2>3
<1>3. holding \in [GoverningMints -> 0..MaxSupply] /\ wallet \in [GoverningMints -> 0..MaxSupply]
  BY RealmNumbers DEF TypeInv, RealmTypes, BalanceTypes
<1>4. ASSUME NEW p \in Proposals
      PROVE  /\ proposals[p].state \in ProposalStates \cup {"None"}
             /\ signatories[p] \in [Signatories -> {"none", "added", "signed"}]
             /\ Exists(p) => DOMAIN txs[p] = Slots(p)
  BY DEF TypeInv, ProposalTypes, ProposalRecord, NoProposal, TransactionTypes
<1>5. ASSUME NEW p \in Proposals, NEW k \in Records PROVE votes[p][k].exists \in BOOLEAN
  <2>1. votes[p][k] \in {NoVote} \cup VoteRecord
    BY DEF TypeInv, VoteRecordTypes
  <2>2. NoVote.exists = FALSE
    BY DEF NoVote
  <2>3. \A v \in VoteRecord : v.exists = TRUE
    BY DEF VoteRecord
  <2> QED BY <2>1, <2>2, <2>3, Zenon
<1> QED BY <1>1, <1>2, <1>3, <1>4, <1>5 DEF GovernanceTypeOK

\* What the accounts of a governance hold, at every size of the realm.
THEOREM GovernanceTypes == Spec => []GovernanceTypeOK
BY TypeInvariant, CountersExact, TypesFollow, PTL

-----------------------------------------------------------------------------
(* Deposits that are held *)

\* Nothing of a record is held: no vote, no proposal and no lock.
Free(k) ==
  /\ \A p \in Proposals : ~LiveVote(p, k)
  /\ \A p \in Proposals : proposals[p].state \in Undecided => proposals[p].owner # k
  /\ \A lock \in tor[k].locks : IsExpired(lock)

LEMMA CountersFree ==
  ASSUME CountersAgree, NEW k \in Records, CanWithdrawTokens(k)
  PROVE  Free(k)
<1>1. Cardinality(Live(k)) = 0 /\ Cardinality(OpenOf(k)) = 0
  BY CountersAgreeParts DEF LiveAgree, OpenAgree, CanWithdrawTokens
<1>2. IsFiniteSet(Live(k)) /\ IsFiniteSet(OpenOf(k))
  BY ProposalsFinite DEF Live, OpenOf
<1>3. Live(k) = {} /\ OpenOf(k) = {}
  BY <1>1, <1>2, FS_EmptySet
<1> QED BY <1>3 DEF Live, OpenOf, Free, CanWithdrawTokens

\* A step of a record's deposit: only a withdrawal or a revocation takes from it.
DepositSteps ==
  \A k \in Records :
    \/ tor'[k].deposit >= tor[k].deposit
    \/ tokens[k[1]].token_type = "Membership"
    \/ CanWithdrawTokens(k)

LEMMA DepositsOf ==
  ASSUME RealmTypes
  PROVE  /\ tor \in [Records -> OwnerRecord]
         /\ \A k \in Records : tor[k].deposit \in Nat
<1>1. tor \in [Records -> OwnerRecord]
  BY DEF RealmTypes, RecordTypes
<1>2. \A k \in Records : tor[k].deposit \in 0..MaxU64
  BY <1>1 DEF OwnerRecord
<1> QED BY <1>1, <1>2, RealmNumbers

LEMMA SameDepositSteps ==
  ASSUME RealmTypes, \A k \in Records : tor'[k].deposit = tor[k].deposit
  PROVE  DepositSteps
BY DepositsOf DEF DepositSteps

\* A step of one record that leaves its deposit.
LEMMA OneRecordSteps ==
  ASSUME RealmTypes, NEW k \in Records, NEW r, r.deposit = tor[k].deposit,
         tor' = [tor EXCEPT ![k] = r]
  PROVE  DepositSteps
BY DepositsOf DEF DepositSteps

LEMMA RealmDepositSteps ==
  ASSUME RealmTypes, RealmStep
  PROVE  DepositSteps
<1>1. ASSUME NEW k \in Records, CreateTokenOwnerRecord(k) PROVE DepositSteps
  <2>1. tor[k] = NoRecord
    BY <1>1 DEF CreateTokenOwnerRecord, RealmTypes, RecordTypes
  <2> QED BY <1>1, <2>1, NewRecordType, OneRecordSteps DEF CreateTokenOwnerRecord
<1>2. ASSUME NEW k \in Records, WithdrawGoverningTokens(k) PROVE DepositSteps
  <2>1. tor' = [tor EXCEPT ![k].deposit = 0] /\ CanWithdrawTokens(k)
    BY <1>2 DEF WithdrawGoverningTokens
  <2>2. \A j \in Records : j # k => tor'[j] = tor[j]
    BY <2>1, DepositsOf
  <2> QED BY <2>1, <2>2, DepositsOf DEF DepositSteps
<1>3. ASSUME NEW k \in Records, NEW amount \in Amounts, NEW minted \in BOOLEAN,
             DepositGoverningTokens(k, amount, minted)
      PROVE  DepositSteps
  <2> DEFINE r == [tor[k] EXCEPT !.exists = TRUE, !.deposit = @ + amount]
  <2>1. tor' = [tor EXCEPT ![k] = r]
    BY <1>3 DEF DepositGoverningTokens
  <2>2. r.deposit = tor[k].deposit + amount
    BY DepositsOf DEF OwnerRecord
  <2>3. amount \in Nat
    BY RealmAssumption
  <2> HIDE DEF r
  <2> QED BY <2>1, <2>2, <2>3, DepositsOf DEF DepositSteps
<1>4. ASSUME NEW k \in Records, NEW s, NEW amount \in Amounts,
             RevokeGoverningTokens(k, s, amount)
      PROVE  DepositSteps
  <2>1. /\ tor' = [tor EXCEPT ![k] = RevokedRecord(@, amount)]
        /\ tokens[k[1]].token_type = "Membership"
    BY <1>4 DEF RevokeGoverningTokens, CanRevoke
  <2>2. \A j \in Records : j # k => tor'[j] = tor[j]
    BY <2>1, DepositsOf
  <2> QED BY <2>1, <2>2, DepositsOf DEF DepositSteps
<1>5. ASSUME NEW k \in Records, NEW s, NEW d, SetGovernanceDelegate(k, s, d)
      PROVE  DepositSteps
  <2> DEFINE r == [tor[k] EXCEPT !.delegate = d]
  <2>1. tor' = [tor EXCEPT ![k] = r]
    BY <1>5 DEF SetGovernanceDelegate
  <2>2. r.deposit = tor[k].deposit
    BY DepositsOf DEF OwnerRecord
  <2> HIDE DEF r
  <2> QED BY <2>1, <2>2, OneRecordSteps
<1>6. ASSUME NEW k \in Records, NEW lock, SetTokenOwnerRecordLock(k, lock)
      PROVE  DepositSteps
  <2> DEFINE q == WithoutExpiredLocks(tor[k])
             r == UpsertLock(q, lock)
  <2>1. tor' = [tor EXCEPT ![k] = r]
    BY <1>6 DEF SetTokenOwnerRecordLock
  <2>2. q \in OwnerRecord /\ q.deposit = tor[k].deposit
    BY DepositsOf, WithoutExpiredType
  <2> HIDE DEF q
  <2>3. r.deposit = q.deposit
    BY <2>2 DEF UpsertLock, OwnerRecord
  <2> HIDE DEF r
  <2> QED BY <2>1, <2>2, <2>3, OneRecordSteps
<1>7. ASSUME NEW k \in Records, NEW a, NEW s, NEW ids,
             RelinquishTokenOwnerRecordLocks(k, a, s, ids)
      PROVE  DepositSteps
  <2> DEFINE q == WithoutLocks(tor[k], a, ids)
             r == WithoutExpiredLocks(q)
  <2>1. tor' = [tor EXCEPT ![k] = r]
    BY <1>7 DEF RelinquishTokenOwnerRecordLocks
  <2>2. q \in OwnerRecord /\ q.deposit = tor[k].deposit
    BY DepositsOf DEF OwnerRecord, WithoutLocks
  <2> HIDE DEF q
  <2>3. r.deposit = q.deposit
    BY <2>2, WithoutExpiredType
  <2> HIDE DEF r
  <2> QED BY <2>1, <2>2, <2>3, OneRecordSteps
<1>8. tor' = tor => DepositSteps
  BY SameDepositSteps
<1>9. ASSUME NEW s, NEW args, SetRealmConfig(s, args) PROVE DepositSteps
  BY <1>8, <1>9 DEF SetRealmConfig
<1>10. ASSUME NEW s, NEW m, NEW a, AddLockAuthority(s, m, a) \/ RemoveLockAuthority(s, m, a)
       PROVE  DepositSteps
  BY <1>8, <1>10 DEF AddLockAuthority, RemoveLockAuthority
<1>11. ASSUME NEW s, NEW action, NEW new, SetRealmAuthority(s, action, new) PROVE DepositSteps
  BY <1>8, <1>11 DEF SetRealmAuthority
<1>12. ASSUME NEW m, NEW amount, TransferToHolding(m, amount) PROVE DepositSteps
  BY <1>8, <1>12 DEF TransferToHolding
<1>13. Tick => DepositSteps
  BY <1>8 DEF Tick
<1> QED BY <1>1, <1>2, <1>3, <1>4, <1>5, <1>6, <1>7, <1>9, <1>10, <1>11, <1>12, <1>13, Zenon
        DEF RealmStep

LEMMA ExecuteTransactionKept ==
  ASSUME NEW p, NEW i, NEW n, ExecuteTransaction(p, i, n)
  PROVE  tor' = tor
<1>1. Perform(txs[p][<<i, n>>].instruction)
  BY Zenon DEF ExecuteTransaction
<1> QED BY <1>1 DEF Perform, SetGovernanceConfig, AddRequiredSignatory, RemoveRequiredSignatory,
                    SetRealmConfig, realmVars

\* Handlers of a governance leave the deposits alone.
LEMMA ProposalDepositSteps ==
  ASSUME TypeInv, ProposalStep
  PROVE  DepositSteps
<1>1. DepositsKept => DepositSteps
  BY SameDepositSteps DEF TypeInv, DepositsKept
<1>2. tor' = tor => DepositSteps
  BY SameDepositSteps DEF TypeInv
<1>3. CASE \E k \in Records, config \in GovernanceConfigs :
             \/ \E s \in Voters : CreateGovernance(s, k, config)
             \/ CreateGovernance(RealmAuthority, k, config)
  BY <1>1, <1>3, CreateGovernanceKept, Zenon
<1>4. ASSUME NEW p \in Proposals,
             \/ FinalizeVote(p)
             \/ RefundProposalDeposit(p)
             \/ \E k \in Records : ReleaseVote(p, k)
             \/ \E i \in 1..MaxOptions, n \in 0..MaxTransactions-1 : ExecuteTransaction(p, i, n)
      PROVE  DepositSteps
  <2>1. RefundProposalDeposit(p) => tor' = tor
    BY DEF RefundProposalDeposit, realmVars
  <2> QED BY <1>1, <1>2, <1>4, <2>1, FinalizeVoteKept, ReleaseVoteKept, ExecuteTransactionKept, Zenon
<1>5. ASSUME NEW p \in Proposals, NEW s \in Signers,
             \/ SignOffProposal(p, s)
             \/ CancelProposal(p, s)
             \/ CompleteProposal(p, s)
             \/ \E x \in Signatories : AddSignatory(p, s, x)
             \/ \E k \in Records :
                  \/ \E args \in ProposalArgs : CreateProposal(p, k, s, args)
                  \/ \E vote \in Votes : CastVote(p, k, s, vote)
                  \/ WithdrawVote(p, k, s)
             \/ \E i \in 1..MaxOptions, n \in 0..MaxTransactions-1 :
                  \/ \E x \in Instructions : InsertTransaction(p, s, i, n, x)
                  \/ RemoveTransaction(p, s, i, n)
      PROVE  DepositSteps
  <2>1. SignOffProposal(p, s) \/ CompleteProposal(p, s) => tor' = tor
    BY DEF SignOffProposal, CompleteProposal, realmVars
  <2>2. \A x \in Signatories : AddSignatory(p, s, x) => tor' = tor
    BY DEF AddSignatory, realmVars
  <2>3. \A i, n, x : InsertTransaction(p, s, i, n, x) => tor' = tor
    BY Zenon DEF InsertTransaction, realmVars
  <2>4. \A i, n : RemoveTransaction(p, s, i, n) => tor' = tor
    BY Zenon DEF RemoveTransaction, realmVars
  <2> QED BY <1>1, <1>2, <1>5, <2>1, <2>2, <2>3, <2>4, CancelProposalKept, CreateProposalKept,
             CastVoteKept, WithdrawVoteKept, Zenon
<1> QED BY <1>3, <1>4, <1>5, Zenon DEF ProposalStep

\* A deposit that secures a vote or a proposal, or that is locked, cannot shrink, in
\* whatever order votes, decisions, withdrawals and locks come; only membership
\* tokens can be revoked from under it.
THEOREM DepositsStay == Spec => DepositsHeld
<1> DEFINE Held == \A k \in Records :
             tor'[k].deposit < tor[k].deposit =>
               \/ tokens[k[1]].token_type = "Membership"
               \/ /\ \A p \in Proposals : ~LiveVote(p, k)
                  /\ \A p \in Proposals : proposals[p].state \in Undecided => proposals[p].owner # k
                  /\ \A lock \in tor[k].locks : IsExpired(lock)
<1>1. TypeInv /\ TypeInv' /\ CountersAgree /\ [Next]_vars => [Held]_vars
  <2> SUFFICES ASSUME TypeInv, TypeInv', CountersAgree, Next PROVE Held
    OBVIOUS
  <2>1. DepositSteps
    BY RealmDepositSteps, ProposalDepositSteps DEF TypeInv, Next
  <2>2. ASSUME NEW k \in Records, tor'[k].deposit < tor[k].deposit
        PROVE  tokens[k[1]].token_type = "Membership" \/ Free(k)
    <3>1. tor[k].deposit \in Nat
      BY DepositsOf DEF TypeInv
    <3>2. tor'[k].deposit \in Nat
      <4>1. tor' \in [Records -> OwnerRecord]
        BY DEF TypeInv, RealmTypes, RecordTypes
      <4>2. tor'[k].deposit \in 0..MaxU64
        BY <4>1 DEF OwnerRecord
      <4> QED BY <4>2, RealmNumbers
    <3>3. ~(tor'[k].deposit >= tor[k].deposit)
      BY <2>2, <3>1, <3>2
    <3> QED BY <2>1, <3>3, CountersFree DEF DepositSteps
  <2> QED BY <2>2 DEF Free
<1> QED BY <1>1, TypeInvariant, CountersExact, PTL DEF Spec, DepositsHeld

-----------------------------------------------------------------------------
(* Tallies *)

\* The parts of a vote: an option's number, or one of these.
Against == 0
Veto == -1
Whole == -2

PartOf(x, vote, weight) ==
  IF x = Against THEN DenyPart(vote, weight)
  ELSE IF x = Veto THEN VetoPart(vote, weight)
  ELSE IF x = Whole THEN weight
  ELSE OptionPart(vote, weight, x)

VotePart(v, x) == IF v.exists THEN PartOf(x, v.vote, v.weight) ELSE 0

\* What the votes of a mint's owners add up to, where row has a proposal's votes.
Ballots(row, m, x) == [o \in Owners |-> VotePart(row[<<m, o>>], x)]
Tally(row, m, x) == Total(Ballots(row, m, x), NOwners)

\* The running tally of a proposal, and the mint whose votes it counts.
Parts(q) == {Against, Veto} \cup DOMAIN q.options

Counted(q, x) ==
  IF x = Against THEN q.deny_vote_weight
  ELSE IF x = Veto THEN q.veto_vote_weight
  ELSE q.options[x].vote_weight

PartMint(mint, x) == IF x = Veto THEN MintForVote(mint, "veto") ELSE mint

CountedRight(q, row) ==
  \A x \in Parts(q) : Counted(q, x) = Tally(row, PartMint(q.mint, x), x)

TallyExact == \A p \in Proposals : Exists(p) => CountedRight(proposals[p], votes[p])

\* The votes of a row have natural numbers as the part.
PartFits(row, x) == \A k \in Records : VotePart(row[k], x) \in Nat

LEMMA TallyNat ==
  ASSUME NEW row, NEW m \in GoverningMints, NEW x, PartFits(row, x)
  PROVE  /\ Ballots(row, m, x) \in [1..NOwners -> Nat]
         /\ Tally(row, m, x) \in Nat
         /\ \A o \in Owners : VotePart(row[<<m, o>>], x) <= Tally(row, m, x)
<1> DEFINE f == Ballots(row, m, x)
<1>1. f \in [1..NOwners -> Nat] /\ \A o \in Owners : f[o] = VotePart(row[<<m, o>>], x)
  BY RecordKeys, RealmNumbers DEF Ballots, PartFits
<1> HIDE DEF f
<1>2. Total(f, NOwners) \in Nat /\ \A o \in 1..NOwners : f[o] <= Total(f, NOwners)
  BY <1>1, RealmNumbers, TotalNat, TotalBoundsEntry
<1>3. \A o \in Owners : f[o] <= Total(f, NOwners)
  BY <1>2, RealmNumbers
<1> QED BY <1>1, <1>2, <1>3 DEF Tally, f

LEMMA TallySame ==
  ASSUME NEW row, NEW new, NEW m \in GoverningMints, NEW x,
         \A o \in Owners : VotePart(new[<<m, o>>], x) = VotePart(row[<<m, o>>], x)
  PROVE  Tally(new, m, x) = Tally(row, m, x)
<1>1. Ballots(new, m, x) = Ballots(row, m, x)
  BY DEF Ballots
<1> QED BY <1>1 DEF Tally

\* One vote changes.
LEMMA TallyChange ==
  ASSUME NEW row, NEW new, NEW x, PartFits(row, x), PartFits(new, x), NEW k \in Records,
         \A j \in Records : j # k => VotePart(new[j], x) = VotePart(row[j], x),
         NEW m \in GoverningMints
  PROVE  Tally(new, m, x) =
           Tally(row, m, x) +
             (IF m = k[1] THEN VotePart(new[k], x) - VotePart(row[k], x) ELSE 0)
<1>1. k = <<k[1], k[2]>> /\ k[1] \in GoverningMints /\ k[2] \in Owners
  BY RecordKeys
<1>2. Tally(row, m, x) \in Nat
  BY TallyNat
<1>3. CASE m = k[1]
  <2> DEFINE f == Ballots(row, m, x)
             g == Ballots(new, m, x)
  <2>1. f \in [1..NOwners -> Nat] /\ g \in [1..NOwners -> Nat]
    BY TallyNat
  <2>2. k[2] \in 1..NOwners /\ NOwners \in Nat
    BY <1>1, RealmNumbers
  <2>3. f[k[2]] = VotePart(row[k], x) /\ g[k[2]] = VotePart(new[k], x)
    BY <1>1, <1>3 DEF Ballots
  <2>4. \A o \in 1..NOwners : o # k[2] => g[o] = f[o]
    <3>1. SUFFICES ASSUME NEW o \in Owners, o # k[2] PROVE g[o] = f[o]
      BY RealmNumbers
    <3>2. <<m, o>> \in Records /\ <<m, o>> # k
      BY <1>1, <3>1, RecordKeys
    <3> QED BY <3>2 DEF Ballots
  <2> HIDE DEF f, g
  <2>5. Total(g, NOwners) = Total(f, NOwners) + g[k[2]] - f[k[2]]
    BY <2>1, <2>2, <2>4, TotalUpdate
  <2>6. VotePart(row[k], x) \in Nat /\ VotePart(new[k], x) \in Nat
    BY DEF PartFits
  <2>7. Tally(row, m, x) = Total(f, NOwners) /\ Tally(new, m, x) = Total(g, NOwners)
    BY DEF Tally, f, g
  <2> QED BY <1>2, <1>3, <2>3, <2>5, <2>6, <2>7
<1>4. CASE m # k[1]
  <2>1. \A o \in Owners : <<m, o>> \in Records /\ <<m, o>> # k
    BY <1>4, RecordKeys
  <2>2. \A o \in Owners : VotePart(new[<<m, o>>], x) = VotePart(row[<<m, o>>], x)
    BY <2>1
  <2>3. Tally(new, m, x) = Tally(row, m, x)
    BY <2>2, TallySame
  <2> QED BY <1>2, <1>4, <2>3
<1> QED BY <1>3, <1>4

\* The sums of the properties, in these terms.
LEMMA SumsAreTallies ==
  ASSUME NEW p, NEW m
  PROVE  /\ SumOfVotes(p, m, DenyPart) = Tally(votes[p], m, Against)
         /\ SumOfVotes(p, m, VetoPart) = Tally(votes[p], m, Veto)
         /\ SumOfVotes(p, m, LAMBDA vote, w : w) = Tally(votes[p], m, Whole)
<1>1. /\ \A v, w : PartOf(Against, v, w) = DenyPart(v, w)
      /\ \A v, w : PartOf(Veto, v, w) = VetoPart(v, w)
      /\ \A v, w : PartOf(Whole, v, w) = w
  BY DEF PartOf, Against, Veto, Whole
<1>2. SumOfVotes(p, m, DenyPart) = Tally(votes[p], m, Against)
  BY <1>1, Zenon DEF SumOfVotes, Tally, Ballots, VotePart
<1>3. SumOfVotes(p, m, VetoPart) = Tally(votes[p], m, Veto)
  BY <1>1, Zenon DEF SumOfVotes, Tally, Ballots, VotePart
<1>4. SumOfVotes(p, m, LAMBDA vote, w : w) = Tally(votes[p], m, Whole)
  BY <1>1, Zenon DEF SumOfVotes, Tally, Ballots, VotePart
<1> QED BY <1>2, <1>3, <1>4, Zenon

LEMMA OptionSumsAreTallies ==
  ASSUME NEW p, NEW m, NEW i \in Nat \ {0}
  PROVE  SumOfVotes(p, m, LAMBDA vote, w : OptionPart(vote, w, i)) = Tally(votes[p], m, i)
<1>1. \A v, w : PartOf(i, v, w) = OptionPart(v, w, i)
  BY DEF PartOf, Against, Veto, Whole
<1> QED BY <1>1, Zenon DEF SumOfVotes, Tally, Ballots, VotePart

LEMMA TallyAgreesParts == TypeInv => (TallyAgrees <=> TallyExact)
<1> DEFINE Right(p) ==
      LET q == proposals[p] IN
      /\ \A i \in DOMAIN q.options :
           q.options[i].vote_weight =
             SumOfVotes(p, q.mint, LAMBDA vote, w : OptionPart(vote, w, i))
      /\ q.deny_vote_weight = SumOfVotes(p, q.mint, DenyPart)
      /\ q.veto_vote_weight = SumOfVotes(p, MintForVote(q.mint, "veto"), VetoPart)
<1>1. ASSUME TypeInv, NEW p \in Proposals, Exists(p)
      PROVE  Right(p) <=> CountedRight(proposals[p], votes[p])
  <2> DEFINE q == proposals[p]
  <2>1. \A i \in DOMAIN q.options : i \in Nat \ {0}
    BY <1>1, ProposalOf, OptionListOf
  <2>2. \A i \in DOMAIN q.options :
          /\ SumOfVotes(p, q.mint, LAMBDA vote, w : OptionPart(vote, w, i))
               = Tally(votes[p], PartMint(q.mint, i), i)
          /\ Counted(q, i) = q.options[i].vote_weight
    <3> SUFFICES ASSUME NEW i \in DOMAIN q.options
                 PROVE  /\ SumOfVotes(p, q.mint, LAMBDA vote, w : OptionPart(vote, w, i))
                             = Tally(votes[p], PartMint(q.mint, i), i)
                        /\ Counted(q, i) = q.options[i].vote_weight
      BY Zenon
    <3>1. i \in Nat \ {0}
      BY <2>1
    <3>2. PartMint(q.mint, i) = q.mint /\ Counted(q, i) = q.options[i].vote_weight
      BY <3>1 DEF PartMint, Counted, Against, Veto
    <3> QED BY <3>1, <3>2, OptionSumsAreTallies, Zenon
  <2>3. /\ PartMint(q.mint, Against) = q.mint
        /\ PartMint(q.mint, Veto) = MintForVote(q.mint, "veto")
        /\ Counted(q, Against) = q.deny_vote_weight
        /\ Counted(q, Veto) = q.veto_vote_weight
    BY DEF PartMint, Counted, Against, Veto
  <2>4. CountedRight(q, votes[p]) <=>
          /\ \A i \in DOMAIN q.options : Counted(q, i) = Tally(votes[p], PartMint(q.mint, i), i)
          /\ Counted(q, Against) = Tally(votes[p], PartMint(q.mint, Against), Against)
          /\ Counted(q, Veto) = Tally(votes[p], PartMint(q.mint, Veto), Veto)
    BY DEF CountedRight, Parts
  <2> HIDE DEF q
  <2>5. CountedRight(q, votes[p]) <=>
          /\ \A i \in DOMAIN q.options :
               q.options[i].vote_weight =
                 SumOfVotes(p, q.mint, LAMBDA vote, w : OptionPart(vote, w, i))
          /\ q.deny_vote_weight = SumOfVotes(p, q.mint, DenyPart)
          /\ q.veto_vote_weight = SumOfVotes(p, MintForVote(q.mint, "veto"), VetoPart)
    BY <2>2, <2>3, <2>4, SumsAreTallies, Zenon
  <2> QED BY <2>5, Zenon DEF q
<1>2. TallyAgrees <=> \A p \in Proposals : Exists(p) => Right(p)
  BY Zenon DEF TallyAgrees
<1> HIDE DEF Right
<1> QED BY <1>1, <1>2 DEF TallyExact

-----------------------------------------------------------------------------
(* What the handlers leave of a proposal's vote *)

\* r has the vote of q: its rules, its tally and how it was decided.
SameVote(r, q) ==
  /\ r.mint = q.mint /\ r.owner = q.owner
  /\ r.vote_type = q.vote_type /\ r.use_deny = q.use_deny
  /\ r.deny_vote_weight = q.deny_vote_weight /\ r.veto_vote_weight = q.veto_vote_weight
  /\ r.tipping = q.tipping
  /\ r.max_vote_weight = q.max_vote_weight /\ r.vote_threshold = q.vote_threshold

\* Only the state of the proposal changes, and what no invariant is about.
StateChange(p, q) ==
  /\ Exists(p) /\ proposals' = [proposals EXCEPT ![p] = q]
  /\ q.options = proposals[p].options /\ SameVote(q, proposals[p])
  /\ UNCHANGED <<votes, txs>>

LEMMA AddSignatoryState ==
  ASSUME TypeInv, NEW p \in Proposals, NEW s, NEW x, AddSignatory(p, s, x)
  PROVE  \E q : StateChange(p, q) /\ q.state = proposals[p].state
<1> DEFINE q == [proposals[p] EXCEPT !.signatories_count = @ + 1]
<1>1. Exists(p) /\ proposals' = [proposals EXCEPT ![p] = q] /\ UNCHANGED <<votes, txs>>
  BY DEF AddSignatory, Exists
<1>2. /\ q.state = proposals[p].state /\ q.options = proposals[p].options
      /\ SameVote(q, proposals[p])
  BY <1>1, ProposalOf DEF ProposalRecord, SameVote
<1> HIDE DEF q
<1> QED BY <1>1, <1>2 DEF StateChange

LEMMA SignOffProposalState ==
  ASSUME TypeInv, NEW p \in Proposals, NEW s, SignOffProposal(p, s)
  PROVE  /\ proposals[p].state \in {"Draft", "SigningOff"}
         /\ \E q : StateChange(p, q) /\ q.state \in {"SigningOff", "Voting"}
<1>1. /\ Exists(p) /\ proposals[p].state \in {"Draft", "SigningOff"}
      /\ UNCHANGED <<votes, txs>>
  BY DEF SignOffProposal, Exists
<1>2. proposals[p] \in ProposalRecord
  BY <1>1, ProposalOf
<1>3. ASSUME NEW r, SameVote(r, proposals[p]), r.options = proposals[p].options,
             r \in ProposalRecord
      PROVE  LET v == StartVotingIf(r, TRUE)
             IN  /\ SameVote(v, proposals[p]) /\ v.options = proposals[p].options
                 /\ v.state = "Voting"
  BY <1>3 DEF ProposalRecord, SameVote, StartVotingIf
<1>4. CASE proposals[p].signatories_count = 0
  <2> DEFINE q == StartVotingIf(proposals[p], TRUE)
  <2>1. proposals' = [proposals EXCEPT ![p] = q]
    BY <1>4 DEF SignOffProposal
  <2>2. SameVote(q, proposals[p]) /\ q.options = proposals[p].options /\ q.state = "Voting"
    BY <1>2, <1>3 DEF SameVote
  <2> HIDE DEF q
  <2> QED BY <1>1, <2>1, <2>2 DEF StateChange
<1>5. CASE proposals[p].signatories_count # 0
  <2> DEFINE r == [proposals[p] EXCEPT !.signed_off_count = @ + 1, !.state = "SigningOff"]
             all == proposals[p].signed_off_count + 1 = proposals[p].signatories_count
             q == StartVotingIf(r, all)
  <2>1. proposals' = [proposals EXCEPT ![p] = q]
    BY <1>5 DEF SignOffProposal
  <2>2. /\ SameVote(r, proposals[p]) /\ r.options = proposals[p].options
        /\ r.state = "SigningOff" /\ r \in ProposalRecord
    <3>1. r \in ProposalRecord
      <4> DEFINE t == [proposals[p] EXCEPT !.signed_off_count = @ + 1]
      <4>1. t \in ProposalRecord
        BY <1>2 DEF ProposalRecord
      <4>2. r = [t EXCEPT !.state = "SigningOff"]
        OBVIOUS
      <4> HIDE DEF t
      <4> QED BY <4>1, <4>2 DEF ProposalRecord, ProposalStates
    <3>2. /\ SameVote(r, proposals[p]) /\ r.options = proposals[p].options
          /\ r.state = "SigningOff"
      BY <1>2 DEF ProposalRecord, SameVote
    <3> QED BY <3>1, <3>2
  <2> HIDE DEF all, r
  <2> DEFINE v == StartVotingIf(r, TRUE)
  <2>4. SameVote(v, proposals[p]) /\ v.options = proposals[p].options /\ v.state = "Voting"
    BY <1>3, <2>2
  <2>5. q = v \/ q = r
    BY DEF StartVotingIf
  <2> HIDE DEF v
  <2>3. /\ SameVote(q, proposals[p]) /\ q.options = proposals[p].options
        /\ q.state \in {"SigningOff", "Voting"}
    BY <2>2, <2>4, <2>5
  <2> HIDE DEF q
  <2> QED BY <1>1, <2>1, <2>3 DEF StateChange
<1> QED BY <1>1, <1>4, <1>5

LEMMA CancelProposalState ==
  ASSUME TypeInv, NEW p \in Proposals, NEW s, CancelProposal(p, s)
  PROVE  /\ proposals[p].state \in Undecided
         /\ \E q : StateChange(p, q) /\ q.state = "Cancelled"
<1> DEFINE q == [proposals[p] EXCEPT !.state = "Cancelled"]
<1>1. /\ Exists(p) /\ proposals[p].state \in Undecided
      /\ proposals' = [proposals EXCEPT ![p] = q] /\ UNCHANGED <<votes, txs>>
  BY CancelProposalOutcome
<1>2. /\ q.state = "Cancelled" /\ q.options = proposals[p].options
      /\ SameVote(q, proposals[p])
  BY <1>1, ProposalOf DEF ProposalRecord, SameVote
<1> HIDE DEF q
<1> QED BY <1>1, <1>2 DEF StateChange

LEMMA CompleteProposalState ==
  ASSUME TypeInv, NEW p \in Proposals, NEW s, CompleteProposal(p, s)
  PROVE  /\ proposals[p].state = "Succeeded"
         /\ \A i \in DOMAIN proposals[p].options :
              proposals[p].options[i].transactions_count = 0
         /\ \E q : StateChange(p, q) /\ q.state = "Completed"
<1> DEFINE q == [proposals[p] EXCEPT !.state = "Completed"]
<1>1. /\ Exists(p) /\ proposals' = [proposals EXCEPT ![p] = q] /\ UNCHANGED <<votes, txs>>
      /\ proposals[p].state = "Succeeded"
      /\ \A i \in DOMAIN proposals[p].options :
           proposals[p].options[i].transactions_count = 0
  BY DEF CompleteProposal, CanComplete
<1>2. /\ q.state = "Completed" /\ q.options = proposals[p].options
      /\ SameVote(q, proposals[p])
  BY <1>1, ProposalOf DEF ProposalRecord, SameVote
<1> HIDE DEF q
<1> QED BY <1>1, <1>2 DEF StateChange

LEMMA RefundProposalDepositState ==
  ASSUME TypeInv, NEW p \in Proposals, RefundProposalDeposit(p)
  PROVE  \E q : StateChange(p, q) /\ q.state = proposals[p].state
<1> DEFINE q == [proposals[p] EXCEPT !.deposit = 0]
<1>1. Exists(p) /\ proposals' = [proposals EXCEPT ![p] = q] /\ UNCHANGED <<votes, txs>>
  BY DEF RefundProposalDeposit
<1>2. /\ q.state = proposals[p].state /\ q.options = proposals[p].options
      /\ SameVote(q, proposals[p])
  BY <1>1, ProposalOf DEF ProposalRecord, SameVote
<1> HIDE DEF q
<1> QED BY <1>1, <1>2 DEF StateChange

\* r is q, resolved with the least number of votes that passes.
Resolution(r, q, min) ==
  /\ r.mint = q.mint /\ r.owner = q.owner /\ r.tipping = q.tipping
  /\ r.use_deny = q.use_deny /\ r.vote_type = q.vote_type
  /\ r.deny_vote_weight = q.deny_vote_weight /\ r.veto_vote_weight = q.veto_vote_weight
  /\ r.state = FinalVoteState(q, min)
  /\ DOMAIN r.options = DOMAIN q.options
  /\ \A i \in DOMAIN q.options :
       /\ r.options[i].vote_weight = q.options[i].vote_weight
       /\ r.options[i].transactions_count = q.options[i].transactions_count
       /\ r.options[i].transactions_executed_count = q.options[i].transactions_executed_count
       /\ r.options[i].vote_result \in {"Succeeded", "Defeated"}
       /\ r.options[i].vote_result = "Succeeded" <=> i \in Winners(q, min)

LEMMA FinalizeVoteResolved ==
  ASSUME TypeInv, NEW p \in Proposals, FinalizeVote(p)
  PROVE  \E r, min : /\ proposals' = [proposals EXCEPT ![p] = r]
                     /\ Resolution(r, proposals[p], min)
<1> DEFINE q == proposals[p]
           Resolved(r, min) ==
             /\ proposals' = [proposals EXCEPT ![p] = r]
             /\ DOMAIN r.options = DOMAIN q.options
             /\ \A i \in DOMAIN q.options :
                  r.options[i] = [q.options[i] EXCEPT !.vote_result =
                    IF i \in Winners(q, min) THEN "Succeeded" ELSE "Defeated"]
             /\ r.state = FinalVoteState(q, min)
             /\ r.mint = q.mint /\ r.owner = q.owner /\ r.tipping = q.tipping
             /\ r.use_deny = q.use_deny /\ r.vote_type = q.vote_type
             /\ r.deny_vote_weight = q.deny_vote_weight
             /\ r.veto_vote_weight = q.veto_vote_weight
<1>1. PICK max \in Nat, threshold \in Thresholds :
        \E r \in ProposalRecord : Resolved(r, MinVoteThresholdWeight(threshold, max))
  BY FinalizeVoteOutcome, Zenon
<1>2. ASSUME NEW o \in ProposalOption, NEW v
      PROVE  LET c == [o EXCEPT !.vote_result = v]
             IN  /\ c.vote_weight = o.vote_weight
                 /\ c.transactions_count = o.transactions_count
                 /\ c.transactions_executed_count = o.transactions_executed_count
                 /\ c.vote_result = v
  BY DEF ProposalOption
<1>4. \A i \in DOMAIN q.options : q.options[i] \in ProposalOption
  <2>1. Exists(p)
    BY FinalizeVoteOutcome, Zenon
  <2> QED BY <2>1, ProposalOf, OptionListOf
<1> DEFINE min == MinVoteThresholdWeight(threshold, max)
<1>5. PICK r \in ProposalRecord : Resolved(r, min)
  BY <1>1, Zenon
<1> HIDE DEF min
<1>6. ASSUME NEW i \in DOMAIN q.options
      PROVE  /\ r.options[i].vote_weight = q.options[i].vote_weight
             /\ r.options[i].transactions_count = q.options[i].transactions_count
             /\ r.options[i].transactions_executed_count
                  = q.options[i].transactions_executed_count
             /\ r.options[i].vote_result \in {"Succeeded", "Defeated"}
             /\ r.options[i].vote_result = "Succeeded" <=> i \in Winners(q, min)
  <2> DEFINE v == IF i \in Winners(q, min) THEN "Succeeded" ELSE "Defeated"
  <2>1. r.options[i] = [q.options[i] EXCEPT !.vote_result = v]
    BY <1>5
  <2>2. v \in {"Succeeded", "Defeated"} /\ (v = "Succeeded" <=> i \in Winners(q, min))
    OBVIOUS
  <2> HIDE DEF v
  <2>3. /\ r.options[i].vote_weight = q.options[i].vote_weight
        /\ r.options[i].transactions_count = q.options[i].transactions_count
        /\ r.options[i].transactions_executed_count = q.options[i].transactions_executed_count
        /\ r.options[i].vote_result = v
    BY <1>2, <1>4, <2>1
  <2> QED BY <2>2, <2>3
<1>7. Resolution(r, q, min)
  BY <1>5, <1>6 DEF Resolution
<1> QED BY <1>5, <1>7

\* The number of transactions of one option changes, while the proposal is a draft.
DraftChange(p, i, o) ==
  /\ Exists(p) /\ i \in DOMAIN proposals[p].options
  /\ proposals[p].state = "Draft"
  /\ \E q : /\ proposals' = [proposals EXCEPT ![p] = q]
            /\ q.options = [proposals[p].options EXCEPT ![i] = o]
            /\ q.state = "Draft" /\ SameVote(q, proposals[p])
  /\ o.vote_weight = proposals[p].options[i].vote_weight
  /\ o.vote_result = proposals[p].options[i].vote_result
  /\ o.transactions_executed_count = proposals[p].options[i].transactions_executed_count
  /\ votes' = votes

LEMMA DraftChanged ==
  ASSUME TypeInv, NEW p \in Proposals, Exists(p), NEW i \in DOMAIN proposals[p].options,
         NEW o
  PROVE  LET q == [proposals[p] EXCEPT !.options[i] = o]
         IN  /\ q.options = [proposals[p].options EXCEPT ![i] = o]
             /\ q.state = proposals[p].state /\ SameVote(q, proposals[p])
<1>1. proposals[p] \in ProposalRecord
  BY ProposalOf
<1> QED BY <1>1 DEF ProposalRecord, SameVote

LEMMA InsertTransactionState ==
  ASSUME TypeInv, NEW p \in Proposals, NEW s, NEW i, NEW n, NEW x,
         InsertTransaction(p, s, i, n, x)
  PROVE  /\ <<i, n>> \in Slots(p) /\ ~txs[p][<<i, n>>].exists
         /\ txs' = [txs EXCEPT ![p][<<i, n>>] =
              [exists |-> TRUE, instruction |-> x, executed |-> FALSE]]
         /\ \E o : /\ DraftChange(p, i, o)
                   /\ o.transactions_count = proposals[p].options[i].transactions_count + 1
<1> DEFINE old == proposals[p].options[i]
           o == WithTransaction(old, n)
           q == [proposals[p] EXCEPT !.options[i] = o]
<1>1. /\ Exists(p) /\ <<i, n>> \in Slots(p) /\ ~txs[p][<<i, n>>].exists
      /\ proposals' = [proposals EXCEPT ![p] = q] /\ votes' = votes
      /\ txs' = [txs EXCEPT ![p][<<i, n>>] =
           [exists |-> TRUE, instruction |-> x, executed |-> FALSE]]
      /\ proposals[p].state = "Draft"
  BY Zenon DEF InsertTransaction, CanEditInstructions
<1>2. i \in DOMAIN proposals[p].options
  BY <1>1 DEF Slots
<1>3. old \in ProposalOption
  BY <1>1, <1>2, ProposalOf, OptionListOf
<1>4. /\ o.vote_weight = old.vote_weight /\ o.vote_result = old.vote_result
      /\ o.transactions_executed_count = old.transactions_executed_count
      /\ o.transactions_count = old.transactions_count + 1
  <2> HIDE DEF old
  <2> QED BY <1>3 DEF ProposalOption, WithTransaction
<1> HIDE DEF o
<1>5. /\ q.options = [proposals[p].options EXCEPT ![i] = o]
      /\ q.state = "Draft" /\ SameVote(q, proposals[p])
  BY <1>1, <1>2, DraftChanged
<1> HIDE DEF q
<1>6. DraftChange(p, i, o)
  BY <1>1, <1>2, <1>4, <1>5 DEF DraftChange
<1> QED BY <1>1, <1>4, <1>6, Zenon

LEMMA RemoveTransactionState ==
  ASSUME TypeInv, NEW p \in Proposals, NEW s, NEW i, NEW n, RemoveTransaction(p, s, i, n)
  PROVE  /\ <<i, n>> \in Slots(p) /\ txs[p][<<i, n>>].exists
         /\ txs' = [txs EXCEPT ![p][<<i, n>>] = NoTransaction]
         /\ \E o : /\ DraftChange(p, i, o)
                   /\ o.transactions_count = proposals[p].options[i].transactions_count - 1
<1> DEFINE old == proposals[p].options[i]
           o == [old EXCEPT !.transactions_count = @ - 1]
           q == [proposals[p] EXCEPT !.options[i] = o]
<1>1. /\ Exists(p) /\ <<i, n>> \in Slots(p) /\ txs[p][<<i, n>>].exists
      /\ votes' = votes
      /\ txs' = [txs EXCEPT ![p][<<i, n>>] = NoTransaction]
      /\ proposals[p].state = "Draft"
  BY Zenon DEF RemoveTransaction, CanEditInstructions
<1>0. proposals' = [proposals EXCEPT ![p] = q]
  <2>1. proposals' = [proposals EXCEPT ![p] =
          [proposals[p] EXCEPT !.options[i].transactions_count = @ - 1]]
    BY Zenon DEF RemoveTransaction
  <2>2. [proposals[p] EXCEPT !.options[i].transactions_count = @ - 1] = q
    OBVIOUS
  <2> QED BY <2>1, <2>2, Zenon
<1>2. i \in DOMAIN proposals[p].options
  BY <1>1 DEF Slots
<1>3. old \in ProposalOption
  BY <1>1, <1>2, ProposalOf, OptionListOf
<1>4. /\ o.vote_weight = old.vote_weight /\ o.vote_result = old.vote_result
      /\ o.transactions_executed_count = old.transactions_executed_count
      /\ o.transactions_count = old.transactions_count - 1
  <2> HIDE DEF old
  <2> QED BY <1>3 DEF ProposalOption
<1> HIDE DEF o
<1>5. /\ q.options = [proposals[p].options EXCEPT ![i] = o]
      /\ q.state = "Draft" /\ SameVote(q, proposals[p])
  BY <1>1, <1>2, DraftChanged
<1> HIDE DEF q
<1>6. DraftChange(p, i, o)
  BY <1>0, <1>1, <1>2, <1>4, <1>5 DEF DraftChange
<1> QED BY <1>1, <1>4, <1>6, Zenon

-----------------------------------------------------------------------------
(* Tallies: how votes add up *)

SameWeights(r, q) ==
  /\ r.mint = q.mint /\ DOMAIN r.options = DOMAIN q.options
  /\ r.deny_vote_weight = q.deny_vote_weight /\ r.veto_vote_weight = q.veto_vote_weight
  /\ \A i \in DOMAIN q.options : r.options[i].vote_weight = q.options[i].vote_weight

SameParts(new, row) ==
  \A k \in Records : /\ new[k].exists = row[k].exists
                     /\ row[k].exists => /\ new[k].vote = row[k].vote
                                         /\ new[k].weight = row[k].weight

LEMMA PartMintType ==
  ASSUME NEW m \in GoverningMints, NEW x
  PROVE  PartMint(m, x) \in GoverningMints
BY DEF PartMint, MintForVote, GoverningMints

LEMMA RightKept ==
  ASSUME NEW q, NEW r, NEW row, NEW new, q.mint \in GoverningMints,
         CountedRight(q, row), SameWeights(r, q), SameParts(new, row)
  PROVE  CountedRight(r, new)
<1> SUFFICES ASSUME NEW x \in Parts(r)
             PROVE  Counted(r, x) = Tally(new, PartMint(r.mint, x), x)
  BY DEF CountedRight
<1>1. x \in Parts(q) /\ r.mint = q.mint
  BY DEF SameWeights, Parts
<1>2. Counted(r, x) = Counted(q, x)
  BY <1>1 DEF SameWeights, Counted, Parts
<1>3. \A k \in Records : VotePart(new[k], x) = VotePart(row[k], x)
  BY DEF SameParts, VotePart
<1>4. PartMint(q.mint, x) \in GoverningMints
  BY PartMintType
<1>5. Tally(new, PartMint(q.mint, x), x) = Tally(row, PartMint(q.mint, x), x)
  BY <1>3, <1>4, TallySame, RecordKeys
<1> QED BY <1>1, <1>2, <1>5 DEF CountedRight

LEMMA SamePartsTrue == \A row : SameParts(row, row)
BY DEF SameParts

\* One proposal changes, and no weight of it.
LEMMA WeightsKept ==
  ASSUME TypeInv, TallyExact, NEW p \in Proposals, Exists(p), NEW q,
         proposals' = [proposals EXCEPT ![p] = q], SameWeights(q, proposals[p]),
         UNCHANGED votes
  PROVE  TallyExact'
<1>1. proposals[p].mint \in GoverningMints
  BY ProposalOf DEF ProposalRecord
<1>2. CountedRight(q, votes[p])
  BY <1>1, RightKept, SamePartsTrue DEF TallyExact
<1>3. \A r \in Proposals : proposals'[r] = IF r = p THEN q ELSE proposals[r]
  BY DEF TypeInv, ProposalTypes
<1>4. \A r \in Proposals : Exists(r)' => CountedRight(proposals'[r], votes[r])
  BY <1>2, <1>3 DEF TallyExact, Exists
<1> QED BY <1>4 DEF TallyExact

LEMMA StateChangeTally ==
  ASSUME TypeInv, TallyExact, NEW p \in Proposals, NEW q, StateChange(p, q)
  PROVE  TallyExact'
<1>1. SameWeights(q, proposals[p])
  BY DEF StateChange, SameVote, SameWeights
<1> QED BY <1>1, WeightsKept DEF StateChange

LEMMA DraftChangeTally ==
  ASSUME TypeInv, TallyExact, NEW p \in Proposals, NEW i, NEW o, DraftChange(p, i, o)
  PROVE  TallyExact'
<1>1. PICK q : /\ proposals' = [proposals EXCEPT ![p] = q]
               /\ q.options = [proposals[p].options EXCEPT ![i] = o]
               /\ SameVote(q, proposals[p])
  BY DEF DraftChange
<1>2. SameWeights(q, proposals[p])
  BY <1>1 DEF DraftChange, SameVote, SameWeights
<1> QED BY <1>1, <1>2, WeightsKept DEF DraftChange

LEMMA FinalizeVoteTally ==
  ASSUME TypeInv, TallyExact, NEW p \in Proposals, FinalizeVote(p)
  PROVE  TallyExact'
<1>1. PICK r, min : proposals' = [proposals EXCEPT ![p] = r] /\ Resolution(r, proposals[p], min)
  BY FinalizeVoteResolved
<1>2. Exists(p) /\ UNCHANGED votes
  BY FinalizeVoteOutcome, Zenon
<1>3. SameWeights(r, proposals[p])
  BY <1>1 DEF Resolution, SameWeights
<1> QED BY <1>1, <1>2, <1>3, WeightsKept

LEMMA ExecuteTransactionTally ==
  ASSUME TypeInv, TallyExact, NEW p \in Proposals, NEW i, NEW n, ExecuteTransaction(p, i, n)
  PROVE  TallyExact'
<1> DEFINE q == proposals[p]
           o == ExecutedOption(q.options[i])
           r == AfterExecution(q, i)
<1>1. /\ Exists(p) /\ <<i, n>> \in Slots(p) /\ UNCHANGED votes
      /\ proposals' = [proposals EXCEPT ![p] = r]
  BY Zenon DEF ExecuteTransaction
<1>2. i \in DOMAIN q.options
  BY <1>1 DEF Slots
<1>3. /\ r.options = [q.options EXCEPT ![i] = o]
      /\ o.vote_weight = q.options[i].vote_weight /\ r.mint = q.mint
      /\ r.deny_vote_weight = q.deny_vote_weight /\ r.veto_vote_weight = q.veto_vote_weight
  BY <1>1, <1>2, AfterExecutionOf
<1> HIDE DEF r, o
<1>4. SameWeights(r, q)
  BY <1>2, <1>3 DEF SameWeights
<1> QED BY <1>1, <1>4, WeightsKept

LEMMA ReleaseVoteTally ==
  ASSUME TypeInv, TallyExact, NEW p \in Proposals, NEW k \in Records, ReleaseVote(p, k)
  PROVE  TallyExact'
<1> DEFINE v == [votes[p][k] EXCEPT !.is_relinquished = TRUE]
<1>1. /\ proposals' = proposals /\ votes' = [votes EXCEPT ![p][k] = v]
      /\ votes[p][k] \in VoteRecord
  BY ReleaseVoteOutcome
<1>2. v.exists = votes[p][k].exists /\ v.vote = votes[p][k].vote /\ v.weight = votes[p][k].weight
  BY <1>1 DEF VoteRecord
<1> HIDE DEF v
<1>3. \A r \in Proposals : SameParts(votes'[r], votes[r])
  BY <1>1, <1>2 DEF TypeInv, VoteRecordTypes, SameParts
<1>4. \A q : SameWeights(q, q)
  BY DEF SameWeights
<1>5. ASSUME NEW r \in Proposals, Exists(r) PROVE CountedRight(proposals[r], votes'[r])
  <2>1. proposals[r].mint \in GoverningMints
    BY <1>5, ProposalOf DEF ProposalRecord
  <2>2. CountedRight(proposals[r], votes[r])
    BY <1>5 DEF TallyExact
  <2> QED BY <1>3, <1>4, <2>1, <2>2, RightKept
<1> QED BY <1>1, <1>5 DEF TallyExact, Exists

LEMMA CreateProposalTally ==
  ASSUME TypeInv, TallyExact, NEW p \in Proposals, NEW k \in Records, NEW s,
         NEW args \in ProposalArgs, CreateProposal(p, k, s, args)
  PROVE  TallyExact'
<1> DEFINE q == Drafted(k, args)
<1>1. /\ ~Exists(p) /\ q \in ProposalRecord /\ DOMAIN q.options = 1..args.options
      /\ \A i \in 1..args.options : q.options[i] = NewOption
      /\ proposals' = [proposals EXCEPT ![p] = q] /\ UNCHANGED votes
  BY CreateProposalOutcome
<1>2. q.deny_vote_weight = 0 /\ q.veto_vote_weight = 0 /\ q.mint \in GoverningMints
  BY <1>1 DEF Drafted, ProposalRecord
<1> HIDE DEF q
<1>3. \A j \in Records : ~votes[p][j].exists
  BY <1>1 DEF TypeInv, VoteRecordTypes, NoVote
<1>4. CountedRight(q, votes[p])
  <2> SUFFICES ASSUME NEW x \in Parts(q)
               PROVE  Counted(q, x) = Tally(votes[p], PartMint(q.mint, x), x)
    BY DEF CountedRight
  <2>1. Counted(q, x) = 0
    BY <1>1, <1>2 DEF Parts, Counted, NewOption
  <2> DEFINE m == PartMint(q.mint, x)
             f == Ballots(votes[p], m, x)
  <2>2. m \in GoverningMints
    BY <1>2, PartMintType
  <2> HIDE DEF m
  <2>3. f \in [1..NOwners -> Nat] /\ \A o \in 1..NOwners : f[o] = 0
    BY <1>3, <2>2, RecordKeys, RealmNumbers DEF Ballots, VotePart
  <2> HIDE DEF f
  <2>4. Total(f, NOwners) = 0
    BY <2>3, RealmNumbers, TotalZero
  <2> QED BY <2>1, <2>4 DEF f, m, Tally
<1>5. \A r \in Proposals : proposals'[r] = IF r = p THEN q ELSE proposals[r]
  BY <1>1 DEF TypeInv, ProposalTypes
<1>6. \A r \in Proposals : Exists(r)' => CountedRight(proposals'[r], votes[r])
  BY <1>4, <1>5 DEF TallyExact, Exists
<1> QED BY <1>1, <1>6 DEF TallyExact

LEMMA PartOfNat ==
  ASSUME NEW vote \in Votes, NEW w \in Nat, NEW x,
         x \in {Against, Veto, Whole} \/ OptionPart(vote, w, x) \in Nat
  PROVE  PartOf(x, vote, w) \in Nat
<1>1. DenyPart(vote, w) \in Nat /\ VetoPart(vote, w) \in Nat
  BY PartsNat
<1> QED BY <1>1 DEF PartOf, Against, Veto, Whole

\* The votes of a proposal have parts.
LEMMA RowFits ==
  ASSUME NEW row, NEW opts, opts \subseteq Nat \ {0},
         \A k \in Records : row[k] \in {NoVote} \cup VoteRecord,
         \A k \in Records : row[k].exists /\ row[k].vote.kind = "approve"
                              => DOMAIN row[k].vote.choices = opts,
         NEW x \in {Against, Veto, Whole} \cup opts
  PROVE  PartFits(row, x)
<1> SUFFICES ASSUME NEW k \in Records, row[k].exists
             PROVE  PartOf(x, row[k].vote, row[k].weight) \in Nat
  BY DEF PartFits, VotePart
<1>1. row[k] \in VoteRecord
  BY DEF NoVote
<1>2. row[k].vote \in Votes /\ row[k].weight \in Nat
  BY <1>1 DEF VoteRecord
<1>3. x \in opts => OptionPart(row[k].vote, row[k].weight, x) \in Nat
  BY <1>2, PartsNat
<1> QED BY <1>2, <1>3, PartOfNat

LEMMA VotesFit ==
  ASSUME TypeInv, NEW p \in Proposals, Exists(p),
         NEW x \in {Against, Veto, Whole} \cup DOMAIN proposals[p].options
  PROVE  PartFits(votes[p], x)
<1>1. DOMAIN proposals[p].options \subseteq Nat \ {0}
  BY ProposalOf, OptionListOf
<1>2. \A k \in Records : votes[p][k] \in {NoVote} \cup VoteRecord
  BY DEF TypeInv, VoteRecordTypes
<1>3. \A k \in Records : votes[p][k].exists /\ votes[p][k].vote.kind = "approve"
         => DOMAIN votes[p][k].vote.choices = DOMAIN proposals[p].options
  BY DEF TypeInv, VoteRecordTypes, VoteFits
<1> QED BY <1>1, <1>2, <1>3, RowFits

\* A vote of the population that a part does not count has nothing of that part.
LEMMA OtherMint ==
  ASSUME NEW v, NEW mint \in GoverningMints, NEW m \in GoverningMints, NEW x,
         x # Whole, v.exists => mint = MintForVote(m, VoteKind(v.vote)),
         m # PartMint(mint, x)
  PROVE  VotePart(v, x) = 0
<1>1. CASE x = Veto
  <2>1. v.exists => v.vote.kind # "veto"
    BY <1>1 DEF PartMint, MintForVote, VoteKind, GoverningMints
  <2> QED BY <1>1, <2>1 DEF VotePart, PartOf, VetoPart, Against, Veto
<1>2. CASE x # Veto
  <2>1. v.exists => v.vote.kind = "veto"
    BY <1>2 DEF PartMint, MintForVote, VoteKind, GoverningMints
  <2> QED BY <1>2, <2>1 DEF VotePart, PartOf, DenyPart, OptionPart
<1> QED BY <1>1, <1>2

\* One vote changes, and the tally of its proposal by the difference.
LEMMA VoteChangeTally ==
  ASSUME TypeInv, TallyExact, NEW p \in Proposals, Exists(p), NEW k \in Records,
         NEW q, proposals' = [proposals EXCEPT ![p] = q], q.mint = proposals[p].mint,
         DOMAIN q.options = DOMAIN proposals[p].options,
         NEW v \in {NoVote} \cup VoteRecord, votes' = [votes EXCEPT ![p][k] = v],
         v.exists => /\ v.vote.kind = "approve" =>
                          DOMAIN v.vote.choices = DOMAIN proposals[p].options
                     /\ proposals[p].mint = MintForVote(k[1], VoteKind(v.vote)),
         \A x \in Parts(q) :
           Counted(q, x) = Counted(proposals[p], x) + VotePart(v, x) - VotePart(votes[p][k], x)
  PROVE  TallyExact'
<1> DEFINE old == proposals[p]
           row == votes[p]
           new == votes'[p]
<1>1. /\ \A r \in Proposals : proposals'[r] = IF r = p THEN q ELSE proposals[r]
      /\ \A r \in Proposals : r # p => votes'[r] = votes[r]
      /\ new[k] = v /\ \A j \in Records : j # k => new[j] = row[j]
  BY DEF TypeInv, ProposalTypes, VoteRecordTypes
<1>2. /\ old.mint \in GoverningMints /\ old \in ProposalRecord
      /\ DOMAIN old.options \subseteq Nat \ {0}
      /\ k[1] \in GoverningMints
  BY ProposalOf, OptionListOf, RecordKeys DEF ProposalRecord
<1>3. CountedRight(q, new)
  <2> SUFFICES ASSUME NEW x \in Parts(q)
               PROVE  Counted(q, x) = Tally(new, PartMint(q.mint, x), x)
    BY DEF CountedRight
  <2> DEFINE m == PartMint(old.mint, x)
  <2>1. x \in Parts(old) /\ x \in {Against, Veto, Whole} \cup DOMAIN old.options /\ x # Whole
    BY <1>2 DEF Parts, Against, Veto, Whole
  <2>2. PartFits(row, x)
    BY <2>1, VotesFit
  <2>3. PartFits(new, x)
    <3>1. \A j \in Records : row[j] \in {NoVote} \cup VoteRecord
      BY DEF TypeInv, VoteRecordTypes
    <3>2. \A j \in Records : row[j].exists /\ row[j].vote.kind = "approve"
             => DOMAIN row[j].vote.choices = DOMAIN old.options
      BY DEF TypeInv, VoteRecordTypes, VoteFits
    <3>3. \A j \in Records : new[j] \in {NoVote} \cup VoteRecord
      BY <1>1, <3>1
    <3>4. \A j \in Records : new[j].exists /\ new[j].vote.kind = "approve"
             => DOMAIN new[j].vote.choices = DOMAIN old.options
      BY <1>1, <3>2
    <3> HIDE DEF new, old
    <3> QED BY <1>2, <2>1, <3>3, <3>4, RowFits
  <2>4. m \in GoverningMints
    BY <1>2, PartMintType
  <2>5. \A j \in Records : j # k => VotePart(new[j], x) = VotePart(row[j], x)
    BY <1>1
  <2>6. Counted(old, x) = Tally(row, m, x)
    BY <2>1 DEF TallyExact, CountedRight
  <2>7. Tally(row, m, x) \in Nat /\ VotePart(row[k], x) \in Nat /\ VotePart(v, x) \in Nat
    <3>1. VotePart(row[k], x) \in Nat /\ VotePart(new[k], x) \in Nat
      BY <2>2, <2>3 DEF PartFits
    <3> QED BY <1>1, <2>2, <2>4, <3>1, TallyNat
  <2>8. Tally(new, m, x) =
          Tally(row, m, x) + (IF m = k[1] THEN VotePart(v, x) - VotePart(row[k], x) ELSE 0)
    <3> HIDE DEF new, row, m
    <3>1. Tally(new, m, x) = Tally(row, m, x) +
            (IF m = k[1] THEN VotePart(new[k], x) - VotePart(row[k], x) ELSE 0)
      BY <2>2, <2>3, <2>4, <2>5, TallyChange
    <3> QED BY <1>1, <3>1
  <2>9. m # k[1] => VotePart(v, x) = 0 /\ VotePart(row[k], x) = 0
    <3>1. row[k].exists => old.mint = MintForVote(k[1], VoteKind(row[k].vote))
      BY DEF TypeInv, VoteRecordTypes, VoteFits
    <3> HIDE DEF row, old
    <3> QED BY <1>2, <2>1, <3>1, OtherMint DEF old
  <2>10. Counted(q, x) = Counted(old, x) + VotePart(v, x) - VotePart(row[k], x)
    OBVIOUS
  <2> HIDE DEF row, new
  <2> QED BY <2>6, <2>7, <2>8, <2>9, <2>10
<1>4. \A r \in Proposals : Exists(r)' => CountedRight(proposals'[r], votes'[r])
  <2> SUFFICES ASSUME NEW r \in Proposals, Exists(r)'
               PROVE  CountedRight(proposals'[r], votes'[r])
    OBVIOUS
  <2>1. CASE r = p
    BY <1>1, <1>3, <2>1
  <2>2. CASE r # p
    BY <1>1, <2>2 DEF TallyExact, Exists
  <2> QED BY <2>1, <2>2
<1> QED BY <1>4 DEF TallyExact

LEMMA TalliedCounted ==
  ASSUME NEW q \in ProposalRecord, NEW vote \in Votes, NEW w \in Nat, NEW sign \in {1, -1},
         vote.kind = "approve" => DOMAIN vote.choices = DOMAIN q.options,
         NEW x \in Parts(q)
  PROVE  /\ Counted(q, x) \in Int /\ PartOf(x, vote, w) \in Nat
         /\ Counted(Tallied(q, vote, w, sign), x) = Counted(q, x) + sign * PartOf(x, vote, w)
<1> DEFINE t == Tallied(q, vote, w, sign)
<1>1. /\ \A i \in DOMAIN q.options :
           /\ OptionPart(vote, w, i) \in Nat
           /\ t.options[i] = Weighted(q.options[i],
                q.options[i].vote_weight + sign * OptionPart(vote, w, i))
      /\ t.deny_vote_weight = q.deny_vote_weight + sign * DenyPart(vote, w)
      /\ t.veto_vote_weight = q.veto_vote_weight + sign * VetoPart(vote, w)
  BY TalliedType
<1> HIDE DEF t
<1>2. q.options \in OptionLists /\ q.deny_vote_weight \in Int /\ q.veto_vote_weight \in Int
  BY DEF ProposalRecord
<1>3. CASE x = Against
  <2>1. PartOf(x, vote, w) = DenyPart(vote, w)
    BY <1>3 DEF PartOf
  <2>2. Counted(q, x) = q.deny_vote_weight /\ Counted(t, x) = t.deny_vote_weight
    BY <1>3 DEF Counted
  <2> QED BY <1>1, <1>2, <2>1, <2>2, PartsNat DEF t
<1>4. CASE x = Veto
  <2>1. PartOf(x, vote, w) = VetoPart(vote, w)
    BY <1>4 DEF PartOf, Against, Veto
  <2>2. Counted(q, x) = q.veto_vote_weight /\ Counted(t, x) = t.veto_vote_weight
    BY <1>4 DEF Counted, Against, Veto
  <2> QED BY <1>1, <1>2, <2>1, <2>2, PartsNat DEF t
<1>5. CASE x \in DOMAIN q.options
  <2>1. x \in Nat \ {0} /\ q.options[x] \in ProposalOption
    BY <1>2, <1>5, OptionListOf
  <2>2. PartOf(x, vote, w) = OptionPart(vote, w, x)
    BY <2>1 DEF PartOf, Against, Veto, Whole
  <2>3. Counted(q, x) = q.options[x].vote_weight /\ Counted(t, x) = t.options[x].vote_weight
    BY <2>1 DEF Counted, Against, Veto
  <2>4. q.options[x].vote_weight \in Int
    BY <2>1 DEF ProposalOption
  <2>5. t.options[x].vote_weight = q.options[x].vote_weight + sign * OptionPart(vote, w, x)
    <3>1. q.options[x].vote_weight + sign * OptionPart(vote, w, x) \in Int
      <4>1. OptionPart(vote, w, x) \in Nat
        BY <1>1, <1>5
      <4>2. \A n \in Nat : sign * n \in Int
        OBVIOUS
      <4> QED BY <2>4, <4>1, <4>2
    <3>2. t.options[x] = Weighted(q.options[x],
            q.options[x].vote_weight + sign * OptionPart(vote, w, x))
      BY <1>1, <1>5
    <3> DEFINE n == q.options[x].vote_weight + sign * OptionPart(vote, w, x)
    <3> HIDE DEF n
    <3>3. Weighted(q.options[x], n).vote_weight = n
      BY <2>1, <3>1, WeightedOption DEF n
    <3> QED BY <3>2, <3>3 DEF n
  <2> QED BY <1>1, <1>5, <2>2, <2>3, <2>4, <2>5 DEF t
<1> QED BY <1>3, <1>4, <1>5 DEF Parts

LEMMA TippedWeights ==
  ASSUME NEW q \in ProposalRecord, NEW state \in {"Vetoed", "Succeeded", "Defeated"},
         NEW at \in Nat, NEW max \in Nat, NEW threshold \in Thresholds,
         NEW tipping \in Tippings
  PROVE  SameWeights(TippedRecord(q, state, at, max, threshold, tipping), q)
<1> DEFINE r == TippedRecord(q, state, at, max, threshold, tipping)
<1>1. /\ DOMAIN r.options = DOMAIN q.options /\ r.mint = q.mint
      /\ r.deny_vote_weight = q.deny_vote_weight /\ r.veto_vote_weight = q.veto_vote_weight
      /\ r.options = TippedOptions(q, state)
  BY TippedType
<1> HIDE DEF r
<1>2. \A i \in DOMAIN q.options : q.options[i] \in ProposalOption
  BY OptionListOf DEF ProposalRecord
<1>3. \A i \in DOMAIN q.options : r.options[i].vote_weight = q.options[i].vote_weight
  BY <1>1, <1>2 DEF TippedOptions, ProposalOption
<1> QED BY <1>1, <1>3 DEF SameWeights, r

LEMMA SameWeightsCounted ==
  ASSUME NEW r, NEW q, SameWeights(r, q)
  PROVE  Parts(r) = Parts(q) /\ \A x \in Parts(q) : Counted(r, x) = Counted(q, x)
BY DEF SameWeights, Parts, Counted

LEMMA CastVoteTally ==
  ASSUME TypeInv, TallyExact, NEW p \in Proposals, NEW k \in Records, NEW s,
         NEW vote \in Votes, CastVote(p, k, s, vote)
  PROVE  TallyExact'
<1>1. /\ Exists(p) /\ ~votes[p][k].exists /\ ValidVote(proposals[p], vote)
      /\ proposals[p].mint = MintForVote(k[1], VoteKind(vote))
  BY CastVoteOutcome
<1>2. PICK weight \in VoterWeights(k) :
        /\ weight \in Nat
        /\ WithVote(p, vote, weight) \in ProposalRecord
        /\ votes' = [votes EXCEPT ![p][k] =
             [exists |-> TRUE, vote |-> vote, weight |-> weight, is_relinquished |-> FALSE]]
        /\ \/ CastOnly(p, k, vote, weight)
           \/ \E max \in Nat, state \in {"Vetoed", "Succeeded", "Defeated"} :
                CastAndTip(p, k, vote, weight, max, state)
  BY CastVoteOutcome
<1> DEFINE old == proposals[p]
           q == WithVote(p, vote, weight)
           v == [exists |-> TRUE, vote |-> vote, weight |-> weight, is_relinquished |-> FALSE]
<1>3. /\ old \in ProposalRecord
      /\ vote.kind = "approve" => DOMAIN vote.choices = DOMAIN old.options
  BY <1>1, ProposalOf DEF ValidVote
<1>4. \E r : proposals' = [proposals EXCEPT ![p] = r] /\ SameWeights(r, q)
  <2>1. CASE CastOnly(p, k, vote, weight)
    <3>1. SameWeights(q, q)
      BY DEF SameWeights
    <3> QED BY <2>1, <3>1 DEF CastOnly
  <2>2. ASSUME NEW max \in Nat, NEW state \in {"Vetoed", "Succeeded", "Defeated"},
               CastAndTip(p, k, vote, weight, max, state)
        PROVE  \E r : proposals' = [proposals EXCEPT ![p] = r] /\ SameWeights(r, q)
    <3> DEFINE threshold == VoteThreshold(gov.config, k[1] = Council, VoteKind(vote))
               tipping == VoteTipping(gov.config, k[1] = Council)
    <3>1. proposals' = [proposals EXCEPT ![p] =
            TippedRecord(q, state, now, max, threshold, tipping)]
      BY <2>2 DEF CastAndTip
    <3>2. threshold \in Thresholds /\ tipping \in Tippings /\ now \in Nat
      <4>1. now \in Nat
        BY RealmNumbers DEF TypeInv, RealmTypes
      <4>2. (k[1] = Council) \in BOOLEAN /\ GovernanceExists
        BY <1>1, ProposalOf
      <4> QED BY <4>1, <4>2, ThresholdType
    <3> HIDE DEF threshold, tipping, q
    <3>3. SameWeights(TippedRecord(q, state, now, max, threshold, tipping), q)
      BY <1>2, <3>2, TippedWeights DEF q
    <3> QED BY <3>1, <3>3
  <2> QED BY <1>2, <2>1, <2>2
<1>5. PICK r : proposals' = [proposals EXCEPT ![p] = r] /\ SameWeights(r, q)
  BY <1>4
<1>6. DOMAIN q.options = DOMAIN old.options /\ q.mint = old.mint
  BY <1>2, <1>3, TalliedType DEF WithVote
<1>7. DOMAIN r.options = DOMAIN old.options /\ r.mint = old.mint
  BY <1>5, <1>6 DEF SameWeights
<1>8. /\ v \in VoteRecord /\ v.exists /\ v.vote = vote /\ v.weight = weight
      /\ votes' = [votes EXCEPT ![p][k] = v]
  BY <1>2 DEF VoteRecord
<1>9. \A x \in Parts(r) : Counted(r, x) = Counted(old, x) + VotePart(v, x) - VotePart(votes[p][k], x)
  <2> SUFFICES ASSUME NEW x \in Parts(old)
               PROVE  Counted(r, x) = Counted(old, x) + VotePart(v, x) - VotePart(votes[p][k], x)
    BY <1>7 DEF Parts
  <2>1. /\ Counted(old, x) \in Int /\ PartOf(x, vote, weight) \in Nat
        /\ Counted(q, x) = Counted(old, x) + 1 * PartOf(x, vote, weight)
    BY <1>2, <1>3, TalliedCounted DEF WithVote
  <2>2. x \in Parts(q)
    BY <1>6 DEF Parts
  <2> HIDE DEF q, v, old
  <2>3. Counted(r, x) = Counted(q, x)
    BY <1>5, <2>2, SameWeightsCounted
  <2>4. VotePart(v, x) = PartOf(x, vote, weight) /\ VotePart(votes[p][k], x) = 0
    BY <1>1, <1>8 DEF VotePart
  <2> QED BY <2>1, <2>3, <2>4
<1> HIDE DEF v, q
<1>10. /\ v.vote.kind = "approve" => DOMAIN v.vote.choices = DOMAIN proposals[p].options
       /\ proposals[p].mint = MintForVote(k[1], VoteKind(v.vote))
  BY <1>1, <1>3, <1>8
<1>11. v \in {NoVote} \cup VoteRecord
  BY <1>8
<1> QED BY <1>1, <1>5, <1>7, <1>8, <1>9, <1>10, <1>11, VoteChangeTally, Zenon

LEMMA WithdrawVoteTally ==
  ASSUME TypeInv, TallyExact, NEW p \in Proposals, NEW k \in Records, NEW s,
         WithdrawVote(p, k, s)
  PROVE  TallyExact'
<1> DEFINE old == proposals[p]
           v == votes[p][k]
           q == Tallied(old, v.vote, v.weight, -1)
<1>1. /\ Exists(p) /\ v.exists /\ v \in VoteRecord /\ VoteFits(p, k)
      /\ proposals' = [proposals EXCEPT ![p] = q]
      /\ votes' = [votes EXCEPT ![p][k] = NoVote]
  BY WithdrawVoteOutcome, Zenon DEF LiveVote
<1>2. /\ old \in ProposalRecord /\ v.vote \in Votes /\ v.weight \in Nat
      /\ v.vote.kind = "approve" => DOMAIN v.vote.choices = DOMAIN old.options
  BY <1>1, ProposalOf DEF VoteRecord, VoteFits
<1> HIDE DEF old, v
<1>3. DOMAIN q.options = DOMAIN old.options /\ q.mint = old.mint
  BY <1>2, TalliedType
<1>4. ~NoVote.exists
  BY DEF NoVote
<1>5. \A x \in Parts(q) : Counted(q, x) = Counted(old, x) + VotePart(NoVote, x) - VotePart(v, x)
  <2> SUFFICES ASSUME NEW x \in Parts(old)
               PROVE  Counted(q, x) = Counted(old, x) + VotePart(NoVote, x) - VotePart(v, x)
    BY <1>3 DEF Parts
  <2>1. /\ Counted(old, x) \in Int /\ PartOf(x, v.vote, v.weight) \in Nat
        /\ Counted(q, x) = Counted(old, x) + (-1) * PartOf(x, v.vote, v.weight)
    BY <1>2, TalliedCounted
  <2>2. VotePart(NoVote, x) = 0 /\ VotePart(v, x) = PartOf(x, v.vote, v.weight)
    BY <1>1, <1>4 DEF VotePart
  <2> QED BY <2>1, <2>2
<1>6. NoVote \in {NoVote} \cup VoteRecord
  OBVIOUS
<1> HIDE DEF q
<1> QED BY <1>1, <1>3, <1>4, <1>5, <1>6, VoteChangeTally, Zenon DEF old, v

LEMMA TallyUnchanged ==
  ASSUME TallyExact, UNCHANGED <<proposals, votes>>
  PROVE  TallyExact'
BY DEF TallyExact, Exists

LEMMA CreateGovernanceLeaves ==
  ASSUME NEW s, NEW k, NEW config, CreateGovernance(s, k, config)
  PROVE  UNCHANGED <<proposals, votes, txs>>
BY DEF CreateGovernance

LEMMA NextTally ==
  ASSUME TypeInv, TallyExact, [Next]_vars
  PROVE  TallyExact'
<1>1. CASE UNCHANGED govVars \/ UNCHANGED vars
  BY <1>1, TallyUnchanged DEF vars, govVars
<1>2. CASE ProposalStep
  <2>1. CASE \E k \in Records, config \in GovernanceConfigs :
               \/ \E s \in Voters : CreateGovernance(s, k, config)
               \/ CreateGovernance(RealmAuthority, k, config)
    BY <2>1, CreateGovernanceLeaves, TallyUnchanged, Zenon
  <2>2. ASSUME NEW p \in Proposals,
               \/ FinalizeVote(p)
               \/ RefundProposalDeposit(p)
               \/ \E k \in Records : ReleaseVote(p, k)
               \/ \E i \in 1..MaxOptions, n \in 0..MaxTransactions-1 : ExecuteTransaction(p, i, n)
        PROVE  TallyExact'
    BY <2>2, FinalizeVoteTally, RefundProposalDepositState, StateChangeTally, ReleaseVoteTally,
       ExecuteTransactionTally, Zenon
  <2>3. ASSUME NEW p \in Proposals, NEW s \in Signers,
               \/ SignOffProposal(p, s)
               \/ CancelProposal(p, s)
               \/ CompleteProposal(p, s)
               \/ \E x \in Signatories : AddSignatory(p, s, x)
               \/ \E k \in Records :
                    \/ \E args \in ProposalArgs : CreateProposal(p, k, s, args)
                    \/ \E vote \in Votes : CastVote(p, k, s, vote)
                    \/ WithdrawVote(p, k, s)
               \/ \E i \in 1..MaxOptions, n \in 0..MaxTransactions-1 :
                    \/ \E x \in Instructions : InsertTransaction(p, s, i, n, x)
                    \/ RemoveTransaction(p, s, i, n)
        PROVE  TallyExact'
    <3>1. SignOffProposal(p, s) => TallyExact'
      BY SignOffProposalState, StateChangeTally, Zenon
    <3>2. CancelProposal(p, s) => TallyExact'
      BY CancelProposalState, StateChangeTally, Zenon
    <3>3. CompleteProposal(p, s) => TallyExact'
      BY CompleteProposalState, StateChangeTally, Zenon
    <3>4. \A x \in Signatories : AddSignatory(p, s, x) => TallyExact'
      BY AddSignatoryState, StateChangeTally, Zenon
    <3>5. \A i, n, x : InsertTransaction(p, s, i, n, x) => TallyExact'
      BY InsertTransactionState, DraftChangeTally, Zenon
    <3>6. \A i, n : RemoveTransaction(p, s, i, n) => TallyExact'
      BY RemoveTransactionState, DraftChangeTally, Zenon
    <3> QED BY <2>3, <3>1, <3>2, <3>3, <3>4, <3>5, <3>6, CreateProposalTally, CastVoteTally,
               WithdrawVoteTally, Zenon
  <2> QED BY <1>2, <2>1, <2>2, <2>3, Zenon DEF ProposalStep
<1> QED BY <1>1, <1>2 DEF Next

\* The running tally of a proposal, which decides it, is the sum of the votes that
\* stand: what a voter changes his mind about, a vote against that is withdrawn or one
\* that is released after the decision leaves no weight behind and takes none away
\* (process_cast_vote.rs adds, process_relinquish_vote.rs subtracts, each by its own
\* rounding of the weight).
THEOREM TallySound == Spec => []TallyAgrees
<1>1. Init => TallyExact
  BY DEF Init, TallyExact, Exists, NoProposal
<1>2. TypeInv /\ TallyExact /\ [Next]_vars => TallyExact'
  BY NextTally
<1>3. TypeInv /\ TallyExact => TallyAgrees
  BY TallyAgreesParts
<1> QED BY <1>1, <1>2, <1>3, TypeInvariant, PTL DEF Spec

-----------------------------------------------------------------------------
(* Tips *)

\* No tally that extends the one at the tip within the maximum resolves differently.
TipStands(q) ==
  LET yes == q.options[1].vote_weight
      deny == q.deny_vote_weight
      max == q.max_vote_weight
      min == MinVoteThresholdWeight(q.vote_threshold, max)
  IN  \A y \in yes..max, d \in deny..max :
        y + d <= max =>
          OptionPasses([vote_weight |-> y], d, min)
            <=> q.options[1].vote_result = "Succeeded"

\* An undecided proposal has not been tipped, and one that is decided otherwise never is.
TipSound(q) ==
  /\ q.state \in Undecided => q.tipping = "Disabled"
  /\ q.state \notin Undecided \cup {"Cancelled", "Vetoed"} /\ q.tipping = "Strict"
       => TipStands(q)

TipsSound == \A p \in Proposals : Exists(p) => TipSound(proposals[p])

LEMMA TipsUpdate ==
  ASSUME TypeInv, TipsSound, NEW p \in Proposals, NEW q,
         proposals' = [proposals EXCEPT ![p] = q], TipSound(q)
  PROVE  TipsSound'
<1>1. \A r \in Proposals : proposals'[r] = IF r = p THEN q ELSE proposals[r]
  BY DEF TypeInv, ProposalTypes
<1> QED BY <1>1 DEF TipsSound, Exists

\* A tip that is kept stands as before.
LEMMA TipKept ==
  ASSUME NEW q, NEW r, TipStands(q), SameVote(r, q),
         r.options[1].vote_weight = q.options[1].vote_weight,
         r.options[1].vote_result = q.options[1].vote_result
  PROVE  TipStands(r)
BY DEF TipStands, SameVote

LEMMA MinWeightNat ==
  ASSUME NEW threshold \in Thresholds, NEW max \in Nat
  PROVE  MinVoteThresholdWeight(threshold, max) \in Nat
<1> DEFINE n == threshold * max
<1>1. n \in Nat
  BY DEF Thresholds, Disabled
<1> HIDE DEF n
<1>2. n \div 100 \in Nat
  BY <1>1
<1> QED BY <1>2 DEF MinVoteThresholdWeight, n

\* The arithmetic of a tip in favour, and of one against.
LEMMA YesStands ==
  ASSUME NEW yes \in Int, NEW max \in Nat, NEW min \in Nat, NEW deny \in Int,
         TipsYes(yes, deny, max, min, "Strict"),
         NEW y \in yes..max, NEW d \in deny..max, y + d <= max
  PROVE  y >= min /\ y > d
<1>1. yes >= min /\ yes > Minus(max, yes)
  BY DEF TipsYes
<1> QED BY <1>1 DEF Minus

LEMMA NoStands ==
  ASSUME NEW yes \in Int, NEW max \in Nat, NEW min \in Nat, NEW deny \in Int,
         TipsNo(deny, max, min, "Strict"),
         NEW y \in yes..max, NEW d \in deny..max, y + d <= max
  PROVE  ~(y >= min /\ y > d)
<1>1. deny > Minus(max, min) \/ deny >= Minus(max, deny)
  BY DEF TipsNo
<1> QED BY <1>1 DEF Minus

\* A tip by a vote of the proposal's own population stands.
LEMMA TippedStands ==
  ASSUME NEW q \in ProposalRecord, NEW state \in {"Succeeded", "Defeated"},
         NEW at \in Nat, NEW max \in Nat, NEW threshold \in Thresholds,
         NEW kind, state = TippedState(q, max, threshold, "Strict", kind)
  PROVE  TipStands(TippedRecord(q, state, at, max, threshold, "Strict"))
<1> DEFINE r == TippedRecord(q, state, at, max, threshold, "Strict")
           yes == q.options[1].vote_weight
           deny == q.deny_vote_weight
           min == MinVoteThresholdWeight(threshold, max)
<1>1. /\ r.options = TippedOptions(q, state)
      /\ r.deny_vote_weight = deny /\ r.max_vote_weight = max /\ r.vote_threshold = threshold
  <2>1. "Strict" \in Tippings /\ state \in {"Vetoed", "Succeeded", "Defeated"}
    BY DEF Tippings
  <2> QED BY <2>1, TippedType
<1>2. /\ Tippable(q)
      /\ state = "Succeeded" => TipsYes(yes, deny, max, min, "Strict")
      /\ state = "Defeated" => TipsNo(deny, max, min, "Strict")
  BY DEF TippedState
<1>3. 1 \in DOMAIN q.options /\ q.options[1] \in ProposalOption
  BY <1>2, OptionListOf DEF Tippable, ProposalRecord
<1>4. /\ r.options[1].vote_weight = yes /\ r.options[1].vote_result = state
      /\ yes \in Int /\ deny \in Int /\ min \in Nat
  <2>1. r.options[1].vote_weight = yes /\ r.options[1].vote_result = state
    BY <1>1, <1>3 DEF TippedOptions, ProposalOption
  <2> QED BY <1>3, <2>1, MinWeightNat DEF ProposalOption, ProposalRecord
<1> HIDE DEF r, yes, deny, min
<1>5. ASSUME NEW y \in yes..max, NEW d \in deny..max, y + d <= max
      PROVE  (y >= min /\ y > d) <=> state = "Succeeded"
  BY <1>2, <1>4, <1>5, YesStands, NoStands
<1>6. \A y, d : OptionPasses([vote_weight |-> y], d, min) <=> (y >= min /\ y > d)
  BY DEF OptionPasses
<1>7. \A y \in yes..max, d \in deny..max :
        y + d <= max =>
          OptionPasses([vote_weight |-> y], d, min) <=> r.options[1].vote_result = "Succeeded"
  BY <1>4, <1>5, <1>6
<1> QED BY <1>1, <1>4, <1>7 DEF TipStands, min, r

LEMMA StateChangeTips ==
  ASSUME TypeInv, TipsSound, NEW p \in Proposals, NEW q, StateChange(p, q),
         \/ q.state = proposals[p].state
         \/ proposals[p].state \in Undecided /\ q.state \in Undecided \cup {"Cancelled"}
         \/ proposals[p].state = "Succeeded" /\ q.state = "Completed"
  PROVE  TipsSound'
<1>1. TipSound(proposals[p]) /\ SameVote(q, proposals[p]) /\ q.options = proposals[p].options
  BY DEF TipsSound, StateChange
<1>2. TipStands(proposals[p]) => TipStands(q)
  BY <1>1, TipKept
<1>3. q.tipping = proposals[p].tipping
  BY <1>1 DEF SameVote
<1>4. TipSound(q)
  BY <1>1, <1>2, <1>3 DEF TipSound, Undecided
<1> QED BY <1>4, TipsUpdate DEF StateChange

LEMMA DraftChangeTips ==
  ASSUME TypeInv, TipsSound, NEW p \in Proposals, NEW i, NEW o, DraftChange(p, i, o)
  PROVE  TipsSound'
<1>1. PICK q : /\ proposals' = [proposals EXCEPT ![p] = q]
               /\ q.state = "Draft" /\ SameVote(q, proposals[p])
  BY DEF DraftChange
<1>2. TipSound(proposals[p]) /\ proposals[p].state = "Draft"
  BY DEF TipsSound, DraftChange
<1>3. TipSound(q)
  BY <1>1, <1>2 DEF TipSound, Undecided, SameVote
<1> QED BY <1>1, <1>3, TipsUpdate

LEMMA FinalizeVoteTips ==
  ASSUME TypeInv, TipsSound, NEW p \in Proposals, FinalizeVote(p)
  PROVE  TipsSound'
<1>1. PICK r, min : proposals' = [proposals EXCEPT ![p] = r] /\ Resolution(r, proposals[p], min)
  BY FinalizeVoteResolved
<1>2. Exists(p) /\ proposals[p].state = "Voting"
  BY FinalizeVoteOutcome, Zenon
<1>3. r.tipping = "Disabled"
  BY <1>1, <1>2 DEF TipsSound, TipSound, Undecided, Resolution
<1>4. TipSound(r)
  BY <1>3 DEF TipSound
<1> QED BY <1>1, <1>4, TipsUpdate

LEMMA ExecuteTransactionTips ==
  ASSUME TypeInv, TipsSound, NEW p \in Proposals, NEW i, NEW n, ExecuteTransaction(p, i, n)
  PROVE  TipsSound'
<1> DEFINE q == proposals[p]
           o == ExecutedOption(q.options[i])
           r == AfterExecution(q, i)
<1>1. /\ Exists(p) /\ <<i, n>> \in Slots(p)
      /\ proposals' = [proposals EXCEPT ![p] = r]
      /\ q.state \in {"Succeeded", "Executing"}
  BY Zenon DEF ExecuteTransaction, CanExecuteTransaction
<1>2. i \in DOMAIN q.options
  BY <1>1 DEF Slots
<1>3. /\ r.options = [q.options EXCEPT ![i] = o]
      /\ o.vote_weight = q.options[i].vote_weight /\ o.vote_result = q.options[i].vote_result
      /\ r.mint = q.mint /\ r.owner = q.owner /\ r.tipping = q.tipping
      /\ r.use_deny = q.use_deny /\ r.vote_type = q.vote_type
      /\ r.deny_vote_weight = q.deny_vote_weight /\ r.veto_vote_weight = q.veto_vote_weight
      /\ r.max_vote_weight = q.max_vote_weight /\ r.vote_threshold = q.vote_threshold
  BY <1>1, <1>2, AfterExecutionOf
<1>4. r.state \in {"Completed", "Executing"}
  BY <1>1, <1>2, AfterExecutionOf, Zenon
<1>5. 1 \in DOMAIN q.options
  <2>1. PICK m \in 1..MaxOptions : DOMAIN q.options = 1..m
    BY <1>1, ProposalOf, OptionListOf
  <2> QED BY <2>1 DEF MaxOptions
<1> HIDE DEF r, o
<1>6. /\ r.options[1].vote_weight = q.options[1].vote_weight
      /\ r.options[1].vote_result = q.options[1].vote_result
  BY <1>3, <1>5
<1>7. SameVote(r, q)
  BY <1>3 DEF SameVote
<1> HIDE DEF q
<1>8. TipStands(q) => TipStands(r)
  BY <1>6, <1>7, TipKept
<1>9. TipSound(q)
  BY <1>1 DEF TipsSound, q
<1>10. TipSound(r)
  BY <1>1, <1>3, <1>4, <1>8, <1>9 DEF TipSound, Undecided
<1> QED BY <1>1, <1>10, TipsUpdate

LEMMA CreateProposalTips ==
  ASSUME TypeInv, TipsSound, NEW p \in Proposals, NEW k \in Records, NEW s,
         NEW args \in ProposalArgs, CreateProposal(p, k, s, args)
  PROVE  TipsSound'
<1>1. proposals' = [proposals EXCEPT ![p] = Drafted(k, args)]
  BY CreateProposalOutcome
<1>2. TipSound(Drafted(k, args))
  BY DEF TipSound, Drafted, Undecided
<1> QED BY <1>1, <1>2, TipsUpdate

LEMMA WithdrawVoteTips ==
  ASSUME TypeInv, TipsSound, NEW p \in Proposals, NEW k \in Records, NEW s,
         WithdrawVote(p, k, s)
  PROVE  TipsSound'
<1> DEFINE v == votes[p][k]
           q == Tallied(proposals[p], v.vote, v.weight, -1)
<1>1. /\ Exists(p) /\ v \in VoteRecord /\ VoteFits(p, k) /\ proposals[p].state = "Voting"
      /\ proposals' = [proposals EXCEPT ![p] = q]
  BY WithdrawVoteOutcome, Zenon
<1>2. /\ proposals[p] \in ProposalRecord /\ v.vote \in Votes /\ v.weight \in Nat
      /\ v.vote.kind = "approve" => DOMAIN v.vote.choices = DOMAIN proposals[p].options
  BY <1>1, ProposalOf DEF VoteRecord, VoteFits
<1> HIDE DEF v
<1>3. q.state = proposals[p].state /\ q.tipping = proposals[p].tipping
  BY <1>2, TalliedType
<1>4. TipSound(q)
  BY <1>1, <1>3 DEF TipsSound, TipSound, Undecided
<1> HIDE DEF q
<1> QED BY <1>1, <1>4, TipsUpdate

LEMMA CastVoteTips ==
  ASSUME TypeInv, TipsSound, NEW p \in Proposals, NEW k \in Records, NEW s,
         NEW vote \in Votes, CastVote(p, k, s, vote)
  PROVE  TipsSound'
<1>1. /\ Exists(p) /\ ValidVote(proposals[p], vote) /\ proposals[p].state = "Voting"
  BY CastVoteOutcome
<1>2. PICK weight \in VoterWeights(k) :
        /\ weight \in Nat
        /\ WithVote(p, vote, weight) \in ProposalRecord
        /\ \/ CastOnly(p, k, vote, weight)
           \/ \E max \in Nat, state \in {"Vetoed", "Succeeded", "Defeated"} :
                CastAndTip(p, k, vote, weight, max, state)
  BY CastVoteOutcome
<1> DEFINE q == WithVote(p, vote, weight)
<1>3. /\ proposals[p] \in ProposalRecord
      /\ vote.kind = "approve" => DOMAIN vote.choices = DOMAIN proposals[p].options
  BY <1>1, ProposalOf DEF ValidVote
<1>4. CASE CastOnly(p, k, vote, weight)
  <2>1. q.state = proposals[p].state /\ q.tipping = proposals[p].tipping
    BY <1>2, <1>3, TalliedType DEF WithVote
  <2>2. TipSound(q)
    BY <1>1, <2>1 DEF TipsSound, TipSound, Undecided
  <2> QED BY <1>4, <2>2, TipsUpdate DEF CastOnly
<1>5. ASSUME NEW max \in Nat, NEW state \in {"Vetoed", "Succeeded", "Defeated"},
             CastAndTip(p, k, vote, weight, max, state)
      PROVE  TipsSound'
  <2> DEFINE kind == VoteKind(vote)
             threshold == VoteThreshold(gov.config, k[1] = Council, kind)
             tipping == VoteTipping(gov.config, k[1] = Council)
             r == TippedRecord(q, state, now, max, threshold, tipping)
  <2>1. /\ proposals' = [proposals EXCEPT ![p] = r]
        /\ state = TippedState(q, max, threshold, tipping, kind)
    BY <1>5 DEF CastAndTip
  <2>2. threshold \in Thresholds /\ tipping \in Tippings /\ now \in Nat
    <3>1. now \in Nat
      BY RealmNumbers DEF TypeInv, RealmTypes
    <3>2. (k[1] = Council) \in BOOLEAN /\ GovernanceExists
      BY <1>1, ProposalOf
    <3> QED BY <3>1, <3>2, ThresholdType
  <2> HIDE DEF threshold, tipping, q, kind
  <2>3. r.state = state /\ r.tipping = tipping
    <3>1. q \in ProposalRecord
      BY <1>2 DEF q
    <3> QED BY <2>2, <3>1, TippedType
  <2>4. state # "Vetoed" /\ tipping = "Strict" => TipStands(r)
    BY <1>2, <2>1, <2>2, TippedStands DEF q
  <2> HIDE DEF r
  <2>5. TipSound(r)
    BY <2>3, <2>4 DEF TipSound, Undecided
  <2> QED BY <2>1, <2>5, TipsUpdate
<1> QED BY <1>2, <1>4, <1>5

LEMMA NextTips ==
  ASSUME TypeInv, TipsSound, [Next]_vars
  PROVE  TipsSound'
<1>0. UNCHANGED proposals => TipsSound'
  BY DEF TipsSound, Exists
<1>1. CASE UNCHANGED govVars \/ UNCHANGED vars
  BY <1>0, <1>1 DEF vars, govVars
<1>2. CASE ProposalStep
  <2>1. CASE \E k \in Records, config \in GovernanceConfigs :
               \/ \E s \in Voters : CreateGovernance(s, k, config)
               \/ CreateGovernance(RealmAuthority, k, config)
    BY <1>0, <2>1, CreateGovernanceLeaves, Zenon
  <2>2. ASSUME NEW p \in Proposals,
               \/ FinalizeVote(p)
               \/ RefundProposalDeposit(p)
               \/ \E k \in Records : ReleaseVote(p, k)
               \/ \E i \in 1..MaxOptions, n \in 0..MaxTransactions-1 : ExecuteTransaction(p, i, n)
        PROVE  TipsSound'
    <3>1. \A k \in Records : ReleaseVote(p, k) => UNCHANGED proposals
      BY DEF ReleaseVote
    <3> QED BY <1>0, <2>2, <3>1, FinalizeVoteTips, RefundProposalDepositState, StateChangeTips,
               ExecuteTransactionTips, Zenon
  <2>3. ASSUME NEW p \in Proposals, NEW s \in Signers,
               \/ SignOffProposal(p, s)
               \/ CancelProposal(p, s)
               \/ CompleteProposal(p, s)
               \/ \E x \in Signatories : AddSignatory(p, s, x)
               \/ \E k \in Records :
                    \/ \E args \in ProposalArgs : CreateProposal(p, k, s, args)
                    \/ \E vote \in Votes : CastVote(p, k, s, vote)
                    \/ WithdrawVote(p, k, s)
               \/ \E i \in 1..MaxOptions, n \in 0..MaxTransactions-1 :
                    \/ \E x \in Instructions : InsertTransaction(p, s, i, n, x)
                    \/ RemoveTransaction(p, s, i, n)
        PROVE  TipsSound'
    <3>1. SignOffProposal(p, s) => TipsSound'
      BY SignOffProposalState, StateChangeTips DEF Undecided
    <3>2. CancelProposal(p, s) => TipsSound'
      BY CancelProposalState, StateChangeTips
    <3>3. CompleteProposal(p, s) => TipsSound'
      BY CompleteProposalState, StateChangeTips
    <3>4. \A x \in Signatories : AddSignatory(p, s, x) => TipsSound'
      BY AddSignatoryState, StateChangeTips
    <3>5. \A i, n, x : InsertTransaction(p, s, i, n, x) => TipsSound'
      BY InsertTransactionState, DraftChangeTips, Zenon
    <3>6. \A i, n : RemoveTransaction(p, s, i, n) => TipsSound'
      BY RemoveTransactionState, DraftChangeTips, Zenon
    <3> QED BY <2>3, <3>1, <3>2, <3>3, <3>4, <3>5, <3>6, CreateProposalTips, CastVoteTips,
               WithdrawVoteTips, Zenon
  <2> QED BY <1>2, <2>1, <2>2, <2>3, Zenon DEF ProposalStep
<1> QED BY <1>1, <1>2 DEF Next

\* A strict tip is final: whatever the votes that were not cast would have been, within
\* the maximum weight at the tip, the proposal would have been resolved the same way
\* (proposal.rs:try_get_tipped_vote_state).
THEOREM TipsFinal == Spec => []TipsStand
<1>1. Init => TipsSound
  BY DEF Init, TipsSound, Exists, NoProposal
<1>2. TypeInv /\ TipsSound /\ [Next]_vars => TipsSound'
  BY NextTips
<1>3. TipsSound => TipsStand
  BY Zenon DEF TipsSound, TipSound, TipStands, TipsStand
<1> QED BY <1>1, <1>2, <1>3, TypeInvariant, PTL DEF Spec

-----------------------------------------------------------------------------
(* Transactions *)

\* The transactions of an option, and those of them that are executed.
MadeOf(row, i) == {x \in DOMAIN row : x[1] = i /\ row[x].exists}
DoneOf(row, i) == {x \in MadeOf(row, i) : row[x].executed}

\* What is counted and executed for one option of a proposal in the given state.
OptionSound(o, i, row, state, use_deny) ==
  /\ o.transactions_count = Cardinality(MadeOf(row, i))
  /\ o.transactions_executed_count = Cardinality(DoneOf(row, i))
  /\ DoneOf(row, i) # {} => o.vote_result = "Succeeded" /\ state \notin Undecided
  /\ state = "Completed" /\ o.vote_result = "Succeeded" => DoneOf(row, i) = MadeOf(row, i)
  /\ ~use_deny => MadeOf(row, i) = {}

\* A transaction that an option which won still has to execute.
LeftToDo(opts, row) ==
  \E x \in DOMAIN row : row[x].exists /\ ~row[x].executed
                        /\ opts[x[1]].vote_result = "Succeeded"

ExecSound(q, row) ==
  /\ \A i \in DOMAIN q.options : OptionSound(q.options[i], i, row, q.state, q.use_deny)
  /\ q.state = "Executing" => LeftToDo(q.options, row)

ExecutionSound == \A p \in Proposals : Exists(p) => ExecSound(proposals[p], txs[p])

LEMMA ExecutionSoundComplete ==
  ASSUME TypeInv, ExecutionSound
  PROVE  ExecutionComplete
<1> SUFFICES ASSUME NEW p \in Proposals, Exists(p)
             PROVE  LET q == proposals[p]
                        Made(i) == {x \in Slots(p) : x[1] = i /\ txs[p][x].exists}
                        Done(i) == {x \in Made(i) : txs[p][x].executed}
                    IN  \A i \in DOMAIN q.options :
                          /\ q.options[i].transactions_count = Cardinality(Made(i))
                          /\ q.options[i].transactions_executed_count = Cardinality(Done(i))
                          /\ Done(i) # {} => q.options[i].vote_result = "Succeeded"
                          /\ q.state = "Completed" /\ q.options[i].vote_result = "Succeeded"
                               => Done(i) = Made(i)
                          /\ q.state = "Executing" =>
                               \E x \in Slots(p) : txs[p][x].exists /\ ~txs[p][x].executed
                                  /\ q.options[x[1]].vote_result = "Succeeded"
  BY Zenon DEF ExecutionComplete
<1>1. DOMAIN txs[p] = Slots(p)
  BY DEF TypeInv, TransactionTypes
<1>2. \A i : MadeOf(txs[p], i) = {x \in Slots(p) : x[1] = i /\ txs[p][x].exists}
  BY <1>1 DEF MadeOf
<1>3. ExecSound(proposals[p], txs[p])
  BY DEF ExecutionSound
<1> QED BY <1>1, <1>2, <1>3, Zenon DEF ExecSound, OptionSound, DoneOf, LeftToDo

LEMMA RowsFinite ==
  ASSUME TypeInv, NEW p \in Proposals, Exists(p), NEW i
  PROVE  /\ DOMAIN txs[p] = Slots(p)
         /\ IsFiniteSet(MadeOf(txs[p], i)) /\ IsFiniteSet(DoneOf(txs[p], i))
         /\ Cardinality(MadeOf(txs[p], i)) \in Nat /\ Cardinality(DoneOf(txs[p], i)) \in Nat
<1>1. PICK m \in 1..MaxOptions : DOMAIN proposals[p].options = 1..m
  BY ProposalOf, OptionListOf
<1>2. IsFiniteSet(1..m)
  BY FS_Interval DEF MaxOptions
<1>3. MaxTransactions \in Nat
  BY GovernanceAssumption
<1>4. 0 \in Int /\ MaxTransactions - 1 \in Int
  BY <1>3
<1>5. IsFiniteSet(0..MaxTransactions-1)
  BY <1>4, FS_Interval
<1>6. IsFiniteSet(Slots(p))
  BY <1>1, <1>2, <1>5, FS_Product DEF Slots
<1>7. DOMAIN txs[p] = Slots(p)
  BY DEF TypeInv, TransactionTypes
<1>8. MadeOf(txs[p], i) \subseteq Slots(p) /\ DoneOf(txs[p], i) \subseteq Slots(p)
  BY <1>7 DEF MadeOf, DoneOf
<1> QED BY <1>6, <1>7, <1>8, FS_Subset, FS_CardinalityType

LEMMA ExecutionUpdate ==
  ASSUME TypeInv, ExecutionSound, NEW p \in Proposals, NEW q, NEW row,
         proposals' = [proposals EXCEPT ![p] = q], txs' = [txs EXCEPT ![p] = row],
         ExecSound(q, row)
  PROVE  ExecutionSound'
<1>1. \A r \in Proposals : proposals'[r] = IF r = p THEN q ELSE proposals[r]
  BY DEF TypeInv, ProposalTypes
<1>2. \A r \in Proposals : txs'[r] = IF r = p THEN row ELSE txs[r]
  BY DEF TypeInv, TransactionTypes
<1> QED BY <1>1, <1>2, Zenon DEF ExecutionSound, Exists

\* The same with the transactions left alone.
LEMMA ExecutionSameTransactions ==
  ASSUME TypeInv, ExecutionSound, NEW p \in Proposals, NEW q,
         proposals' = [proposals EXCEPT ![p] = q], txs' = txs, ExecSound(q, txs[p])
  PROVE  ExecutionSound'
<1>1. \A r \in Proposals : proposals'[r] = IF r = p THEN q ELSE proposals[r]
  BY DEF TypeInv, ProposalTypes
<1> QED BY <1>1, Zenon DEF ExecutionSound, Exists

\* r has the transactions that q counts.
SameItems(r, q) ==
  /\ r.use_deny = q.use_deny /\ DOMAIN r.options = DOMAIN q.options
  /\ \A i \in DOMAIN q.options :
       /\ r.options[i].transactions_count = q.options[i].transactions_count
       /\ r.options[i].transactions_executed_count = q.options[i].transactions_executed_count

\* A proposal that is not decided has executed nothing, so that it may be decided in
\* any way that completes it only if it has no transactions.
LEMMA DecidedExecution ==
  ASSUME NEW q, NEW r, NEW row, ExecSound(q, row), q.state \in Undecided,
         SameItems(r, q), r.state # "Executing", r.state = "Completed" => ~q.use_deny
  PROVE  ExecSound(r, row)
<1>1. \A i \in DOMAIN q.options : OptionSound(q.options[i], i, row, q.state, q.use_deny)
  BY DEF ExecSound
<1>2. \A i : DoneOf(row, i) \subseteq MadeOf(row, i)
  BY DEF DoneOf
<1>3. \A i \in DOMAIN q.options : OptionSound(r.options[i], i, row, r.state, r.use_deny)
  BY <1>1, <1>2 DEF OptionSound, SameItems
<1> QED BY <1>3 DEF ExecSound, SameItems

LEMMA TalliedItems ==
  ASSUME NEW q \in ProposalRecord, NEW vote \in Votes, NEW w \in Nat, NEW sign \in {1, -1},
         vote.kind = "approve" => DOMAIN vote.choices = DOMAIN q.options
  PROVE  LET t == Tallied(q, vote, w, sign)
         IN  t.state = q.state /\ SameItems(t, q)
<1> DEFINE t == Tallied(q, vote, w, sign)
           n(i) == q.options[i].vote_weight + sign * OptionPart(vote, w, i)
<1>1. /\ t.state = q.state /\ t.use_deny = q.use_deny /\ DOMAIN t.options = DOMAIN q.options
      /\ \A i \in DOMAIN q.options : t.options[i] = Weighted(q.options[i], n(i))
  <2>1. t.state = q.state /\ t.use_deny = q.use_deny
    BY TalliedType
  <2>2. DOMAIN t.options = DOMAIN q.options
    BY DEF Tallied, ProposalRecord
  <2>3. ASSUME NEW i \in DOMAIN q.options
        PROVE  t.options[i] = Weighted(q.options[i], n(i))
    BY <2>3, TalliedType
  <2> QED BY <2>1, <2>2, <2>3
<1>2. \A i \in DOMAIN q.options : q.options[i] \in ProposalOption
  BY OptionListOf DEF ProposalRecord
<1> HIDE DEF t, n
<1>3. \A i \in DOMAIN q.options :
        /\ t.options[i].transactions_count = q.options[i].transactions_count
        /\ t.options[i].transactions_executed_count = q.options[i].transactions_executed_count
  BY <1>1, <1>2 DEF Weighted, ProposalOption
<1> QED BY <1>1, <1>3 DEF SameItems, t

LEMMA TippedItems ==
  ASSUME NEW q \in ProposalRecord, NEW state \in {"Vetoed", "Succeeded", "Defeated"},
         NEW at \in Nat, NEW max \in Nat, NEW threshold \in Thresholds,
         NEW tipping \in Tippings
  PROVE  LET r == TippedRecord(q, state, at, max, threshold, tipping)
         IN  r.state = state /\ SameItems(r, q)
<1> DEFINE r == TippedRecord(q, state, at, max, threshold, tipping)
<1>1. /\ r.state = state /\ r.use_deny = q.use_deny /\ DOMAIN r.options = DOMAIN q.options
      /\ r.options = TippedOptions(q, state)
  BY TippedType
<1>2. \A i \in DOMAIN q.options : q.options[i] \in ProposalOption
  BY OptionListOf DEF ProposalRecord
<1> HIDE DEF r
<1>3. \A i \in DOMAIN q.options :
        /\ r.options[i].transactions_count = q.options[i].transactions_count
        /\ r.options[i].transactions_executed_count = q.options[i].transactions_executed_count
  BY <1>1, <1>2 DEF TippedOptions, ProposalOption
<1> QED BY <1>1, <1>3 DEF SameItems, r

LEMMA StateChangeExecution ==
  ASSUME TypeInv, ExecutionSound, NEW p \in Proposals, NEW q, StateChange(p, q),
         \/ q.state = proposals[p].state
         \/ proposals[p].state \in Undecided /\ q.state \in Undecided \cup {"Cancelled"}
         \/ /\ proposals[p].state = "Succeeded" /\ q.state = "Completed"
            /\ \A i \in DOMAIN proposals[p].options :
                 proposals[p].options[i].transactions_count = 0
  PROVE  ExecutionSound'
<1> DEFINE row == txs[p]
           opts == proposals[p].options
<1>1. /\ ExecSound(proposals[p], row) /\ q.use_deny = proposals[p].use_deny
      /\ q.options = opts
      /\ proposals' = [proposals EXCEPT ![p] = q] /\ txs' = txs
  BY DEF ExecutionSound, StateChange, SameVote
<1>2. \A i \in DOMAIN opts :
        OptionSound(opts[i], i, row, proposals[p].state, q.use_deny)
  BY <1>1 DEF ExecSound
<1> HIDE DEF opts, row
<1>3. CASE q.state = proposals[p].state
  <2>1. ExecSound(q, row)
    BY <1>1, <1>3, Zenon DEF ExecSound, opts
  <2> QED BY <1>1, <2>1, ExecutionSameTransactions DEF row
<1>4. CASE proposals[p].state \in Undecided /\ q.state \in Undecided \cup {"Cancelled"}
  <2>1. q.state # "Executing" /\ q.state # "Completed"
    BY <1>4 DEF Undecided
  <2>2. SameItems(q, proposals[p])
    BY <1>1, Zenon DEF SameItems, opts
  <2>3. q.state = "Completed" => ~proposals[p].use_deny
    BY <2>1
  <2>4. ExecSound(q, row)
    BY <1>1, <1>4, <2>1, <2>2, <2>3, DecidedExecution, Zenon
  <2> QED BY <1>1, <2>4, ExecutionSameTransactions DEF row
<1>5. CASE /\ q.state = "Completed"
           /\ \A i \in DOMAIN opts : opts[i].transactions_count = 0
  <2>1. ASSUME NEW i \in DOMAIN opts
        PROVE  OptionSound(opts[i], i, row, "Completed", q.use_deny)
    <3>1. Cardinality(MadeOf(row, i)) = 0
      BY <1>2, <1>5, <2>1 DEF OptionSound
    <3>2. IsFiniteSet(MadeOf(row, i))
      BY RowsFinite DEF row, StateChange
    <3>3. MadeOf(row, i) = {}
      BY <3>1, <3>2, FS_EmptySet
    <3>4. DoneOf(row, i) = {}
      BY <3>3 DEF DoneOf
    <3> QED BY <1>2, <2>1, <3>3, <3>4 DEF OptionSound
  <2>2. ExecSound(q, row)
    BY <1>1, <1>5, <2>1 DEF ExecSound
  <2> QED BY <1>1, <2>2, ExecutionSameTransactions DEF row
<1> QED BY <1>3, <1>4, <1>5 DEF opts

LEMMA FinalizeVoteExecution ==
  ASSUME TypeInv, ExecutionSound, NEW p \in Proposals, FinalizeVote(p)
  PROVE  ExecutionSound'
<1> DEFINE q == proposals[p]
<1>1. PICK r, min : proposals' = [proposals EXCEPT ![p] = r] /\ Resolution(r, q, min)
  BY FinalizeVoteResolved
<1>2. Exists(p) /\ q.state = "Voting" /\ txs' = txs
  BY FinalizeVoteOutcome, Zenon
<1>3. ExecSound(q, txs[p])
  BY <1>2 DEF ExecutionSound
<1>4. SameItems(r, q)
  BY <1>1, Zenon DEF Resolution, SameItems
<1>5. r.state # "Executing" /\ (r.state = "Completed" => ~q.use_deny)
  BY <1>1 DEF Resolution, FinalVoteState
<1>6. q.state \in Undecided
  BY <1>2 DEF Undecided
<1> HIDE DEF q
<1>7. ExecSound(r, txs[p])
  BY <1>3, <1>4, <1>5, <1>6, DecidedExecution
<1> QED BY <1>1, <1>2, <1>7, ExecutionSameTransactions

LEMMA WithdrawVoteExecution ==
  ASSUME TypeInv, ExecutionSound, NEW p \in Proposals, NEW k \in Records, NEW s,
         WithdrawVote(p, k, s)
  PROVE  ExecutionSound'
<1> DEFINE v == votes[p][k]
           q == Tallied(proposals[p], v.vote, v.weight, -1)
<1>1. /\ Exists(p) /\ v \in VoteRecord /\ VoteFits(p, k) /\ proposals[p].state = "Voting"
      /\ proposals' = [proposals EXCEPT ![p] = q] /\ txs' = txs
  BY WithdrawVoteOutcome, Zenon
<1>2. /\ proposals[p] \in ProposalRecord /\ v.vote \in Votes /\ v.weight \in Nat
      /\ v.vote.kind = "approve" => DOMAIN v.vote.choices = DOMAIN proposals[p].options
  BY <1>1, ProposalOf DEF VoteRecord, VoteFits
<1> HIDE DEF v
<1>3. q.state = "Voting" /\ SameItems(q, proposals[p])
  BY <1>1, <1>2, TalliedItems
<1> HIDE DEF q
<1>4. ExecSound(q, txs[p])
  BY <1>1, <1>3, DecidedExecution DEF ExecutionSound, Undecided
<1> QED BY <1>1, <1>4, ExecutionSameTransactions

LEMMA CastVoteExecution ==
  ASSUME TypeInv, ExecutionSound, NEW p \in Proposals, NEW k \in Records, NEW s,
         NEW vote \in Votes, CastVote(p, k, s, vote)
  PROVE  ExecutionSound'
<1>1. /\ Exists(p) /\ ValidVote(proposals[p], vote) /\ proposals[p].state = "Voting"
      /\ txs' = txs
  BY CastVoteOutcome
<1>2. PICK weight \in VoterWeights(k) :
        /\ weight \in Nat
        /\ WithVote(p, vote, weight) \in ProposalRecord
        /\ \/ CastOnly(p, k, vote, weight)
           \/ \E max \in Nat, state \in {"Vetoed", "Succeeded", "Defeated"} :
                CastAndTip(p, k, vote, weight, max, state)
  BY CastVoteOutcome
<1> DEFINE q == WithVote(p, vote, weight)
<1>3. /\ proposals[p] \in ProposalRecord
      /\ vote.kind = "approve" => DOMAIN vote.choices = DOMAIN proposals[p].options
  BY <1>1, ProposalOf DEF ValidVote
<1>4. q.state = "Voting" /\ SameItems(q, proposals[p])
  <2>1. 1 \in {1, -1}
    OBVIOUS
  <2> QED BY <1>1, <1>2, <1>3, <2>1, TalliedItems DEF WithVote
<1>5. ExecSound(proposals[p], txs[p]) /\ proposals[p].state \in Undecided
  BY <1>1 DEF ExecutionSound, Undecided
<1>6. CASE CastOnly(p, k, vote, weight)
  <2>1. ExecSound(q, txs[p])
    BY <1>4, <1>5, DecidedExecution
  <2> QED BY <1>1, <1>6, <2>1, ExecutionSameTransactions DEF CastOnly
<1>7. ASSUME NEW max \in Nat, NEW state \in {"Vetoed", "Succeeded", "Defeated"},
             CastAndTip(p, k, vote, weight, max, state)
      PROVE  ExecutionSound'
  <2> DEFINE kind == VoteKind(vote)
             threshold == VoteThreshold(gov.config, k[1] = Council, kind)
             tipping == VoteTipping(gov.config, k[1] = Council)
             r == TippedRecord(q, state, now, max, threshold, tipping)
  <2>1. proposals' = [proposals EXCEPT ![p] = r]
    BY <1>7 DEF CastAndTip
  <2>2. threshold \in Thresholds /\ tipping \in Tippings /\ now \in Nat
    <3>1. now \in Nat
      BY RealmNumbers DEF TypeInv, RealmTypes
    <3>2. (k[1] = Council) \in BOOLEAN /\ GovernanceExists
      BY <1>1, ProposalOf
    <3> QED BY <3>1, <3>2, ThresholdType
  <2>3. q \in ProposalRecord
    BY <1>2
  <2> HIDE DEF threshold, tipping, q, kind
  <2>4. r.state = state /\ SameItems(r, q)
    BY <2>2, <2>3, TippedItems
  <2> HIDE DEF r
  <2>5. SameItems(r, proposals[p])
    BY <1>4, <2>4, Zenon DEF SameItems
  <2>6. ExecSound(r, txs[p])
    BY <1>5, <2>4, <2>5, DecidedExecution
  <2> QED BY <1>1, <2>1, <2>6, ExecutionSameTransactions
<1> QED BY <1>2, <1>6, <1>7

\* A draft has executed nothing: what changes is what its options count as made.
LEMMA DraftChangeExecution ==
  ASSUME TypeInv, ExecutionSound, NEW p \in Proposals, NEW i, NEW o, DraftChange(p, i, o),
         NEW row, txs' = [txs EXCEPT ![p] = row], DoneOf(row, i) = {},
         \A j \in DOMAIN proposals[p].options :
           j # i => MadeOf(row, j) = MadeOf(txs[p], j) /\ DoneOf(row, j) = DoneOf(txs[p], j),
         o.transactions_count = Cardinality(MadeOf(row, i)),
         ~proposals[p].use_deny => MadeOf(row, i) = {}
  PROVE  ExecutionSound'
<1> DEFINE old == proposals[p]
<1>1. PICK q : /\ proposals' = [proposals EXCEPT ![p] = q]
               /\ q.options = [old.options EXCEPT ![i] = o]
               /\ q.state = "Draft" /\ SameVote(q, old)
  BY DEF DraftChange
<1>2. /\ Exists(p) /\ i \in DOMAIN old.options /\ old.state = "Draft"
      /\ o.transactions_executed_count = old.options[i].transactions_executed_count
      /\ ExecSound(old, txs[p]) /\ q.use_deny = old.use_deny
  BY <1>1 DEF DraftChange, ExecutionSound, SameVote
<1>3. \A j \in DOMAIN old.options :
        OptionSound(old.options[j], j, txs[p], "Draft", q.use_deny)
  BY <1>2 DEF ExecSound
<1> HIDE DEF old
<1>4. ASSUME NEW j \in DOMAIN q.options
      PROVE  OptionSound(q.options[j], j, row, "Draft", q.use_deny)
  <2>1. CASE j = i
    <3>1. q.options[j] = o /\ OptionSound(old.options[i], i, txs[p], "Draft", q.use_deny)
      BY <1>1, <1>2, <1>3, <2>1
    <3>2. DoneOf(txs[p], i) = {}
      BY <3>1 DEF OptionSound, Undecided
    <3>3. o.transactions_executed_count = Cardinality(DoneOf(row, i))
      BY <1>2, <3>1, <3>2 DEF OptionSound
    <3> QED BY <1>2, <2>1, <3>1, <3>3 DEF OptionSound, old
  <2>2. CASE j # i
    <3>1. j \in DOMAIN old.options /\ q.options[j] = old.options[j]
      BY <1>1, <1>2, <1>4, <2>2
    <3> QED BY <1>3, <2>2, <3>1 DEF OptionSound, old
  <2> QED BY <2>1, <2>2
<1>5. ExecSound(q, row)
  BY <1>1, <1>4 DEF ExecSound
<1> QED BY <1>1, <1>5, ExecutionUpdate

LEMMA InsertTransactionExecution ==
  ASSUME TypeInv, ExecutionSound, NEW p \in Proposals, NEW s, NEW i, NEW n, NEW y,
         InsertTransaction(p, s, i, n, y)
  PROVE  ExecutionSound'
<1> DEFINE x == <<i, n>>
           t == [exists |-> TRUE, instruction |-> y, executed |-> FALSE]
           row == [txs[p] EXCEPT ![x] = t]
<1>1. /\ x \in Slots(p) /\ ~txs[p][x].exists /\ txs' = [txs EXCEPT ![p][x] = t]
      /\ proposals[p].use_deny
  BY InsertTransactionState, Zenon DEF InsertTransaction, CanEditInstructions
<1>2. PICK o : /\ DraftChange(p, i, o)
               /\ o.transactions_count = proposals[p].options[i].transactions_count + 1
  BY InsertTransactionState, Zenon
<1>3. /\ Exists(p) /\ proposals[p].state = "Draft" /\ i \in DOMAIN proposals[p].options
      /\ ExecSound(proposals[p], txs[p])
  BY <1>2 DEF DraftChange, ExecutionSound
<1>4. DOMAIN txs[p] = Slots(p) /\ IsFiniteSet(MadeOf(txs[p], i))
  BY <1>3, RowsFinite
<1>5. OptionSound(proposals[p].options[i], i, txs[p], "Draft", proposals[p].use_deny)
  BY <1>3 DEF ExecSound
<1>6. DoneOf(txs[p], i) = {}
  BY <1>5 DEF OptionSound, Undecided
<1>7. DOMAIN row = DOMAIN txs[p] /\ \A z \in DOMAIN row : row[z] = IF z = x THEN t ELSE txs[p][z]
  OBVIOUS
<1>8. txs' = [txs EXCEPT ![p] = row]
  BY <1>1
<1>9. x[1] = i /\ t.exists /\ ~t.executed
  OBVIOUS
<1> HIDE DEF row, x, t
<1>10. MadeOf(row, i) = MadeOf(txs[p], i) \cup {x} /\ x \notin MadeOf(txs[p], i)
  BY <1>1, <1>4, <1>7, <1>9 DEF MadeOf
<1>11. DoneOf(row, i) = {}
  BY <1>6, <1>7, <1>9 DEF DoneOf, MadeOf
<1>12. \A j : j # i => MadeOf(row, j) = MadeOf(txs[p], j) /\ DoneOf(row, j) = DoneOf(txs[p], j)
  BY <1>7, <1>9 DEF DoneOf, MadeOf
<1>13. Cardinality(MadeOf(row, i)) = Cardinality(MadeOf(txs[p], i)) + 1
  BY <1>4, <1>10, OneMore
<1>14. o.transactions_count = Cardinality(MadeOf(row, i))
  BY <1>2, <1>5, <1>13 DEF OptionSound
<1>15. ~proposals[p].use_deny => MadeOf(row, i) = {}
  BY <1>1
<1> QED BY <1>2, <1>8, <1>11, <1>12, <1>14, <1>15, DraftChangeExecution, Zenon

LEMMA RemoveTransactionExecution ==
  ASSUME TypeInv, ExecutionSound, NEW p \in Proposals, NEW s, NEW i, NEW n,
         RemoveTransaction(p, s, i, n)
  PROVE  ExecutionSound'
<1> DEFINE x == <<i, n>>
           row == [txs[p] EXCEPT ![x] = NoTransaction]
<1>1. x \in Slots(p) /\ txs[p][x].exists /\ txs' = [txs EXCEPT ![p][x] = NoTransaction]
  BY Zenon DEF RemoveTransaction
<1>2. PICK o : /\ DraftChange(p, i, o)
               /\ o.transactions_count = proposals[p].options[i].transactions_count - 1
  BY RemoveTransactionState, Zenon
<1>3. /\ Exists(p) /\ proposals[p].state = "Draft" /\ i \in DOMAIN proposals[p].options
      /\ ExecSound(proposals[p], txs[p])
  BY <1>2 DEF DraftChange, ExecutionSound
<1>4. DOMAIN txs[p] = Slots(p) /\ IsFiniteSet(MadeOf(txs[p], i))
  BY <1>3, RowsFinite
<1>5. OptionSound(proposals[p].options[i], i, txs[p], "Draft", proposals[p].use_deny)
  BY <1>3 DEF ExecSound
<1>6. DoneOf(txs[p], i) = {}
  BY <1>5 DEF OptionSound, Undecided
<1>7. /\ DOMAIN row = DOMAIN txs[p]
      /\ \A z \in DOMAIN row : row[z] = IF z = x THEN NoTransaction ELSE txs[p][z]
  OBVIOUS
<1>8. txs' = [txs EXCEPT ![p] = row]
  BY <1>1
<1>9. x[1] = i /\ ~NoTransaction.exists
  BY DEF NoTransaction
<1> HIDE DEF row, x
<1>10. MadeOf(row, i) = MadeOf(txs[p], i) \ {x} /\ x \in MadeOf(txs[p], i)
  BY <1>1, <1>4, <1>7, <1>9 DEF MadeOf
<1>11. DoneOf(row, i) = {}
  BY <1>6, <1>7, <1>9 DEF DoneOf, MadeOf
<1>12. \A j : j # i => MadeOf(row, j) = MadeOf(txs[p], j) /\ DoneOf(row, j) = DoneOf(txs[p], j)
  BY <1>1, <1>4, <1>7, <1>9 DEF DoneOf, MadeOf
<1>13. Cardinality(MadeOf(row, i)) = Cardinality(MadeOf(txs[p], i)) - 1
  BY <1>4, <1>10, OneLess
<1>14. o.transactions_count = Cardinality(MadeOf(row, i))
  BY <1>2, <1>5, <1>13 DEF OptionSound
<1>15. ~proposals[p].use_deny => MadeOf(row, i) = {}
  BY <1>5, <1>10 DEF OptionSound
<1> QED BY <1>2, <1>8, <1>11, <1>12, <1>14, <1>15, DraftChangeExecution, Zenon

LEMMA ExecuteTransactionExecution ==
  ASSUME TypeInv, ExecutionSound, NEW p \in Proposals, NEW i, NEW n,
         ExecuteTransaction(p, i, n)
  PROVE  ExecutionSound'
<1> DEFINE q == proposals[p]
           x == <<i, n>>
           t == [txs[p][x] EXCEPT !.executed = TRUE]
           row == [txs[p] EXCEPT ![x] = t]
           o == ExecutedOption(q.options[i])
           r == AfterExecution(q, i)
<1>1. /\ Exists(p) /\ x \in Slots(p) /\ txs[p][x].exists /\ ~txs[p][x].executed
      /\ q.state \in {"Succeeded", "Executing"} /\ q.options[i].vote_result = "Succeeded"
      /\ proposals' = [proposals EXCEPT ![p] = r]
      /\ txs' = [txs EXCEPT ![p][x].executed = TRUE]
  BY Zenon DEF ExecuteTransaction, CanExecuteTransaction
<1>2. i \in DOMAIN q.options
  BY <1>1 DEF Slots
<1>3. DOMAIN txs[p] = Slots(p) /\ txs[p][x] \in TransactionRecord
  <2>1. txs[p] \in [Slots(p) -> {NoTransaction} \cup TransactionRecord]
    BY <1>1 DEF TypeInv, TransactionTypes
  <2> QED BY <1>1, <2>1 DEF NoTransaction
<1>4. t.exists /\ t.executed
  BY <1>1, <1>3 DEF TransactionRecord
<1>5. /\ DOMAIN row = DOMAIN txs[p]
      /\ \A z \in DOMAIN row : row[z] = IF z = x THEN t ELSE txs[p][z]
  OBVIOUS
<1>6. txs' = [txs EXCEPT ![p] = row]
  BY <1>1
<1>7. /\ r.options = [q.options EXCEPT ![i] = o] /\ DOMAIN r.options = DOMAIN q.options
      /\ o.transactions_executed_count = q.options[i].transactions_executed_count + 1
      /\ o.transactions_count = q.options[i].transactions_count
      /\ o.vote_result = q.options[i].vote_result
      /\ r.use_deny = q.use_deny
  BY <1>1, <1>2, AfterExecutionOf
<1>8. r.state = IF WinnersExecuted(r.options) THEN "Completed" ELSE "Executing"
  BY <1>1, <1>2, AfterExecutionOf, Zenon
<1>9. x[1] = i
  OBVIOUS
<1> HIDE DEF row, x, t, r, o, q
<1>10. \A j : MadeOf(row, j) = MadeOf(txs[p], j)
  BY <1>1, <1>3, <1>4, <1>5 DEF MadeOf
<1>11. DoneOf(row, i) = DoneOf(txs[p], i) \cup {x} /\ x \notin DoneOf(txs[p], i)
  BY <1>1, <1>3, <1>4, <1>5, <1>9 DEF DoneOf, MadeOf
<1>12. \A j : j # i => DoneOf(row, j) = DoneOf(txs[p], j)
  BY <1>1, <1>3, <1>4, <1>5, <1>9 DEF DoneOf, MadeOf
<1>13. /\ IsFiniteSet(DoneOf(txs[p], i))
       /\ Cardinality(DoneOf(row, i)) = Cardinality(DoneOf(txs[p], i)) + 1
  BY <1>1, <1>11, RowsFinite, OneMore
<1>14. \A j \in DOMAIN q.options :
         OptionSound(q.options[j], j, txs[p], q.state, q.use_deny)
  BY <1>1 DEF ExecutionSound, ExecSound, q
\* The counts of every option, and what has won.
<1>15. ASSUME NEW j \in DOMAIN r.options
       PROVE  /\ r.options[j].transactions_count = Cardinality(MadeOf(row, j))
              /\ r.options[j].transactions_executed_count = Cardinality(DoneOf(row, j))
              /\ DoneOf(row, j) # {} => r.options[j].vote_result = "Succeeded"
              /\ ~r.use_deny => MadeOf(row, j) = {}
  <2>1. CASE j = i
    <3>1. r.options[j] = o
      BY <1>2, <1>7, <2>1
    <3>2. OptionSound(q.options[i], i, txs[p], q.state, q.use_deny)
      BY <1>2, <1>14
    <3> QED BY <1>1, <1>7, <1>10, <1>13, <2>1, <3>1, <3>2 DEF OptionSound, q
  <2>2. CASE j # i
    <3>1. j \in DOMAIN q.options /\ r.options[j] = q.options[j]
      BY <1>7, <1>15, <2>2
    <3>2. OptionSound(q.options[j], j, txs[p], q.state, q.use_deny)
      BY <1>14, <3>1
    <3> QED BY <1>7, <1>10, <1>12, <2>2, <3>1, <3>2 DEF OptionSound
  <2> QED BY <2>1, <2>2
<1>16. \A j : /\ IsFiniteSet(MadeOf(row, j)) /\ DoneOf(row, j) \subseteq MadeOf(row, j)
  <2>1. \A j : IsFiniteSet(MadeOf(txs[p], j))
    BY <1>1, RowsFinite
  <2> QED BY <1>10, <2>1 DEF DoneOf
\* Equal counts are equal sets.
<1>17. ASSUME NEW j \in DOMAIN r.options,
              r.options[j].transactions_executed_count = r.options[j].transactions_count
       PROVE  DoneOf(row, j) = MadeOf(row, j)
  BY <1>15, <1>16, <1>17, FS_Subset
<1>18. CASE WinnersExecuted(r.options)
  <2>1. r.state = "Completed"
    BY <1>8, <1>18
  <2>2. \A j \in DOMAIN r.options :
          r.options[j].vote_result = "Succeeded" => DoneOf(row, j) = MadeOf(row, j)
    BY <1>17, <1>18 DEF WinnersExecuted
  <2>3. ExecSound(r, row)
    BY <1>15, <2>1, <2>2 DEF ExecSound, OptionSound, Undecided
  <2> QED BY <1>1, <1>6, <2>3, ExecutionUpdate
<1>19. CASE ~WinnersExecuted(r.options)
  <2>1. r.state = "Executing"
    BY <1>8, <1>19
  <2>2. PICK j \in DOMAIN r.options :
          /\ r.options[j].vote_result = "Succeeded"
          /\ r.options[j].transactions_executed_count # r.options[j].transactions_count
    BY <1>19 DEF WinnersExecuted
  <2>3. DoneOf(row, j) # MadeOf(row, j)
    BY <1>15, <2>2
  <2>4. PICK z \in MadeOf(row, j) : z \notin DoneOf(row, j)
    BY <1>16, <2>3
  <2>5. LeftToDo(r.options, row)
    BY <2>2, <2>4 DEF LeftToDo, MadeOf, DoneOf
  <2>6. ExecSound(r, row)
    BY <1>15, <2>1, <2>5 DEF ExecSound, OptionSound, Undecided
  <2> QED BY <1>1, <1>6, <2>6, ExecutionUpdate
<1> QED BY <1>18, <1>19

LEMMA CreateProposalExecution ==
  ASSUME TypeInv, ExecutionSound, NEW p \in Proposals, NEW k \in Records, NEW s,
         NEW args \in ProposalArgs, CreateProposal(p, k, s, args)
  PROVE  ExecutionSound'
<1> DEFINE q == Drafted(k, args)
           row == NoTransactions(args.options)
<1>1. /\ proposals' = [proposals EXCEPT ![p] = q] /\ txs' = [txs EXCEPT ![p] = row]
      /\ DOMAIN q.options = 1..args.options
      /\ \A i \in 1..args.options : q.options[i] = NewOption
  BY CreateProposalOutcome
<1>2. q.state = "Draft"
  BY DEF Drafted
<1>3. \A i : MadeOf(row, i) = {} /\ DoneOf(row, i) = {}
  BY DEF MadeOf, DoneOf, NoTransactions, NoTransaction
<1> HIDE DEF q, row
<1>4. ASSUME NEW i \in DOMAIN q.options
      PROVE  OptionSound(q.options[i], i, row, q.state, q.use_deny)
  <2>1. Cardinality({}) = 0
    BY FS_EmptySet
  <2>2. /\ q.options[i].transactions_count = 0
        /\ q.options[i].transactions_executed_count = 0
    BY <1>1, <1>4 DEF NewOption
  <2> QED BY <1>3, <2>1, <2>2 DEF OptionSound
<1>5. ExecSound(q, row)
  BY <1>2, <1>4 DEF ExecSound
<1> QED BY <1>1, <1>5, ExecutionUpdate

LEMMA NextExecution ==
  ASSUME TypeInv, ExecutionSound, [Next]_vars
  PROVE  ExecutionSound'
<1>0. UNCHANGED <<proposals, txs>> => ExecutionSound'
  BY DEF ExecutionSound, Exists
<1>1. CASE UNCHANGED govVars \/ UNCHANGED vars
  BY <1>0, <1>1 DEF vars, govVars
<1>2. CASE ProposalStep
  <2>1. CASE \E k \in Records, config \in GovernanceConfigs :
               \/ \E s \in Voters : CreateGovernance(s, k, config)
               \/ CreateGovernance(RealmAuthority, k, config)
    BY <1>0, <2>1, CreateGovernanceLeaves, Zenon
  <2>2. ASSUME NEW p \in Proposals,
               \/ FinalizeVote(p)
               \/ RefundProposalDeposit(p)
               \/ \E k \in Records : ReleaseVote(p, k)
               \/ \E i \in 1..MaxOptions, n \in 0..MaxTransactions-1 : ExecuteTransaction(p, i, n)
        PROVE  ExecutionSound'
    <3>1. \A k \in Records : ReleaseVote(p, k) => UNCHANGED <<proposals, txs>>
      BY DEF ReleaseVote
    <3> QED BY <1>0, <2>2, <3>1, FinalizeVoteExecution, RefundProposalDepositState,
               StateChangeExecution, ExecuteTransactionExecution, Zenon
  <2>3. ASSUME NEW p \in Proposals, NEW s \in Signers,
               \/ SignOffProposal(p, s)
               \/ CancelProposal(p, s)
               \/ CompleteProposal(p, s)
               \/ \E x \in Signatories : AddSignatory(p, s, x)
               \/ \E k \in Records :
                    \/ \E args \in ProposalArgs : CreateProposal(p, k, s, args)
                    \/ \E vote \in Votes : CastVote(p, k, s, vote)
                    \/ WithdrawVote(p, k, s)
               \/ \E i \in 1..MaxOptions, n \in 0..MaxTransactions-1 :
                    \/ \E x \in Instructions : InsertTransaction(p, s, i, n, x)
                    \/ RemoveTransaction(p, s, i, n)
        PROVE  ExecutionSound'
    <3>1. SignOffProposal(p, s) => ExecutionSound'
      BY SignOffProposalState, StateChangeExecution DEF Undecided
    <3>2. CancelProposal(p, s) => ExecutionSound'
      BY CancelProposalState, StateChangeExecution
    <3>3. CompleteProposal(p, s) => ExecutionSound'
      BY CompleteProposalState, StateChangeExecution
    <3>4. \A x \in Signatories : AddSignatory(p, s, x) => ExecutionSound'
      BY AddSignatoryState, StateChangeExecution
    <3> QED BY <2>3, <3>1, <3>2, <3>3, <3>4, InsertTransactionExecution,
               RemoveTransactionExecution, CreateProposalExecution, CastVoteExecution,
               WithdrawVoteExecution, Zenon
  <2> QED BY <1>2, <2>1, <2>2, <2>3, Zenon DEF ProposalStep
<1> QED BY <1>1, <1>2 DEF Next

\* The transactions that a proposal counts are those it has, a transaction is executed
\* once and only for an option that won, and the proposal is completed exactly when
\* none of those is left (proposal.rs:assert_can_execute_transaction,
\* process_execute_transaction.rs:92).
THEOREM ExecutionsCounted == Spec => []ExecutionComplete
<1>1. Init => ExecutionSound
  BY DEF Init, ExecutionSound, Exists, NoProposal
<1>2. TypeInv /\ ExecutionSound /\ [Next]_vars => ExecutionSound'
  BY NextExecution
<1>3. TypeInv /\ ExecutionSound => ExecutionComplete
  BY ExecutionSoundComplete
<1> QED BY <1>1, <1>2, <1>3, TypeInvariant, PTL DEF Spec

-----------------------------------------------------------------------------
(* Each token votes once *)

\* The weight of every mint's votes is the deposit, and no step takes tokens away.
PlainNow ==
  \A m \in GoverningMints :
    ~tokens[m].voter_weight_addin /\ tokens[m].token_type # "Membership"

SupplyKept ==
  \A m \in GoverningMints : holding'[m] + wallet'[m] >= holding[m] + wallet[m]

LEMMA PlainArgs ==
  ASSUME PlainTokens, NEW args \in InitialRealms \cup SetRealmArgs, NEW m \in GoverningMints,
         NEW authorities
  PROVE  /\ ~ResolveTokenConfig(args, m, authorities).voter_weight_addin
         /\ ResolveTokenConfig(args, m, authorities).token_type # "Membership"
BY DEF PlainTokens, ResolveTokenConfig

LEMMA InitPlain ==
  ASSUME PlainTokens, Init
  PROVE  PlainNow
<1>1. PICK args \in InitialRealms :
        tokens = [m \in GoverningMints |-> ResolveTokenConfig(args, m, {})]
  BY DEF Init, RealmInit, CreateRealm
<1>2. args \in InitialRealms \cup SetRealmArgs
  OBVIOUS
<1> QED BY <1>1, <1>2, PlainArgs DEF PlainNow

LEMMA SetRealmConfigPlain ==
  ASSUME RealmTypes, PlainTokens, PlainNow, NEW s, NEW args \in SetRealmArgs,
         SetRealmConfig(s, args)
  PROVE  PlainNow' /\ SupplyKept
<1>1. /\ tokens' = [m \in GoverningMints |->
                      ResolveTokenConfig(args, m, tokens[m].lock_authorities)]
      /\ holding' = holding /\ wallet' = wallet
  BY DEF SetRealmConfig
<1>2. args \in InitialRealms \cup SetRealmArgs
  OBVIOUS
<1>3. PlainNow'
  BY <1>1, <1>2, PlainArgs DEF PlainNow
<1>4. SupplyKept
  BY <1>1 DEF SupplyKept, RealmTypes, BalanceTypes
<1> QED BY <1>3, <1>4

\* Instructions that leave the configuration or the balances.
LEMMA TokensKept ==
  ASSUME RealmTypes, PlainNow, UNCHANGED <<tokens, holding, wallet>>
  PROVE  PlainNow' /\ SupplyKept
<1>1. PlainNow'
  BY DEF PlainNow
<1>2. SupplyKept
  BY DEF SupplyKept, RealmTypes, BalanceTypes
<1> QED BY <1>1, <1>2

\* One balance of a mint goes up by no less than the other goes down.
LEMMA MovedKept ==
  ASSUME RealmTypes, PlainNow, tokens' = tokens, NEW m \in GoverningMints,
         NEW h \in Nat, NEW w \in Nat,
         holding' = [holding EXCEPT ![m] = h], wallet' = [wallet EXCEPT ![m] = w],
         h + w >= holding[m] + wallet[m]
  PROVE  PlainNow' /\ SupplyKept
<1>1. PlainNow'
  BY DEF PlainNow
<1>2. /\ holding \in [GoverningMints -> Nat] /\ wallet \in [GoverningMints -> Nat]
  BY DEF RealmTypes, BalanceTypes
<1>3. SupplyKept
  BY <1>2 DEF SupplyKept
<1> QED BY <1>1, <1>3

LEMMA RealmPlain ==
  ASSUME RealmTypes, PlainTokens, PlainNow, RealmStep
  PROVE  PlainNow' /\ SupplyKept
<1> DEFINE Kept == PlainNow' /\ SupplyKept
<1>0. UNCHANGED <<tokens, holding, wallet>> => Kept
  BY TokensKept
<1> HIDE DEF Kept
<1>1. ASSUME NEW k \in Records, WithdrawGoverningTokens(k) PROVE Kept
  <2> DEFINE h == holding[k[1]] - tor[k].deposit
             w == wallet[k[1]] + tor[k].deposit
  <2>1. /\ holding[k[1]] \in Nat /\ wallet[k[1]] \in Nat /\ tor[k].deposit \in Nat
        /\ k[1] \in GoverningMints
    BY BalancesOf, RealmNumbers
  <2>2. /\ holding' = [holding EXCEPT ![k[1]] = h] /\ wallet' = [wallet EXCEPT ![k[1]] = w]
        /\ holding[k[1]] >= tor[k].deposit /\ tokens' = tokens
    BY <1>1 DEF WithdrawGoverningTokens
  <2>3. h \in Nat /\ w \in Nat /\ h + w >= holding[k[1]] + wallet[k[1]]
    BY <2>1, <2>2
  <2> HIDE DEF h, w
  <2> QED BY <2>1, <2>2, <2>3, MovedKept DEF Kept
<1>2. ASSUME NEW k \in Records, NEW amount \in Amounts, NEW minted \in BOOLEAN,
             DepositGoverningTokens(k, amount, minted)
      PROVE  Kept
  <2> DEFINE h == holding[k[1]] + amount
             w == IF minted THEN wallet[k[1]] ELSE wallet[k[1]] - amount
  <2>1. /\ holding[k[1]] \in Nat /\ wallet[k[1]] \in Nat /\ amount \in Nat
        /\ k[1] \in GoverningMints
    BY BalancesOf, RealmAssumption
  <2>2. /\ holding' = [holding EXCEPT ![k[1]] = h] /\ wallet' = [wallet EXCEPT ![k[1]] = w]
        /\ ~minted => wallet[k[1]] >= amount
        /\ tokens' = tokens
    BY <1>2 DEF DepositGoverningTokens, RealmTypes, BalanceTypes
  <2>3. h \in Nat /\ w \in Nat /\ h + w >= holding[k[1]] + wallet[k[1]]
    BY <2>1, <2>2
  <2> HIDE DEF h, w
  <2> QED BY <2>1, <2>2, <2>3, MovedKept DEF Kept
<1>3. ASSUME NEW k \in Records, NEW s, NEW amount, RevokeGoverningTokens(k, s, amount)
      PROVE  Kept
  BY <1>3, RecordKeys DEF RevokeGoverningTokens, CanRevoke, PlainNow
<1>4. ASSUME NEW m \in GoverningMints, NEW amount \in Amounts, TransferToHolding(m, amount)
      PROVE  Kept
  <2> DEFINE h == holding[m] + amount
             w == wallet[m] - amount
  <2>1. holding[m] \in Nat /\ wallet[m] \in Nat /\ amount \in Nat
    BY RealmAssumption DEF RealmTypes, BalanceTypes
  <2>2. /\ holding' = [holding EXCEPT ![m] = h] /\ wallet' = [wallet EXCEPT ![m] = w]
        /\ wallet[m] >= amount /\ tokens' = tokens
    BY <1>4 DEF TransferToHolding
  <2>3. h \in Nat /\ w \in Nat /\ h + w >= holding[m] + wallet[m]
    BY <2>1, <2>2
  <2> HIDE DEF h, w
  <2> QED BY <2>2, <2>3, MovedKept DEF Kept
<1>5. ASSUME NEW s, NEW args \in RealmConfigs, SetRealmConfig(s, args)
      PROVE  Kept
  <2>1. args \in SetRealmArgs
    BY DEF SetRealmArgs
  <2> QED BY <1>5, <2>1, SetRealmConfigPlain DEF Kept
<1>6. ASSUME NEW s, NEW m \in GoverningMints, NEW a,
             AddLockAuthority(s, m, a) \/ RemoveLockAuthority(s, m, a)
      PROVE  Kept
  <2>1. /\ \A j \in GoverningMints : /\ tokens'[j].voter_weight_addin = tokens[j].voter_weight_addin
                                   /\ tokens'[j].token_type = tokens[j].token_type
        /\ holding' = holding /\ wallet' = wallet
    BY <1>6 DEF AddLockAuthority, RemoveLockAuthority, RealmTypes, ConfigTypes, TokenConfig
  <2>2. PlainNow'
    BY <2>1 DEF PlainNow
  <2>3. SupplyKept
    BY <2>1 DEF SupplyKept, RealmTypes, BalanceTypes
  <2> QED BY <2>2, <2>3 DEF Kept
<1>7. ASSUME NEW k \in Records PROVE CreateTokenOwnerRecord(k) => Kept
  BY <1>0 DEF CreateTokenOwnerRecord
<1>8. ASSUME NEW k \in Records, NEW s, NEW d PROVE SetGovernanceDelegate(k, s, d) => Kept
  BY <1>0 DEF SetGovernanceDelegate
<1>9. ASSUME NEW k \in Records, NEW lock PROVE SetTokenOwnerRecordLock(k, lock) => Kept
  BY <1>0 DEF SetTokenOwnerRecordLock
<1>10. ASSUME NEW k \in Records, NEW a, NEW s, NEW ids
       PROVE  RelinquishTokenOwnerRecordLocks(k, a, s, ids) => Kept
  BY <1>0 DEF RelinquishTokenOwnerRecordLocks
<1>11. ASSUME NEW s, NEW action, NEW new PROVE SetRealmAuthority(s, action, new) => Kept
  BY <1>0 DEF SetRealmAuthority
<1>12. Tick => Kept
  BY <1>0 DEF Tick
<1>13. TRUE \in BOOLEAN /\ FALSE \in BOOLEAN
  OBVIOUS
<1>14. Kept
  BY <1>1, <1>2, <1>3, <1>4, <1>5, <1>6, <1>7, <1>8, <1>9, <1>10, <1>11, <1>12, <1>13, Zenon
     DEF RealmStep
<1> QED BY <1>14 DEF Kept

LEMMA ExecuteTransactionPlain ==
  ASSUME TypeInv, PlainTokens, PlainNow, NEW p \in Proposals, NEW i, NEW n,
         ExecuteTransaction(p, i, n)
  PROVE  PlainNow' /\ SupplyKept
<1> DEFINE x == txs[p][<<i, n>>].instruction
<1>1. /\ Exists(p) /\ <<i, n>> \in Slots(p) /\ txs[p][<<i, n>>].exists /\ Perform(x)
  BY Zenon DEF ExecuteTransaction
<1>2. x \in Instructions
  <2>1. txs[p] \in [Slots(p) -> {NoTransaction} \cup TransactionRecord]
    BY <1>1 DEF TypeInv, TransactionTypes
  <2>2. txs[p][<<i, n>>] \in TransactionRecord
    BY <1>1, <2>1 DEF NoTransaction
  <2> QED BY <2>2 DEF TransactionRecord
<1> HIDE DEF x
<1>3. RealmTypes
  BY DEF TypeInv
<1>4. CASE x.kind = "SetRealmConfig"
  <2>1. x.args \in SetRealmArgs
    BY <1>2, <1>4 DEF SetRealmArgs
  <2>2. SetRealmConfig(GovernanceAccount, x.args)
    BY <1>1, <1>4 DEF Perform
  <2> QED BY <1>3, <2>1, <2>2, SetRealmConfigPlain
<1>5. CASE x.kind # "SetRealmConfig"
  <2>1. UNCHANGED <<tokens, holding, wallet>>
    BY <1>1, <1>5 DEF Perform, SetGovernanceConfig, AddRequiredSignatory, RemoveRequiredSignatory,
                      realmVars
  <2> QED BY <1>3, <2>1, TokensKept
<1> QED BY <1>4, <1>5

\* While a vote is open the votes are held by the deposits they had the weight of.
VotesHeld ==
  \A p \in Proposals, k \in Records : votes[p][k].exists =>
    /\ proposals[p].state \notin {"Draft", "SigningOff"}
    /\ proposals[p].state = "Voting" =>
         ~votes[p][k].is_relinquished /\ votes[p][k].weight <= tor[k].deposit

VotesFunded ==
  \A p \in Proposals, m \in GoverningMints :
    Tally(votes[p], m, Whole) <= holding[m] + wallet[m]

VotesOnce ==
  TypeInv /\ CountersAgree /\ Backed /\ PlainNow /\ VotesHeld /\ VotesFunded

\* What every step does to deposits and supplies.
TokenMoves == TypeInv' /\ PlainNow' /\ SupplyKept /\ DepositSteps

LEMMA WholeWeights ==
  ASSUME NEW row \in [Records -> {NoVote} \cup VoteRecord]
  PROVE  /\ PartFits(row, Whole)
         /\ \A k \in Records :
              /\ row[k].exists => row[k].weight \in Nat
              /\ VotePart(row[k], Whole) = IF row[k].exists THEN row[k].weight ELSE 0
<1>1. \A v, w : PartOf(Whole, v, w) = w
  BY DEF PartOf, Whole, Against, Veto
<1>2. \A k \in Records : VotePart(row[k], Whole) = IF row[k].exists THEN row[k].weight ELSE 0
  BY <1>1 DEF VotePart
<1>3. \A k \in Records : row[k].exists => row[k].weight \in Nat
  <2> SUFFICES ASSUME NEW k \in Records, row[k].exists PROVE row[k].weight \in Nat
    OBVIOUS
  <2>1. row[k] \in VoteRecord
    BY DEF NoVote
  <2> QED BY <2>1 DEF VoteRecord
<1> QED BY <1>2, <1>3 DEF PartFits

\* Votes within the deposits fit into what the realm holds.
LEMMA HeldFunded ==
  ASSUME TypeInv, Backed, NEW row \in [Records -> {NoVote} \cup VoteRecord],
         \A k \in Records : row[k].exists => row[k].weight <= tor[k].deposit,
         NEW m \in GoverningMints
  PROVE  /\ Tally(row, m, Whole) \in Nat
         /\ Tally(row, m, Whole) <= holding[m]
         /\ Tally(row, m, Whole) <= holding[m] + wallet[m]
<1> DEFINE f == Ballots(row, m, Whole)
           g == [o \in Owners |-> tor[m, o].deposit]
<1>1. RealmTypes
  BY DEF TypeInv
<1>2. /\ g \in [1..NOwners -> Nat] /\ Deposited(m) \in Nat
      /\ Deposited(m) = Total(g, NOwners)
  BY <1>1, DepositedNat, Zenon DEF RealmTypes, Deposited
<1>3. f \in [1..NOwners -> Nat] /\ Tally(row, m, Whole) \in Nat
  BY WholeWeights, TallyNat
<1>4. ASSUME NEW o \in Owners PROVE f[o] <= g[o]
  <2> DEFINE k == <<m, o>>
  <2>1. k \in Records /\ tor[k].deposit \in Nat
    BY <1>1, RecordKeys, DepositsOf
  <2>2. f[o] = VotePart(row[k], Whole) /\ g[o] = tor[k].deposit
    BY Zenon DEF Ballots
  <2>3. VotePart(row[k], Whole) = IF row[k].exists THEN row[k].weight ELSE 0
    BY <2>1, WholeWeights
  <2>4. VotePart(row[k], Whole) <= tor[k].deposit
    BY <2>1, <2>3
  <2> QED BY <2>2, <2>4
<1> HIDE DEF f, g
<1>5. NOwners \in Nat /\ \A i \in 1..NOwners : f[i] <= g[i]
  BY <1>4, RealmNumbers
<1>6. Total(f, NOwners) <= Total(g, NOwners)
  BY <1>2, <1>3, <1>5, TotalMonotone
<1>7. Tally(row, m, Whole) <= Deposited(m)
  BY <1>2, <1>6 DEF Tally, f
<1>8. Deposited(m) <= holding[m] /\ holding[m] \in Nat /\ wallet[m] \in Nat
  BY <1>1 DEF Backed, RealmTypes, BalanceTypes
<1> QED BY <1>2, <1>3, <1>7, <1>8

\* The deposit that a standing vote of an open proposal had does not shrink.
LEMMA DepositsHold ==
  ASSUME VotesOnce, TokenMoves, NEW p \in Proposals, NEW k \in Records,
         votes[p][k].exists, proposals[p].state = "Voting"
  PROVE  votes[p][k].weight <= tor'[k].deposit
<1>1. LiveVote(p, k) /\ votes[p][k].weight <= tor[k].deposit
  BY DEF VotesOnce, VotesHeld, LiveVote
<1>2. ~CanWithdrawTokens(k)
  BY <1>1, CountersFree DEF VotesOnce, Free
<1>3. tokens[k[1]].token_type # "Membership"
  BY RecordKeys DEF VotesOnce, PlainNow
<1>4. tor'[k].deposit >= tor[k].deposit
  BY <1>2, <1>3 DEF TokenMoves, DepositSteps
<1>5. tor[k].deposit \in Nat /\ tor'[k].deposit \in Nat
  <2>1. tor' \in [Records -> OwnerRecord]
    BY DEF TokenMoves, TypeInv, RealmTypes, RecordTypes
  <2>2. tor'[k].deposit \in 0..MaxU64
    BY <2>1 DEF OwnerRecord
  <2> QED BY <2>2, RealmNumbers, DepositsOf DEF VotesOnce, TypeInv
<1>6. votes[p][k].weight \in Nat
  <2>1. votes[p][k] \in VoteRecord
    BY DEF VotesOnce, TypeInv, VoteRecordTypes, NoVote
  <2> QED BY <2>1 DEF VoteRecord
<1> QED BY <1>1, <1>4, <1>5, <1>6

\* Steps that leave the votes alone keep them funded.
LEMMA FundedKept ==
  ASSUME VotesOnce, TokenMoves, NEW p \in Proposals, NEW m \in GoverningMints,
         Tally(votes'[p], m, Whole) = Tally(votes[p], m, Whole)
  PROVE  Tally(votes'[p], m, Whole) <= holding'[m] + wallet'[m]
<1>1. votes[p] \in [Records -> {NoVote} \cup VoteRecord]
  BY DEF VotesOnce, TypeInv, VoteRecordTypes
<1>2. Tally(votes[p], m, Whole) \in Nat
  BY <1>1, WholeWeights, TallyNat
<1>3. Tally(votes[p], m, Whole) <= holding[m] + wallet[m]
  BY DEF VotesOnce, VotesFunded
<1>4. holding[m] \in Nat /\ wallet[m] \in Nat /\ holding'[m] \in Nat /\ wallet'[m] \in Nat
  BY DEF VotesOnce, TokenMoves, TypeInv, RealmTypes, BalanceTypes
<1>5. holding'[m] + wallet'[m] >= holding[m] + wallet[m]
  BY DEF TokenMoves, SupplyKept
<1> QED BY <1>2, <1>3, <1>4, <1>5

\* A step that leaves all votes, and opens no proposal that has some.
LEMMA QuietVotes ==
  ASSUME VotesOnce, TokenMoves, votes' = votes,
         \A p \in Proposals :
           \/ proposals'[p].state = proposals[p].state
           \/ proposals'[p].state \notin {"Draft", "SigningOff", "Voting"}
           \/ \A k \in Records : ~votes[p][k].exists
  PROVE  VotesHeld' /\ VotesFunded'
<1>1. VotesFunded'
  <2> SUFFICES ASSUME NEW p \in Proposals, NEW m \in GoverningMints
               PROVE  Tally(votes'[p], m, Whole) <= holding'[m] + wallet'[m]
    BY DEF VotesFunded
  <2> QED BY FundedKept
<1>2. VotesHeld'
  <2> SUFFICES ASSUME NEW p \in Proposals, NEW k \in Records, votes[p][k].exists
               PROVE  /\ proposals'[p].state \notin {"Draft", "SigningOff"}
                      /\ proposals'[p].state = "Voting" =>
                           /\ ~votes[p][k].is_relinquished
                           /\ votes[p][k].weight <= tor'[k].deposit
    BY DEF VotesHeld
  <2>1. /\ proposals[p].state \notin {"Draft", "SigningOff"}
        /\ proposals[p].state = "Voting" => ~votes[p][k].is_relinquished
    BY DEF VotesOnce, VotesHeld
  <2>2. CASE proposals'[p].state = proposals[p].state
    BY <2>1, <2>2, DepositsHold
  <2>3. CASE proposals'[p].state \notin {"Draft", "SigningOff", "Voting"}
    BY <2>3
  <2> QED BY <2>2, <2>3
<1> QED BY <1>1, <1>2

\* The same for one proposal.
LEMMA QuietProposal ==
  ASSUME VotesOnce, TokenMoves, votes' = votes, NEW p \in Proposals, NEW q,
         proposals' = [proposals EXCEPT ![p] = q],
         \/ q.state = proposals[p].state
         \/ q.state \notin {"Draft", "SigningOff", "Voting"}
         \/ \A k \in Records : ~votes[p][k].exists
  PROVE  VotesHeld' /\ VotesFunded'
<1>1. \A r \in Proposals : proposals'[r] = IF r = p THEN q ELSE proposals[r]
  BY DEF VotesOnce, TypeInv, ProposalTypes
<1> QED BY <1>1, QuietVotes

\* A vote is cast or taken back: the votes of the proposal stay within the deposits.
LEMMA OneVoteChanges ==
  ASSUME VotesOnce, TokenMoves, NEW p \in Proposals, NEW k \in Records, NEW v, NEW q,
         proposals[p].state = "Voting",
         votes' = [votes EXCEPT ![p][k] = v], proposals' = [proposals EXCEPT ![p] = q],
         v.exists => ~v.is_relinquished /\ v.weight <= tor[k].deposit,
         DepositsKept, q.state \notin {"Draft", "SigningOff"}
  PROVE  VotesHeld' /\ VotesFunded'
<1> DEFINE row == [votes[p] EXCEPT ![k] = v]
<1>1. /\ \A r \in Proposals : proposals'[r] = IF r = p THEN q ELSE proposals[r]
      /\ votes[p] \in [Records -> {NoVote} \cup VoteRecord]
  BY DEF VotesOnce, TypeInv, ProposalTypes, VoteRecordTypes
<1>2. \A r \in Proposals : votes'[r] = IF r = p THEN row ELSE votes[r]
  BY DEF VotesOnce, TypeInv, VoteRecordTypes
<1>3. row \in [Records -> {NoVote} \cup VoteRecord]
  <2>1. votes'[p] \in [Records -> {NoVote} \cup VoteRecord]
    BY DEF TokenMoves, TypeInv, VoteRecordTypes
  <2> QED BY <1>2, <2>1
<1>4. \A j \in Records : row[j] = IF j = k THEN v ELSE votes[p][j]
  BY <1>1
<1> HIDE DEF row
<1>5. \A j \in Records :
        row[j].exists => ~row[j].is_relinquished /\ row[j].weight <= tor[j].deposit
  BY <1>4 DEF VotesOnce, VotesHeld
<1>6. \A j \in Records : tor'[j].deposit = tor[j].deposit
  BY DEF DepositsKept
<1>7. VotesHeld'
  <2> SUFFICES ASSUME NEW r \in Proposals, NEW j \in Records, votes'[r][j].exists
               PROVE  /\ proposals'[r].state \notin {"Draft", "SigningOff"}
                      /\ proposals'[r].state = "Voting" =>
                           /\ ~votes'[r][j].is_relinquished
                           /\ votes'[r][j].weight <= tor'[j].deposit
    BY DEF VotesHeld
  <2>1. CASE r = p
    BY <1>1, <1>2, <1>5, <1>6, <2>1
  <2>2. CASE r # p
    BY <1>1, <1>2, <1>6, <2>2 DEF VotesOnce, VotesHeld
  <2> QED BY <2>1, <2>2
<1>8. VotesFunded'
  <2> SUFFICES ASSUME NEW r \in Proposals, NEW m \in GoverningMints
               PROVE  Tally(votes'[r], m, Whole) <= holding'[m] + wallet'[m]
    BY DEF VotesFunded
  <2>1. CASE r = p
    <3>1. Tally(row, m, Whole) <= holding[m] + wallet[m]
      BY <1>3, <1>5, HeldFunded DEF VotesOnce
    <3> QED BY <1>2, <2>1, <3>1 DEF DepositsKept
  <2>2. CASE r # p
    <3>1. votes'[r] = votes[r]
      BY <1>2, <2>2
    <3> QED BY <3>1, FundedKept
  <2> QED BY <2>1, <2>2
<1> QED BY <1>7, <1>8

LEMMA CastVoteOnce ==
  ASSUME VotesOnce, TokenMoves, NEW p \in Proposals, NEW k \in Records, NEW s,
         NEW vote \in Votes, CastVote(p, k, s, vote)
  PROVE  VotesHeld' /\ VotesFunded'
<1>0. TypeInv
  BY DEF VotesOnce
<1>1. /\ Exists(p) /\ ValidVote(proposals[p], vote) /\ proposals[p].state = "Voting"
  BY <1>0, CastVoteOutcome
<1>2. PICK weight \in VoterWeights(k) :
        /\ weight \in Nat
        /\ WithVote(p, vote, weight) \in ProposalRecord
        /\ votes' = [votes EXCEPT ![p][k] =
             [exists |-> TRUE, vote |-> vote, weight |-> weight, is_relinquished |-> FALSE]]
        /\ \/ CastOnly(p, k, vote, weight)
           \/ \E max \in Nat, state \in {"Vetoed", "Succeeded", "Defeated"} :
                CastAndTip(p, k, vote, weight, max, state)
  BY <1>0, CastVoteOutcome
<1>3. weight = tor[k].deposit
  BY <1>2, RecordKeys DEF VotesOnce, PlainNow, VoterWeights
<1>4. DepositsKept
  BY <1>0, CastVoteKept
<1> DEFINE q == WithVote(p, vote, weight)
           v == [exists |-> TRUE, vote |-> vote, weight |-> weight, is_relinquished |-> FALSE]
<1>5. v.exists => ~v.is_relinquished /\ v.weight <= tor[k].deposit
  BY <1>0, <1>3, DepositsOf DEF TypeInv
<1>6. q.state = "Voting"
  <2>1. proposals[p] \in ProposalRecord
    BY <1>0, <1>1, ProposalOf
  <2>2. vote.kind = "approve" => DOMAIN vote.choices = DOMAIN proposals[p].options
    BY <1>1 DEF ValidVote
  <2>3. 1 \in {1, -1}
    OBVIOUS
  <2> QED BY <1>1, <1>2, <2>1, <2>2, <2>3, TalliedItems DEF WithVote
<1>7. votes' = [votes EXCEPT ![p][k] = v]
  BY <1>2
<1> HIDE DEF v
<1>8. CASE CastOnly(p, k, vote, weight)
  <2>1. proposals' = [proposals EXCEPT ![p] = q] /\ q.state \notin {"Draft", "SigningOff"}
    BY <1>6, <1>8 DEF CastOnly
  <2> HIDE DEF q
  <2> QED BY <1>1, <1>4, <1>5, <1>7, <2>1, OneVoteChanges
<1>9. ASSUME NEW max \in Nat, NEW state \in {"Vetoed", "Succeeded", "Defeated"},
             CastAndTip(p, k, vote, weight, max, state)
      PROVE  VotesHeld' /\ VotesFunded'
  <2> DEFINE kind == VoteKind(vote)
             threshold == VoteThreshold(gov.config, k[1] = Council, kind)
             tipping == VoteTipping(gov.config, k[1] = Council)
             r == TippedRecord(q, state, now, max, threshold, tipping)
  <2>1. proposals' = [proposals EXCEPT ![p] = r]
    BY <1>9 DEF CastAndTip
  <2>2. threshold \in Thresholds /\ tipping \in Tippings /\ now \in Nat
    <3>1. now \in Nat
      BY <1>0, RealmNumbers DEF TypeInv, RealmTypes
    <3>2. (k[1] = Council) \in BOOLEAN /\ GovernanceExists
      BY <1>0, <1>1, ProposalOf
    <3> QED BY <1>0, <3>1, <3>2, ThresholdType
  <2>3. q \in ProposalRecord
    BY <1>2
  <2> HIDE DEF threshold, tipping, q, kind
  <2>4. r.state = state
    BY <2>2, <2>3, TippedItems
  <2> HIDE DEF r
  <2>5. r.state \notin {"Draft", "SigningOff"}
    BY <2>4
  <2> QED BY <1>1, <1>4, <1>5, <1>7, <2>1, <2>5, OneVoteChanges
<1> QED BY <1>2, <1>8, <1>9

LEMMA WithdrawVoteOnce ==
  ASSUME VotesOnce, TokenMoves, NEW p \in Proposals, NEW k \in Records, NEW s,
         WithdrawVote(p, k, s)
  PROVE  VotesHeld' /\ VotesFunded'
<1>0. TypeInv
  BY DEF VotesOnce
<1> DEFINE v == votes[p][k]
           q == Tallied(proposals[p], v.vote, v.weight, -1)
<1>1. /\ Exists(p) /\ v \in VoteRecord /\ VoteFits(p, k) /\ proposals[p].state = "Voting"
      /\ proposals' = [proposals EXCEPT ![p] = q]
      /\ votes' = [votes EXCEPT ![p][k] = NoVote]
  BY <1>0, WithdrawVoteOutcome, Zenon
<1>2. /\ proposals[p] \in ProposalRecord /\ v.vote \in Votes /\ v.weight \in Nat
      /\ v.vote.kind = "approve" => DOMAIN v.vote.choices = DOMAIN proposals[p].options
  BY <1>0, <1>1, ProposalOf DEF VoteRecord, VoteFits
<1> HIDE DEF v
<1>3. q.state = "Voting"
  BY <1>1, <1>2, TalliedItems
<1>4. DepositsKept
  BY <1>0, WithdrawVoteKept
<1> HIDE DEF q
<1>5. ~NoVote.exists /\ q.state \notin {"Draft", "SigningOff"}
  BY <1>3 DEF NoVote
<1> QED BY <1>1, <1>4, <1>5, OneVoteChanges, Zenon

LEMMA ReleaseVoteOnce ==
  ASSUME VotesOnce, TokenMoves, NEW p \in Proposals, NEW k \in Records, ReleaseVote(p, k)
  PROVE  VotesHeld' /\ VotesFunded'
<1>0. TypeInv
  BY DEF VotesOnce
<1> DEFINE v == [votes[p][k] EXCEPT !.is_relinquished = TRUE]
<1>1. /\ votes[p][k] \in VoteRecord /\ proposals[p].state # "Voting"
      /\ votes' = [votes EXCEPT ![p][k].is_relinquished = TRUE]
      /\ proposals' = proposals
  BY <1>0, ReleaseVoteOutcome
<1>2. votes \in [Proposals -> [Records -> {NoVote} \cup VoteRecord]]
  BY <1>0 DEF TypeInv, VoteRecordTypes
<1>3. votes' = [votes EXCEPT ![p] = [votes[p] EXCEPT ![k] = v]]
  BY <1>1, <1>2
<1>4. v.exists = votes[p][k].exists /\ v.weight = votes[p][k].weight
  BY <1>1 DEF VoteRecord
<1> HIDE DEF v
<1>5. \A r \in Proposals, j \in Records :
        /\ votes'[r][j].exists = votes[r][j].exists
        /\ votes'[r][j].weight = votes[r][j].weight
        /\ r # p => votes'[r][j] = votes[r][j]
  BY <1>2, <1>3, <1>4
<1>6. VotesHeld'
  <2> SUFFICES ASSUME NEW r \in Proposals, NEW j \in Records, votes[r][j].exists
               PROVE  /\ proposals[r].state \notin {"Draft", "SigningOff"}
                      /\ proposals[r].state = "Voting" =>
                           /\ ~votes'[r][j].is_relinquished
                           /\ votes[r][j].weight <= tor'[j].deposit
    BY <1>1, <1>5 DEF VotesHeld
  <2>1. proposals[r].state = "Voting" => votes'[r][j] = votes[r][j]
    BY <1>1, <1>5
  <2> QED BY <2>1, DepositsHold DEF VotesOnce, VotesHeld
<1>7. VotesFunded'
  <2> SUFFICES ASSUME NEW r \in Proposals, NEW m \in GoverningMints
               PROVE  Tally(votes'[r], m, Whole) <= holding'[m] + wallet'[m]
    BY DEF VotesFunded
  <2>1. \A o \in Owners : VotePart(votes'[r][<<m, o>>], Whole) = VotePart(votes[r][<<m, o>>], Whole)
    <3>1. \A x, w : PartOf(Whole, x, w) = w
      BY DEF PartOf, Whole, Against, Veto
    <3> QED BY <1>5, <3>1, RecordKeys DEF VotePart
  <2>2. Tally(votes'[r], m, Whole) = Tally(votes[r], m, Whole)
    BY <2>1, TallySame
  <2> QED BY <2>2, FundedKept
<1> QED BY <1>6, <1>7

LEMMA ProposalPlain ==
  ASSUME TypeInv, PlainTokens, PlainNow, ProposalStep
  PROVE  PlainNow' /\ SupplyKept
<1> DEFINE Kept == PlainNow' /\ SupplyKept
<1>1. DepositsKept => Kept
  BY TokensKept DEF TypeInv, DepositsKept
<1>2. UNCHANGED realmVars => Kept
  BY <1>1, RealmVarsKept
<1>3. ASSUME NEW p \in Proposals, NEW i, NEW n, ExecuteTransaction(p, i, n) PROVE Kept
  BY <1>3, ExecuteTransactionPlain
<1> HIDE DEF Kept
<1>4. ASSUME \E k \in Records, config \in GovernanceConfigs :
               \/ \E s \in Voters : CreateGovernance(s, k, config)
               \/ CreateGovernance(RealmAuthority, k, config)
      PROVE  Kept
  BY <1>1, <1>4, CreateGovernanceKept, Zenon
<1>5. ASSUME NEW p \in Proposals,
             \/ FinalizeVote(p)
             \/ RefundProposalDeposit(p)
             \/ \E k \in Records : ReleaseVote(p, k)
             \/ \E i \in 1..MaxOptions, n \in 0..MaxTransactions-1 : ExecuteTransaction(p, i, n)
      PROVE  Kept
  <2>1. RefundProposalDeposit(p) => UNCHANGED realmVars
    BY DEF RefundProposalDeposit
  <2> QED BY <1>1, <1>2, <1>3, <1>5, <2>1, FinalizeVoteKept, ReleaseVoteKept, Zenon
<1>6. ASSUME NEW p \in Proposals, NEW s \in Signers,
             \/ SignOffProposal(p, s)
             \/ CancelProposal(p, s)
             \/ CompleteProposal(p, s)
             \/ \E x \in Signatories : AddSignatory(p, s, x)
             \/ \E k \in Records :
                  \/ \E args \in ProposalArgs : CreateProposal(p, k, s, args)
                  \/ \E vote \in Votes : CastVote(p, k, s, vote)
                  \/ WithdrawVote(p, k, s)
             \/ \E i \in 1..MaxOptions, n \in 0..MaxTransactions-1 :
                  \/ \E x \in Instructions : InsertTransaction(p, s, i, n, x)
                  \/ RemoveTransaction(p, s, i, n)
      PROVE  Kept
  <2>1. SignOffProposal(p, s) \/ CompleteProposal(p, s) => UNCHANGED realmVars
    BY DEF SignOffProposal, CompleteProposal
  <2>2. \A x \in Signatories : AddSignatory(p, s, x) => UNCHANGED realmVars
    BY DEF AddSignatory
  <2>3. \A i, n, x : InsertTransaction(p, s, i, n, x) => UNCHANGED realmVars
    BY Zenon DEF InsertTransaction
  <2>4. \A i, n : RemoveTransaction(p, s, i, n) => UNCHANGED realmVars
    BY Zenon DEF RemoveTransaction
  <2> QED BY <1>1, <1>2, <1>6, <2>1, <2>2, <2>3, <2>4, CancelProposalKept, CreateProposalKept,
             CastVoteKept, WithdrawVoteKept, Zenon
<1>7. Kept
  BY <1>4, <1>5, <1>6, Zenon DEF ProposalStep
<1> QED BY <1>7 DEF Kept

\* A step of a proposal whose votes stay.
LEMMA StateChangeOnce ==
  ASSUME VotesOnce, TokenMoves, NEW p \in Proposals, NEW q, StateChange(p, q),
         \/ q.state = proposals[p].state
         \/ q.state \notin {"Draft", "SigningOff", "Voting"}
         \/ proposals[p].state \in {"Draft", "SigningOff"}
  PROVE  VotesHeld' /\ VotesFunded'
<1>1. proposals' = [proposals EXCEPT ![p] = q] /\ votes' = votes
  BY DEF StateChange
<1>2. proposals[p].state \in {"Draft", "SigningOff"} => \A k \in Records : ~votes[p][k].exists
  BY DEF VotesOnce, VotesHeld
<1> QED BY <1>1, <1>2, QuietProposal

LEMMA DraftChangeOnce ==
  ASSUME VotesOnce, TokenMoves, NEW p \in Proposals, NEW i, NEW o, DraftChange(p, i, o)
  PROVE  VotesHeld' /\ VotesFunded'
<1>1. PICK q : proposals' = [proposals EXCEPT ![p] = q] /\ q.state = "Draft"
  BY DEF DraftChange
<1>2. proposals[p].state = "Draft" /\ votes' = votes
  BY DEF DraftChange
<1> QED BY <1>1, <1>2, QuietProposal

LEMMA FinalizeVoteOnce ==
  ASSUME VotesOnce, TokenMoves, NEW p \in Proposals, FinalizeVote(p)
  PROVE  VotesHeld' /\ VotesFunded'
<1>0. TypeInv
  BY DEF VotesOnce
<1>1. PICK r, min : proposals' = [proposals EXCEPT ![p] = r] /\ Resolution(r, proposals[p], min)
  BY <1>0, FinalizeVoteResolved
<1>2. r.state \notin {"Draft", "SigningOff", "Voting"}
  BY <1>1 DEF Resolution, FinalVoteState
<1>3. votes' = votes
  BY <1>0, FinalizeVoteOutcome, Zenon
<1> QED BY <1>1, <1>2, <1>3, QuietProposal

LEMMA ExecuteTransactionOnce ==
  ASSUME VotesOnce, TokenMoves, NEW p \in Proposals, NEW i, NEW n,
         ExecuteTransaction(p, i, n)
  PROVE  VotesHeld' /\ VotesFunded'
<1> DEFINE r == AfterExecution(proposals[p], i)
<1>0. TypeInv
  BY DEF VotesOnce
<1>1. /\ Exists(p) /\ <<i, n>> \in Slots(p)
      /\ proposals' = [proposals EXCEPT ![p] = r] /\ votes' = votes
  BY Zenon DEF ExecuteTransaction
<1>2. i \in DOMAIN proposals[p].options
  BY <1>1 DEF Slots
<1>3. r.state = IF WinnersExecuted(r.options) THEN "Completed" ELSE "Executing"
  BY <1>0, <1>1, <1>2, AfterExecutionOf, Zenon
<1> HIDE DEF r
<1>4. r.state \notin {"Draft", "SigningOff", "Voting"}
  BY <1>3
<1> QED BY <1>1, <1>4, QuietProposal

LEMMA CreateProposalOnce ==
  ASSUME VotesOnce, TokenMoves, NEW p \in Proposals, NEW k \in Records, NEW s,
         NEW args \in ProposalArgs, CreateProposal(p, k, s, args)
  PROVE  VotesHeld' /\ VotesFunded'
<1>0. TypeInv
  BY DEF VotesOnce
<1>1. proposals' = [proposals EXCEPT ![p] = Drafted(k, args)]
  BY <1>0, CreateProposalOutcome
<1>2. ~Exists(p) /\ votes' = votes
  BY DEF CreateProposal
<1>3. \A j \in Records : ~votes[p][j].exists
  BY <1>0, <1>2 DEF TypeInv, VoteRecordTypes, NoVote
<1> QED BY <1>1, <1>2, <1>3, QuietProposal

LEMMA NextOnce ==
  ASSUME VotesOnce, TokenMoves, [Next]_vars
  PROVE  VotesHeld' /\ VotesFunded'
<1> DEFINE Kept == VotesHeld' /\ VotesFunded'
<1>0. TypeInv
  BY DEF VotesOnce
<1>1. UNCHANGED <<proposals, votes>> => Kept
  BY QuietVotes
<1>2. ASSUME NEW p \in Proposals PROVE FinalizeVote(p) => Kept
  BY FinalizeVoteOnce
<1>3. ASSUME NEW p \in Proposals PROVE RefundProposalDeposit(p) => Kept
  BY <1>0, RefundProposalDepositState, StateChangeOnce
<1>4. ASSUME NEW p \in Proposals, NEW k \in Records PROVE ReleaseVote(p, k) => Kept
  BY ReleaseVoteOnce
<1>5. ASSUME NEW p \in Proposals, NEW i, NEW n PROVE ExecuteTransaction(p, i, n) => Kept
  BY ExecuteTransactionOnce
<1>6. ASSUME NEW p \in Proposals, NEW s PROVE SignOffProposal(p, s) => Kept
  BY <1>0, SignOffProposalState, StateChangeOnce
<1>7. ASSUME NEW p \in Proposals, NEW s PROVE CancelProposal(p, s) => Kept
  BY <1>0, CancelProposalState, StateChangeOnce
<1>8. ASSUME NEW p \in Proposals, NEW s PROVE CompleteProposal(p, s) => Kept
  BY <1>0, CompleteProposalState, StateChangeOnce
<1>9. ASSUME NEW p \in Proposals, NEW s, NEW x PROVE AddSignatory(p, s, x) => Kept
  BY <1>0, AddSignatoryState, StateChangeOnce
<1>10. ASSUME NEW p \in Proposals, NEW k \in Records, NEW s, NEW args \in ProposalArgs
       PROVE  CreateProposal(p, k, s, args) => Kept
  BY CreateProposalOnce
<1>11. ASSUME NEW p \in Proposals, NEW k \in Records, NEW s, NEW vote \in Votes
       PROVE  CastVote(p, k, s, vote) => Kept
  BY CastVoteOnce
<1>12. ASSUME NEW p \in Proposals, NEW k \in Records, NEW s PROVE WithdrawVote(p, k, s) => Kept
  BY WithdrawVoteOnce
<1>13. ASSUME NEW p \in Proposals, NEW s, NEW i, NEW n, NEW x,
              InsertTransaction(p, s, i, n, x)
       PROVE  Kept
  <2>1. PICK o : DraftChange(p, i, o)
    BY <1>0, <1>13, InsertTransactionState, Zenon
  <2> QED BY <2>1, DraftChangeOnce
<1>14. ASSUME NEW p \in Proposals, NEW s, NEW i, NEW n, RemoveTransaction(p, s, i, n)
       PROVE  Kept
  <2>1. PICK o : DraftChange(p, i, o)
    BY <1>0, <1>14, RemoveTransactionState, Zenon
  <2> QED BY <2>1, DraftChangeOnce
<1> HIDE DEF Kept
<1>15. ASSUME UNCHANGED govVars \/ UNCHANGED vars PROVE Kept
  BY <1>1, <1>15 DEF vars, govVars
<1>16. ASSUME ProposalStep PROVE Kept
  <2>1. CASE \E k \in Records, config \in GovernanceConfigs :
               \/ \E s \in Voters : CreateGovernance(s, k, config)
               \/ CreateGovernance(RealmAuthority, k, config)
    BY <1>1, <2>1, CreateGovernanceLeaves, Zenon
  <2>2. ASSUME NEW p \in Proposals,
               \/ FinalizeVote(p)
               \/ RefundProposalDeposit(p)
               \/ \E k \in Records : ReleaseVote(p, k)
               \/ \E i \in 1..MaxOptions, n \in 0..MaxTransactions-1 : ExecuteTransaction(p, i, n)
        PROVE  Kept
    BY <1>2, <1>3, <1>4, <1>5, <2>2, Zenon
  <2>3. ASSUME NEW p \in Proposals, NEW s \in Signers,
               \/ SignOffProposal(p, s)
               \/ CancelProposal(p, s)
               \/ CompleteProposal(p, s)
               \/ \E x \in Signatories : AddSignatory(p, s, x)
               \/ \E k \in Records :
                    \/ \E args \in ProposalArgs : CreateProposal(p, k, s, args)
                    \/ \E vote \in Votes : CastVote(p, k, s, vote)
                    \/ WithdrawVote(p, k, s)
               \/ \E i \in 1..MaxOptions, n \in 0..MaxTransactions-1 :
                    \/ \E x \in Instructions : InsertTransaction(p, s, i, n, x)
                    \/ RemoveTransaction(p, s, i, n)
        PROVE  Kept
    BY <1>6, <1>7, <1>8, <1>9, <1>10, <1>11, <1>12, <1>13, <1>14, <2>3, Zenon
  <2> QED BY <1>16, <2>1, <2>2, <2>3, Zenon DEF ProposalStep
<1>17. Kept
  BY <1>15, <1>16 DEF Next
<1> QED BY <1>17 DEF Kept

LEMMA OnceCounted ==
  ASSUME VotesOnce
  PROVE  NoDoubleVoting
<1> SUFFICES ASSUME NEW p \in Proposals, NEW m \in GoverningMints
             PROVE  SumOfVotes(p, m, LAMBDA vote, w : w) <=
                      holding[m] + (IF proposals[p].state = "Voting" THEN 0 ELSE wallet[m])
  BY Zenon DEF NoDoubleVoting
<1> DEFINE sum == Tally(votes[p], m, Whole)
<1>1. SumOfVotes(p, m, LAMBDA vote, w : w) = sum
  BY SumsAreTallies, Zenon
<1>2. /\ votes[p] \in [Records -> {NoVote} \cup VoteRecord]
      /\ TypeInv /\ Backed
  BY DEF VotesOnce, TypeInv, VoteRecordTypes
<1>3. holding[m] \in Nat /\ wallet[m] \in Nat
  BY <1>2 DEF TypeInv, RealmTypes, BalanceTypes
<1>4. sum \in Nat
  BY <1>2, WholeWeights, TallyNat
<1>5. sum <= holding[m] + wallet[m]
  BY DEF VotesOnce, VotesFunded
<1>6. proposals[p].state = "Voting" => sum <= holding[m]
  BY <1>2, HeldFunded DEF VotesOnce, VotesHeld
<1> HIDE DEF sum
<1>7. sum <= holding[m] + (IF proposals[p].state = "Voting" THEN 0 ELSE wallet[m])
  BY <1>3, <1>4, <1>5, <1>6
<1> QED BY <1>1, <1>7, Zenon

LEMMA VotesOnceAlways ==
  ASSUME PlainTokens
  PROVE  Spec => []VotesOnce
<1>1. TypeInv /\ CountersAgree /\ Backed /\ Init => VotesOnce
  <2> SUFFICES ASSUME TypeInv, CountersAgree, Backed, Init PROVE VotesOnce
    OBVIOUS
  <2>1. \A p \in Proposals, k \in Records : ~votes[p][k].exists
    BY DEF Init, NoVote
  <2>2. VotesHeld
    BY <2>1 DEF VotesHeld
  <2>3. VotesFunded
    <3> SUFFICES ASSUME NEW p \in Proposals, NEW m \in GoverningMints
                 PROVE  Tally(votes[p], m, Whole) <= holding[m] + wallet[m]
      BY DEF VotesFunded
    <3>1. votes[p] \in [Records -> {NoVote} \cup VoteRecord]
      BY DEF TypeInv, VoteRecordTypes
    <3> QED BY <2>1, <3>1, HeldFunded
  <2> QED BY <2>2, <2>3, InitPlain DEF VotesOnce
<1>2. TypeInv' /\ CountersAgree' /\ Backed' /\ VotesOnce /\ [Next]_vars => VotesOnce'
  <2> SUFFICES ASSUME TypeInv', CountersAgree', Backed', VotesOnce, [Next]_vars
               PROVE  VotesOnce'
    OBVIOUS
  <2>1. TypeInv /\ RealmTypes /\ PlainNow
    BY DEF VotesOnce, TypeInv
  <2>2. PlainNow' /\ SupplyKept /\ DepositSteps
    <3>1. CASE Next
      BY <2>1, <3>1, RealmPlain, ProposalPlain, RealmDepositSteps, ProposalDepositSteps DEF Next
    <3>2. CASE UNCHANGED vars
      <4>1. UNCHANGED <<tokens, holding, wallet, tor>>
        BY <3>2 DEF vars, realmVars
      <4> QED BY <2>1, <4>1, TokensKept, SameDepositSteps
    <3> QED BY <3>1, <3>2
  <2>3. TokenMoves
    BY <2>2 DEF TokenMoves
  <2>4. VotesHeld' /\ VotesFunded'
    BY <2>3, NextOnce
  <2> QED BY <2>2, <2>4 DEF VotesOnce
<1>3. TypeInv /\ Backed /\ [Next]_vars => Backed'
  BY NextTypes
<1> QED BY <1>1, <1>2, <1>3, InitBacked, TypeInvariant, CountersExact, PTL DEF Spec

\* In a realm without plugins and membership tokens no token votes twice on a
\* proposal: while the vote is open its votes are deposits that cannot leave, and
\* what is minted or moved later only adds to the supply
\* (process_cast_vote.rs:91, token_owner_record.rs:assert_can_withdraw_governing_tokens).
THEOREM VotesCountOnce == Spec => []NoDoubleVoting
<1>1. VotesOnce => NoDoubleVoting
  BY OnceCounted
<1>2. CASE PlainTokens
  BY <1>1, <1>2, VotesOnceAlways, PTL
<1>3. CASE ~PlainTokens
  <2>1. NoDoubleVoting
    BY <1>3 DEF NoDoubleVoting
  <2> QED BY <2>1, PTL
<1> QED BY <1>2, <1>3

-----------------------------------------------------------------------------
(* Refinement of Referendum: its state is the same, and one proposal moves *)

\* The proposal looks the same in Referendum.
Same(p) ==
  /\ PhaseOf(proposals'[p]) = PhaseOf(proposals[p])
  /\ AgendaOf(p)' = AgendaOf(p)
  /\ BallotsOf(p)' = BallotsOf(p)
  /\ CarriedOut(p)' = CarriedOut(p)

LEMMA InitRef == Init => Ref!Init
<1> SUFFICES ASSUME Init PROVE Ref!Init
  OBVIOUS
<1>1. \A p \in Proposals : ~Exists(p) /\ PhaseOf(proposals[p]) = "preparation"
  BY DEF Init, Exists, NoProposal, PhaseOf
<1>2. \A p \in Proposals : /\ AgendaOf(p) = {} /\ CarriedOut(p) = {}
                           /\ BallotsOf(p) = [o \in Owners |-> NoVote]
  BY <1>1 DEF AgendaOf, CarriedOut, BallotsOf
<1>3. Owners = Ref!Voters
  BY DEF Owners, Ref!Voters
<1> QED BY <1>1, <1>2, <1>3 DEF Ref!Init

LEMMA RefStutter ==
  ASSUME \A p \in Proposals : Same(p)
  PROVE  UNCHANGED Ref!refVars
BY DEF Same, Ref!refVars

\* What one proposal does, in terms of this module.
RefPrepare(p, x) ==
  /\ PhaseOf(proposals[p]) = "preparation" /\ PhaseOf(proposals'[p]) = "preparation"
  /\ x \in AgendaOf(p) \cup AgendaOf(p)'
  /\ AgendaOf(p)' \in {AgendaOf(p) \cup {x}, AgendaOf(p) \ {x}}
  /\ BallotsOf(p)' = BallotsOf(p) /\ CarriedOut(p)' = CarriedOut(p)

LEMMA RefPrepareStep ==
  ASSUME NEW p \in Proposals, NEW x, RefPrepare(p, x), \A q \in Proposals \ {p} : Same(q)
  PROVE  Ref!Next
<1>1. Ref!Prepare(p)
  BY DEF RefPrepare, Ref!Prepare
<1>2. Ref!Others(p)
  BY DEF Same, Ref!Others
<1> QED BY <1>1, <1>2, Zenon DEF Ref!Next

-----------------------------------------------------------------------------
(* Adoption *)

\* An option succeeds when its proposal is decided, with more weight than there is
\* against the proposal; only a question that can be denied is adopted.
AdoptionSound(q) ==
  /\ q.state \in {"Succeeded", "Executing"} => q.use_deny
  /\ \A i \in DOMAIN q.options : q.options[i].vote_result = "Succeeded" =>
       q.state \notin Undecided /\ q.options[i].vote_weight > q.deny_vote_weight

AdoptionsSound == \A p \in Proposals : Exists(p) => AdoptionSound(proposals[p])

LEMMA AdoptionUpdate ==
  ASSUME TypeInv, AdoptionsSound, NEW p \in Proposals, NEW q,
         proposals' = [proposals EXCEPT ![p] = q], AdoptionSound(q)
  PROVE  AdoptionsSound'
<1>1. \A r \in Proposals : proposals'[r] = IF r = p THEN q ELSE proposals[r]
  BY DEF TypeInv, ProposalTypes
<1> QED BY <1>1 DEF AdoptionsSound, Exists

\* The results and weights stay.
SameResults(r, q) ==
  /\ r.use_deny = q.use_deny /\ r.deny_vote_weight = q.deny_vote_weight
  /\ DOMAIN r.options = DOMAIN q.options
  /\ \A i \in DOMAIN q.options :
       /\ r.options[i].vote_weight = q.options[i].vote_weight
       /\ r.options[i].vote_result = q.options[i].vote_result

LEMMA AdoptionKept ==
  ASSUME NEW q, NEW r, AdoptionSound(q), SameResults(r, q),
         \/ r.state = q.state
         \/ q.state \in Undecided /\ r.state \in Undecided \cup {"Cancelled"}
         \/ q.state \in {"Succeeded", "Executing"} /\ r.state \in {"Executing", "Completed"}
  PROVE  AdoptionSound(r)
BY DEF AdoptionSound, SameResults, Undecided

LEMMA StateChangeAdoption ==
  ASSUME TypeInv, AdoptionsSound, NEW p \in Proposals, NEW q, StateChange(p, q),
         \/ q.state = proposals[p].state
         \/ proposals[p].state \in Undecided /\ q.state \in Undecided \cup {"Cancelled"}
         \/ proposals[p].state = "Succeeded" /\ q.state = "Completed"
  PROVE  AdoptionsSound'
<1>1. AdoptionSound(proposals[p]) /\ SameResults(q, proposals[p])
  BY DEF AdoptionsSound, StateChange, SameVote, SameResults
<1>2. AdoptionSound(q)
  BY <1>1, AdoptionKept
<1> QED BY <1>2, AdoptionUpdate DEF StateChange

LEMMA DraftChangeAdoption ==
  ASSUME TypeInv, AdoptionsSound, NEW p \in Proposals, NEW i, NEW o, DraftChange(p, i, o)
  PROVE  AdoptionsSound'
<1>1. PICK q : /\ proposals' = [proposals EXCEPT ![p] = q]
               /\ q.options = [proposals[p].options EXCEPT ![i] = o]
               /\ q.state = "Draft" /\ SameVote(q, proposals[p])
  BY DEF DraftChange
<1>2. /\ Exists(p) /\ AdoptionSound(proposals[p]) /\ proposals[p].state = "Draft"
      /\ i \in DOMAIN proposals[p].options
      /\ o.vote_weight = proposals[p].options[i].vote_weight
      /\ o.vote_result = proposals[p].options[i].vote_result
  BY DEF AdoptionsSound, DraftChange
<1>3. SameResults(q, proposals[p])
  BY <1>1, <1>2 DEF SameResults, SameVote
<1>4. AdoptionSound(q)
  BY <1>1, <1>2, <1>3, AdoptionKept
<1> QED BY <1>1, <1>4, AdoptionUpdate

LEMMA WinnersPrevail ==
  ASSUME NEW q, NEW min, NEW i \in Winners(q, min)
  PROVE  q.options[i].vote_weight > q.deny_vote_weight
BY DEF Winners, Best, Passing, OptionPasses

LEMMA FinalizeVoteAdoption ==
  ASSUME TypeInv, AdoptionsSound, NEW p \in Proposals, FinalizeVote(p)
  PROVE  AdoptionsSound'
<1>1. PICK r, min : proposals' = [proposals EXCEPT ![p] = r] /\ Resolution(r, proposals[p], min)
  BY FinalizeVoteResolved
<1>2. r.state \in {"Completed", "Defeated", "Succeeded"} /\ (r.state = "Succeeded" => r.use_deny)
  BY <1>1 DEF Resolution, FinalVoteState
<1>3. AdoptionSound(r)
  BY <1>1, <1>2, WinnersPrevail DEF AdoptionSound, Resolution, Undecided
<1> QED BY <1>1, <1>3, AdoptionUpdate

LEMMA ExecuteTransactionAdoption ==
  ASSUME TypeInv, AdoptionsSound, NEW p \in Proposals, NEW i, NEW n,
         ExecuteTransaction(p, i, n)
  PROVE  AdoptionsSound'
<1> DEFINE q == proposals[p]
           o == ExecutedOption(q.options[i])
           r == AfterExecution(q, i)
<1>1. /\ Exists(p) /\ <<i, n>> \in Slots(p)
      /\ proposals' = [proposals EXCEPT ![p] = r]
      /\ q.state \in {"Succeeded", "Executing"}
  BY Zenon DEF ExecuteTransaction, CanExecuteTransaction
<1>2. i \in DOMAIN q.options
  BY <1>1 DEF Slots
<1>3. /\ r.options = [q.options EXCEPT ![i] = o]
      /\ o.vote_weight = q.options[i].vote_weight /\ o.vote_result = q.options[i].vote_result
      /\ r.use_deny = q.use_deny /\ r.deny_vote_weight = q.deny_vote_weight
  BY <1>1, <1>2, AfterExecutionOf
<1>4. r.state \in {"Completed", "Executing"}
  BY <1>1, <1>2, AfterExecutionOf, Zenon
<1> HIDE DEF r, o
<1>5. SameResults(r, q)
  BY <1>2, <1>3 DEF SameResults
<1>6. AdoptionSound(q)
  BY <1>1 DEF AdoptionsSound
<1>7. AdoptionSound(r)
  BY <1>1, <1>4, <1>5, <1>6, AdoptionKept
<1> QED BY <1>1, <1>7, AdoptionUpdate

LEMMA CreateProposalAdoption ==
  ASSUME TypeInv, AdoptionsSound, NEW p \in Proposals, NEW k \in Records, NEW s,
         NEW args \in ProposalArgs, CreateProposal(p, k, s, args)
  PROVE  AdoptionsSound'
<1>1. proposals' = [proposals EXCEPT ![p] = Drafted(k, args)]
  BY CreateProposalOutcome
<1>2. AdoptionSound(Drafted(k, args))
  BY DEF AdoptionSound, Drafted, NewOption
<1> QED BY <1>1, <1>2, AdoptionUpdate

\* A tally keeps the results, so that a vote that decides nothing leaves none.
LEMMA TalliedAdoption ==
  ASSUME NEW q \in ProposalRecord, NEW vote \in Votes, NEW w \in Nat, NEW sign \in {1, -1},
         vote.kind = "approve" => DOMAIN vote.choices = DOMAIN q.options,
         AdoptionSound(q), q.state = "Voting"
  PROVE  LET t == Tallied(q, vote, w, sign)
         IN  /\ t.state = "Voting"
             /\ \A i \in DOMAIN t.options : t.options[i].vote_result # "Succeeded"
             /\ AdoptionSound(t)
<1> DEFINE t == Tallied(q, vote, w, sign)
           n(i) == q.options[i].vote_weight + sign * OptionPart(vote, w, i)
<1>1. /\ t.state = "Voting" /\ DOMAIN t.options = DOMAIN q.options
      /\ \A i \in DOMAIN q.options : t.options[i] = Weighted(q.options[i], n(i))
  <2>1. t.state = "Voting"
    BY TalliedType
  <2>2. DOMAIN t.options = DOMAIN q.options
    BY DEF Tallied, ProposalRecord
  <2>3. ASSUME NEW i \in DOMAIN q.options
        PROVE  t.options[i] = Weighted(q.options[i], n(i))
    BY <2>3, TalliedType
  <2> QED BY <2>1, <2>2, <2>3
<1>2. \A i \in DOMAIN q.options : q.options[i] \in ProposalOption
  BY OptionListOf DEF ProposalRecord
<1> HIDE DEF t, n
<1>3. \A i \in DOMAIN q.options : t.options[i].vote_result = q.options[i].vote_result
  BY <1>1, <1>2 DEF Weighted, ProposalOption
<1>4. \A i \in DOMAIN q.options : q.options[i].vote_result # "Succeeded"
  BY DEF AdoptionSound, Undecided
<1>5. AdoptionSound(t)
  BY <1>1, <1>3, <1>4 DEF AdoptionSound
<1> QED BY <1>1, <1>3, <1>4, <1>5 DEF t

LEMMA WithdrawVoteAdoption ==
  ASSUME TypeInv, AdoptionsSound, NEW p \in Proposals, NEW k \in Records, NEW s,
         WithdrawVote(p, k, s)
  PROVE  AdoptionsSound'
<1> DEFINE v == votes[p][k]
           q == Tallied(proposals[p], v.vote, v.weight, -1)
<1>1. /\ Exists(p) /\ v \in VoteRecord /\ VoteFits(p, k) /\ proposals[p].state = "Voting"
      /\ proposals' = [proposals EXCEPT ![p] = q]
  BY WithdrawVoteOutcome, Zenon
<1>2. /\ proposals[p] \in ProposalRecord /\ v.vote \in Votes /\ v.weight \in Nat
      /\ v.vote.kind = "approve" => DOMAIN v.vote.choices = DOMAIN proposals[p].options
      /\ AdoptionSound(proposals[p])
  BY <1>1, ProposalOf DEF VoteRecord, VoteFits, AdoptionsSound
<1> HIDE DEF v
<1>3. AdoptionSound(q)
  BY <1>1, <1>2, TalliedAdoption
<1> HIDE DEF q
<1> QED BY <1>1, <1>3, AdoptionUpdate

-----------------------------------------------------------------------------
(* Adoption by a tip *)

LEMMA PercentageBound ==
  ASSUME NEW w \in Nat, NEW c \in 0..100
  PROVE  ChoiceWeight(c, w) <= w
<1> DEFINE n == w * c
<1>1. n \in Nat /\ n <= w * 100
  <2>1. w * (100 - c) >= 0
    OBVIOUS
  <2>2. w * (100 - c) = w * 100 - w * c
    OBVIOUS
  <2> QED BY <2>1, <2>2
<1> HIDE DEF n
<1>2. n \div 100 <= w
  BY <1>1
<1> QED BY <1>2 DEF ChoiceWeight, n

\* A row of votes on a list of options.
VotesOn(row, opts) ==
  /\ row \in [Records -> {NoVote} \cup VoteRecord]
  /\ \A k \in Records : row[k].exists /\ row[k].vote.kind = "approve"
                           => DOMAIN row[k].vote.choices = opts

\* A vote has no more for an option and against the proposal than its weight.
LEMMA PartsWithin ==
  ASSUME NEW row, NEW opts, opts \subseteq Nat \ {0},
         VotesOn(row, opts),
         NEW x \in opts, NEW k \in Records
  PROVE  VotePart(row[k], x) + VotePart(row[k], Against) <= VotePart(row[k], Whole)
<1>1. CASE ~row[k].exists
  BY <1>1 DEF VotePart
<1>2. CASE row[k].exists
  <2> DEFINE vote == row[k].vote
             w == row[k].weight
  <2>1. vote \in Votes /\ w \in Nat /\ (vote.kind = "approve" => x \in DOMAIN vote.choices)
    <3>1. row[k] \in VoteRecord
      BY <1>2 DEF NoVote, VotesOn
    <3> QED BY <1>2, <3>1 DEF VoteRecord, VotesOn
  <2>2. /\ VotePart(row[k], x) = OptionPart(vote, w, x)
        /\ VotePart(row[k], Against) = DenyPart(vote, w)
        /\ VotePart(row[k], Whole) = w
    BY <1>2 DEF VotePart, PartOf, Against, Veto, Whole
  <2> HIDE DEF vote, w
  <2>3. CASE vote.kind = "approve"
    <3>1. OptionPart(vote, w, x) = ChoiceWeight(vote.choices[x], w) /\ DenyPart(vote, w) = 0
      BY <2>3 DEF OptionPart, DenyPart
    <3>2. vote.choices[x] \in 0..100
      BY <2>1, <2>3, GovernanceAssumption
    <3>3. ChoiceWeight(vote.choices[x], w) \in Nat /\ ChoiceWeight(vote.choices[x], w) <= w
      BY <2>1, <3>2, PercentageNat, PercentageBound
    <3> QED BY <2>1, <2>2, <3>1, <3>3
  <2>4. CASE vote.kind # "approve"
    BY <2>1, <2>2, <2>4 DEF OptionPart, DenyPart
  <2> QED BY <2>3, <2>4
<1> QED BY <1>1, <1>2

\* What a row has for an option and against its proposal fits into its weights.
LEMMA TalliesWithin ==
  ASSUME NEW row, NEW opts, opts \subseteq Nat \ {0},
         VotesOn(row, opts),
         NEW x \in opts, NEW m \in GoverningMints
  PROVE  /\ Tally(row, m, x) \in Nat /\ Tally(row, m, Against) \in Nat
         /\ Tally(row, m, Whole) \in Nat
         /\ Tally(row, m, x) + Tally(row, m, Against) <= Tally(row, m, Whole)
<1> DEFINE f == Ballots(row, m, x)
           g == Ballots(row, m, Against)
           w == Ballots(row, m, Whole)
           h == [i \in 1..NOwners |-> f[i] + g[i]]
<1>1. PartFits(row, x) /\ PartFits(row, Against) /\ PartFits(row, Whole)
  BY RowFits DEF VotesOn
<1>2. /\ f \in [1..NOwners -> Nat] /\ g \in [1..NOwners -> Nat] /\ w \in [1..NOwners -> Nat]
      /\ Tally(row, m, x) \in Nat /\ Tally(row, m, Against) \in Nat
      /\ Tally(row, m, Whole) \in Nat
  BY <1>1, TallyNat
<1>3. ASSUME NEW i \in 1..NOwners PROVE f[i] + g[i] <= w[i]
  <2>1. i \in Owners /\ <<m, i>> \in Records
    BY RealmNumbers, RecordKeys
  <2>2. /\ f[i] = VotePart(row[<<m, i>>], x) /\ g[i] = VotePart(row[<<m, i>>], Against)
        /\ w[i] = VotePart(row[<<m, i>>], Whole)
    BY <2>1 DEF Ballots
  <2>3. VotePart(row[<<m, i>>], x) + VotePart(row[<<m, i>>], Against)
          <= VotePart(row[<<m, i>>], Whole)
    BY <2>1, PartsWithin, Zenon
  <2> QED BY <2>2, <2>3
<1> HIDE DEF f, g, w
<1>4. h \in [1..NOwners -> Nat] /\ \A i \in 1..NOwners : h[i] = f[i] + g[i] /\ h[i] <= w[i]
  BY <1>2, <1>3
<1> HIDE DEF h
<1>5. NOwners \in Nat
  BY RealmNumbers
<1>6. Total(h, NOwners) = Total(f, NOwners) + Total(g, NOwners)
  <2>1. \A i \in 1..NOwners : h[i] = f[i] + g[i]
    BY <1>4
  <2>2. h \in [1..NOwners -> Nat]
    BY <1>4
  <2> QED BY <1>2, <1>5, <2>1, <2>2, TotalSum
<1>7. Total(h, NOwners) <= Total(w, NOwners)
  BY <1>2, <1>4, <1>5, TotalMonotone
<1> QED BY <1>2, <1>6, <1>7 DEF Tally, f, g, w

\* A maximum weight that the votes of the supply fit into covers the votes cast.
LEMMA MaxCovers ==
  ASSUME TypeInv, NEW q \in ProposalRecord, NEW m \in GoverningMints,
         NEW max \in MaxVoterWeights(q, m, "electorate"), NEW i \in DOMAIN q.options,
         q.options[i].vote_weight + q.deny_vote_weight <= holding[m] + wallet[m]
  PROVE  q.options[i].vote_weight + q.deny_vote_weight <= max
<1> DEFINE cast == q.options[i].vote_weight + q.deny_vote_weight
           best == BestOptionWeight(q) + q.deny_vote_weight
<1>1. cast \in Int /\ best \in Int /\ cast <= best
  <2>1. q.options[i].vote_weight \in Int /\ q.deny_vote_weight \in Int
    BY OptionListOf DEF ProposalRecord, ProposalOption
  <2>2. q.options[i].vote_weight <= BestOptionWeight(q) /\ BestOptionWeight(q) \in Int
    BY BestOptionWeightOf
  <2> QED BY <2>1, <2>2
<1>2. \A n : CoerceMaxVoterWeight(q, n, "electorate") = Greater(n, best)
  BY DEF CoerceMaxVoterWeight
<1> HIDE DEF cast, best
<1>3. \A n \in Nat : CoerceMaxVoterWeight(q, n, "electorate") >= cast
  BY <1>1, <1>2 DEF Greater
<1>4. CASE tokens[m].max_voter_weight_addin
  <2>1. PICK n \in 0..MaxSupply : max = CoerceMaxVoterWeight(q, n, "electorate")
    BY <1>4 DEF MaxVoterWeights
  <2>2. n \in Nat
    BY RealmNumbers
  <2> QED BY <1>3, <2>1, <2>2 DEF cast
<1>5. CASE ~tokens[m].max_voter_weight_addin
  <2> DEFINE supply == holding[m] + wallet[m]
             n == IF realm.source.kind = "fraction"
                  THEN (supply * realm.source.value) \div SUPPLY_FRACTION_BASE
                  ELSE realm.source.value
  <2>1. max = supply \/ max = CoerceMaxVoterWeight(q, n, "electorate")
    BY <1>5 DEF MaxVoterWeights, MaxVoterWeightFromSupply
  <2>2. n \in Nat
    <3>1. supply \in Nat
      BY DEF TypeInv, RealmTypes, BalanceTypes
    <3>2. realm.source \in SourceArgs /\ realm.source.value \in Nat
      BY DEF TypeInv, RealmTypes, ConfigTypes, RealmRecord, SourceArgs
    <3> HIDE DEF supply
    <3>3. supply * realm.source.value \in Nat
      BY <3>1, <3>2
    <3>4. \A a \in Nat, d \in Nat \ {0} : a \div d \in Nat
      OBVIOUS
    <3>5. (supply * realm.source.value) \div SUPPLY_FRACTION_BASE \in Nat
      BY <3>3, <3>4, RealmNumbers
    <3> QED BY <3>2, <3>5
  <2> HIDE DEF n
  <2> QED BY <1>3, <2>1, <2>2 DEF cast
<1> QED BY <1>4, <1>5

\* The arithmetic of a tip in favour.
LEMMA TipPrevails ==
  ASSUME NEW yes \in Nat, NEW deny \in Nat, NEW max \in Nat, NEW min, NEW tipping,
         yes + deny <= max, TipsYes(yes, deny, max, min, tipping)
  PROVE  yes > deny
BY DEF TipsYes, Minus


\* What a tally has for an option and against fits into the weights of its votes.
LEMMA CountWithin ==
  ASSUME NEW q \in ProposalRecord, NEW row, VotesOn(row, DOMAIN q.options),
         CountedRight(q, row), NEW i \in DOMAIN q.options
  PROVE  /\ q.options[i].vote_weight = Tally(row, q.mint, i)
         /\ q.deny_vote_weight = Tally(row, q.mint, Against)
         /\ q.options[i].vote_weight \in Nat /\ q.deny_vote_weight \in Nat
         /\ Tally(row, q.mint, Whole) \in Nat
         /\ q.options[i].vote_weight + q.deny_vote_weight <= Tally(row, q.mint, Whole)
<1>1. i # Against /\ i # Veto /\ Against # Veto /\ DOMAIN q.options \subseteq Nat \ {0}
  BY OptionListOf DEF ProposalRecord, Against, Veto
<1>2. q.options[i].vote_weight = Tally(row, q.mint, i)
  BY <1>1 DEF CountedRight, Parts, Counted, PartMint
<1>3. q.deny_vote_weight = Tally(row, q.mint, Against)
  BY <1>1 DEF CountedRight, Parts, Counted, PartMint
<1>4. q.mint \in GoverningMints
  BY DEF ProposalRecord
<1> QED BY <1>1, <1>2, <1>3, <1>4, TalliesWithin

LEMMA RowOn ==
  ASSUME TypeInv, NEW p \in Proposals, Exists(p)
  PROVE  VotesOn(votes[p], DOMAIN proposals[p].options)
BY DEF TypeInv, VoteRecordTypes, VoteFits, VotesOn

\* A tip in favour, with the arithmetic above.
LEMMA TipInFavour ==
  ASSUME TypeInv, NEW q \in ProposalRecord, NEW m \in GoverningMints,
         NEW max \in Nat, max \in MaxVoterWeights(q, m, "electorate"),
         NEW threshold, NEW tipping,
         \A i \in DOMAIN q.options :
           /\ q.options[i].vote_weight \in Nat /\ q.deny_vote_weight \in Nat
           /\ q.options[i].vote_weight + q.deny_vote_weight <= holding[m] + wallet[m],
         TippedState(q, max, threshold, tipping, "electorate") = "Succeeded"
  PROVE  /\ q.use_deny /\ DOMAIN q.options = {1}
         /\ q.options[1].vote_weight > q.deny_vote_weight
<1>1. PICK min : /\ Tippable(q)
                 /\ TipsYes(q.options[1].vote_weight, q.deny_vote_weight, max, min, tipping)
  BY DEF TippedState
<1>2. q.use_deny /\ DOMAIN q.options = {1}
  BY <1>1 DEF Tippable
<1>3. q.options[1].vote_weight + q.deny_vote_weight <= max
  BY <1>2, MaxCovers
<1>4. q.options[1].vote_weight \in Nat /\ q.deny_vote_weight \in Nat
  BY <1>2
<1> QED BY <1>1, <1>2, <1>3, <1>4, TipPrevails

\* A vote that decides its proposal in favour found more weight for it than against:
\* a strict tip because no vote is left that could be against.
LEMMA CastVoteAdoption ==
  ASSUME TypeInv, AdoptionsSound, TypeInv', TallyExact', VotesFunded',
         NEW p \in Proposals, NEW k \in Records, NEW s, NEW vote \in Votes,
         CastVote(p, k, s, vote)
  PROVE  AdoptionsSound'
<1>1. /\ Exists(p) /\ ValidVote(proposals[p], vote) /\ proposals[p].state = "Voting"
      /\ ValidMint(k[1]) /\ proposals[p].mint = MintForVote(k[1], VoteKind(vote))
      /\ UNCHANGED <<holding, wallet>>
  BY CastVoteOutcome
<1>2. PICK weight :
        /\ weight \in Nat
        /\ WithVote(p, vote, weight) \in ProposalRecord
        /\ \/ CastOnly(p, k, vote, weight)
           \/ \E max \in Nat, state \in {"Vetoed", "Succeeded", "Defeated"} :
                /\ max \in MaxVoterWeights(WithVote(p, vote, weight), k[1], VoteKind(vote))
                /\ CastAndTip(p, k, vote, weight, max, state)
  BY CastVoteOutcome
<1> DEFINE q == WithVote(p, vote, weight)
<1>3. /\ proposals[p] \in ProposalRecord /\ AdoptionSound(proposals[p])
      /\ vote.kind = "approve" => DOMAIN vote.choices = DOMAIN proposals[p].options
  BY <1>1, ProposalOf DEF ValidVote, AdoptionsSound
<1>4. /\ AdoptionSound(q)
      /\ \A i \in DOMAIN q.options : q.options[i].vote_result # "Succeeded"
  <2>1. 1 \in {1, -1}
    OBVIOUS
  <2> QED BY <1>1, <1>2, <1>3, <2>1, TalliedAdoption, Zenon DEF WithVote
<1>5. q.mint = proposals[p].mint
  BY <1>2, <1>3, TalliedType DEF WithVote
<1>6. CASE CastOnly(p, k, vote, weight)
  BY <1>4, <1>6, AdoptionUpdate DEF CastOnly
<1>7. ASSUME NEW max \in Nat, NEW state \in {"Vetoed", "Succeeded", "Defeated"},
             max \in MaxVoterWeights(WithVote(p, vote, weight), k[1], VoteKind(vote)),
             CastAndTip(p, k, vote, weight, max, state)
      PROVE  AdoptionsSound'
  <2> DEFINE kind == VoteKind(vote)
             threshold == VoteThreshold(gov.config, k[1] = Council, kind)
             tipping == VoteTipping(gov.config, k[1] = Council)
             r == TippedRecord(q, state, now, max, threshold, tipping)
  <2>1. /\ proposals' = [proposals EXCEPT ![p] = r]
        /\ state = TippedState(q, max, threshold, tipping, kind)
    BY <1>7 DEF CastAndTip
  <2>2. threshold \in Thresholds /\ tipping \in Tippings /\ now \in Nat
    <3>1. now \in Nat
      BY RealmNumbers DEF TypeInv, RealmTypes
    <3>2. (k[1] = Council) \in BOOLEAN /\ GovernanceExists
      BY <1>1, ProposalOf
    <3> QED BY <3>1, <3>2, ThresholdType
  <2>3. q \in ProposalRecord
    BY <1>2
  <2> HIDE DEF threshold, tipping, q, kind
  <2>4. /\ r \in ProposalRecord /\ r.state = state /\ r.use_deny = q.use_deny
        /\ r.mint = q.mint /\ r.options = TippedOptions(q, state)
        /\ DOMAIN r.options = DOMAIN q.options
        /\ r.deny_vote_weight = q.deny_vote_weight
    BY <2>2, <2>3, TippedType
  <2>5. SameWeights(r, q)
    BY <2>2, <2>3, TippedWeights
  <2> HIDE DEF r
  <2>6. CASE state # "Succeeded"
    <3>1. \A i \in DOMAIN r.options : r.options[i].vote_result # "Succeeded"
      <4>1. \A i \in DOMAIN q.options : q.options[i] \in ProposalOption
        BY <2>3, OptionListOf DEF ProposalRecord
      <4> QED BY <1>4, <2>4, <2>6, <4>1 DEF TippedOptions, ProposalOption, q
    <3>2. AdoptionSound(r)
      BY <2>4, <2>6, <3>1 DEF AdoptionSound
    <3> QED BY <2>1, <3>2, AdoptionUpdate
  <2>7. CASE state = "Succeeded"
    <3>1. kind = "electorate" /\ k[1] \in GoverningMints /\ q.mint = k[1]
      <4>1. kind = "electorate"
        BY <2>1, <2>7 DEF TippedState, kind, VoteKind
      <4> QED BY <1>1, <1>5, <4>1, RecordKeys DEF kind, MintForVote, q
    <3>2. proposals'[p] = r /\ proposals'[p].state # "None"
      BY <2>1, <2>4, <2>7 DEF TypeInv, ProposalTypes
    <3>3. VotesOn(votes'[p], DOMAIN r.options)
      BY <3>2 DEF TypeInv, VoteRecordTypes, VoteFits, VotesOn
    <3>4. CountedRight(r, votes'[p])
      BY <3>2 DEF TallyExact, Exists
    <3>5. Tally(votes'[p], k[1], Whole) <= holding[k[1]] + wallet[k[1]]
      <4>1. Tally(votes'[p], k[1], Whole) <= holding'[k[1]] + wallet'[k[1]]
        BY <3>1 DEF VotesFunded
      <4> QED BY <1>1, <4>1
    <3>6. holding[k[1]] \in Nat /\ wallet[k[1]] \in Nat
      BY <3>1 DEF TypeInv, RealmTypes, BalanceTypes
    <3>7. ASSUME NEW i \in DOMAIN q.options
          PROVE  /\ q.options[i].vote_weight \in Nat /\ q.deny_vote_weight \in Nat
                 /\ q.options[i].vote_weight + q.deny_vote_weight <= holding[k[1]] + wallet[k[1]]
      <4>1. /\ r.options[i].vote_weight \in Nat /\ r.deny_vote_weight \in Nat
            /\ Tally(votes'[p], r.mint, Whole) \in Nat
            /\ r.options[i].vote_weight + r.deny_vote_weight <= Tally(votes'[p], r.mint, Whole)
        BY <2>4, <3>3, <3>4, CountWithin, Zenon
      <4>2. r.options[i].vote_weight = q.options[i].vote_weight /\ r.mint = k[1]
        BY <2>4, <2>5, <3>1 DEF SameWeights
      <4> QED BY <2>4, <3>5, <3>6, <4>1, <4>2
    <3>8. TippedState(q, max, threshold, tipping, "electorate") = "Succeeded"
      BY <2>1, <2>7, <3>1
    <3>9. max \in MaxVoterWeights(q, k[1], "electorate")
      BY <1>7, <3>1 DEF q, kind
    <3>10. /\ q.use_deny /\ DOMAIN q.options = {1}
           /\ q.options[1].vote_weight > q.deny_vote_weight
      BY <2>3, <3>1, <3>7, <3>8, <3>9, TipInFavour
    <3>11. r.options[1].vote_weight = q.options[1].vote_weight
      BY <2>5, <3>10 DEF SameWeights
    <3>12. AdoptionSound(r)
      BY <2>4, <2>7, <3>10, <3>11 DEF AdoptionSound, Undecided
    <3> QED BY <2>1, <3>12, AdoptionUpdate
  <2> QED BY <2>6, <2>7
<1> QED BY <1>2, <1>6, <1>7

-----------------------------------------------------------------------------
(* What the ballots weigh *)

BallotFrom(v, opts) ==
  IF ~v.exists THEN NoVote
  ELSE [approve |-> [i \in 1..MaxOptions |->
          IF i \in opts THEN OptionPart(v.vote, v.weight, i) ELSE 0],
        deny |-> DenyPart(v.vote, v.weight)]

BallotRow(row, opts, mint) == [o \in Owners |-> BallotFrom(row[<<mint, o>>], opts)]

LEMMA BallotIsNone ==
  ASSUME NEW v, NEW opts
  PROVE  BallotFrom(v, opts) = NoVote <=> ~v.exists
<1>1. ASSUME NEW a, NEW d PROVE [approve |-> a, deny |-> d] # NoVote
  BY DEF NoVote
<1> QED BY <1>1 DEF BallotFrom

LEMMA BallotsAre ==
  ASSUME NEW p \in Proposals, Exists(p)
  PROVE  BallotsOf(p) = BallotRow(votes[p], DOMAIN proposals[p].options, proposals[p].mint)
BY DEF BallotsOf, BallotOf, BallotRow, BallotFrom

LEMMA NextBallotsAre ==
  ASSUME NEW p \in Proposals, proposals'[p].state # "None"
  PROVE  BallotsOf(p)' = BallotRow(votes'[p], DOMAIN proposals'[p].options, proposals'[p].mint)
BY DEF BallotsOf, BallotOf, BallotRow, BallotFrom, Exists

\* The weights of the ballots are the tallies of the vote records.
LEMMA BallotsWeigh ==
  ASSUME NEW row, NEW opts, opts \subseteq 1..MaxOptions, NEW m, NEW i \in opts
  PROVE  /\ Ref!Approval(BallotRow(row, opts, m), i) = Tally(row, m, i)
         /\ Ref!Rejection(BallotRow(row, opts, m)) = Tally(row, m, Against)
<1> DEFINE b == BallotRow(row, opts, m)
<1>1. ASSUME NEW o \in Owners
      PROVE  /\ (IF b[o] = NoVote THEN 0 ELSE b[o].approve[i]) = VotePart(row[<<m, o>>], i)
             /\ (IF b[o] = NoVote THEN 0 ELSE b[o].deny) = VotePart(row[<<m, o>>], Against)
  <2> DEFINE v == row[<<m, o>>]
  <2>1. b[o] = BallotFrom(v, opts)
    BY DEF BallotRow
  <2>2. b[o] = NoVote <=> ~v.exists
    BY <2>1, BallotIsNone
  <2>3. i \in 1..MaxOptions /\ i # Against /\ i # Veto /\ i # Whole
    BY DEF Against, Veto, Whole
  <2> HIDE DEF b, v
  <2>4. v.exists => b[o].approve[i] = OptionPart(v.vote, v.weight, i)
    BY <2>1, <2>3 DEF BallotFrom
  <2>5. v.exists => b[o].deny = DenyPart(v.vote, v.weight)
    BY <2>1 DEF BallotFrom
  <2>6. v.exists => /\ VotePart(v, i) = OptionPart(v.vote, v.weight, i)
                    /\ VotePart(v, Against) = DenyPart(v.vote, v.weight)
    BY <2>3 DEF VotePart, PartOf
  <2>7. ~v.exists => VotePart(v, i) = 0 /\ VotePart(v, Against) = 0
    BY DEF VotePart
  <2> QED BY <2>2, <2>4, <2>5, <2>6, <2>7 DEF v
<1>2. /\ [o \in Owners |-> IF b[o] = NoVote THEN 0 ELSE b[o].approve[i]] = Ballots(row, m, i)
      /\ [o \in Owners |-> IF b[o] = NoVote THEN 0 ELSE b[o].deny] = Ballots(row, m, Against)
  BY <1>1 DEF Ballots
<1>3. Ref!Voters = Owners
  BY DEF Ref!Voters, Owners
<1> HIDE DEF b
<1>4. Ref!Approval(b, i) = Ref!Total(Ballots(row, m, i), NOwners)
  BY <1>2, <1>3, Zenon DEF Ref!Approval
<1>5. Ref!Rejection(b) = Ref!Total(Ballots(row, m, Against), NOwners)
  BY <1>2, <1>3, Zenon DEF Ref!Rejection
<1>6. \A f, n : Ref!Total(f, n) = Total(f, n)
  BY DEF Ref!Total, Total
<1> QED BY <1>4, <1>5, <1>6 DEF Tally, b

\* An option with more weight than there is against prevails in Referendum.
LEMMA OptionPrevails ==
  ASSUME NEW q \in ProposalRecord, NEW row, VotesOn(row, DOMAIN q.options),
         CountedRight(q, row), NEW i \in DOMAIN q.options,
         q.options[i].vote_weight > q.deny_vote_weight
  PROVE  Ref!Prevails(BallotRow(row, DOMAIN q.options, q.mint), i)
<1>1. DOMAIN q.options \subseteq 1..MaxOptions
  <2>1. PICK n \in 1..MaxOptions : DOMAIN q.options = 1..n
    BY OptionListOf DEF ProposalRecord
  <2> QED BY <2>1 DEF MaxOptions
<1>2. /\ q.options[i].vote_weight = Tally(row, q.mint, i)
      /\ q.deny_vote_weight = Tally(row, q.mint, Against)
  BY CountWithin, Zenon
<1> DEFINE b == BallotRow(row, DOMAIN q.options, q.mint)
<1>3. /\ Ref!Approval(b, i) = Tally(row, q.mint, i)
      /\ Ref!Rejection(b) = Tally(row, q.mint, Against)
  BY <1>1, BallotsWeigh
<1> QED BY <1>2, <1>3 DEF Ref!Prevails

-----------------------------------------------------------------------------
(* What the handlers do in Referendum *)

\* Other proposals are left alone.
Elsewhere(p) ==
  \A q \in Proposals \ {p} :
    proposals'[q] = proposals[q] /\ votes'[q] = votes[q] /\ txs'[q] = txs[q]

LEMMA ElsewhereSame ==
  ASSUME NEW p, Elsewhere(p), NEW q \in Proposals \ {p}
  PROVE  Same(q)
BY DEF Elsewhere, Same, AgendaOf, BallotsOf, BallotOf, CarriedOut, Exists, Slots

SameBooks(p) ==
  AgendaOf(p)' = AgendaOf(p) /\ BallotsOf(p)' = BallotsOf(p) /\ CarriedOut(p)' = CarriedOut(p)

RefOpen(p) ==
  /\ PhaseOf(proposals[p]) = "preparation" /\ PhaseOf(proposals'[p]) = "open"
  /\ SameBooks(p)

RefWithdraw(p) ==
  /\ PhaseOf(proposals[p]) = "preparation" /\ PhaseOf(proposals'[p]) = "closed"
  /\ SameBooks(p)

\* One voter casts a ballot or takes it back, or none does.
OneBallot(new, old) ==
  \/ new = old
  \/ \E v \in Owners :
       /\ \A w \in Owners \ {v} : new[w] = old[w]
       /\ old[v] = NoVote \/ new[v] = NoVote

RefVote(p) ==
  /\ PhaseOf(proposals[p]) = "open"
  /\ OneBallot(BallotsOf(p)', BallotsOf(p))
  /\ \/ PhaseOf(proposals'[p]) \in {"open", "closed"}
     \/ /\ PhaseOf(proposals'[p]) = "adopted"
        /\ \E i \in 1..MaxOptions : Ref!Prevails(BallotsOf(p)', i)
  /\ AgendaOf(p)' = AgendaOf(p) /\ CarriedOut(p)' = CarriedOut(p)

RefCarryOut(p) ==
  /\ PhaseOf(proposals[p]) = "adopted" /\ PhaseOf(proposals'[p]) = "adopted"
  /\ \E x \in AgendaOf(p) \ CarriedOut(p) :
       /\ Ref!Prevails(BallotsOf(p), x[1])
       /\ CarriedOut(p)' = CarriedOut(p) \cup {x}
  /\ AgendaOf(p)' = AgendaOf(p) /\ BallotsOf(p)' = BallotsOf(p)

RefMove(p) ==
  \/ Same(p) \/ (\E x : RefPrepare(p, x))
  \/ RefOpen(p) \/ RefWithdraw(p) \/ RefVote(p) \/ RefCarryOut(p)

LEMMA RefStep ==
  ASSUME NEW p \in Proposals, Elsewhere(p), RefMove(p)
  PROVE  [Ref!Next]_Ref!refVars
<1>1. \A q \in Proposals \ {p} : Same(q)
  BY ElsewhereSame
<1>2. Ref!Others(p)
  BY <1>1 DEF Same, Ref!Others
<1>3. CASE Same(p)
  BY <1>1, <1>3, RefStutter
<1>4. CASE \E x : RefPrepare(p, x)
  BY <1>1, <1>4, RefPrepareStep
<1>5. CASE RefOpen(p)
  <2>1. Ref!Open(p)
    BY <1>5 DEF RefOpen, SameBooks, Ref!Open
  <2> QED BY <1>2, <2>1, Zenon DEF Ref!Next
<1>6. CASE RefWithdraw(p)
  <2>1. Ref!Withdraw(p)
    BY <1>6 DEF RefWithdraw, SameBooks, Ref!Withdraw, Ref!Keep
  <2> QED BY <1>2, <2>1, Zenon DEF Ref!Next
<1>7. CASE RefVote(p)
  <2>1. Ref!Ballot(p) \/ Ref!Keep(p)
    BY <1>7 DEF RefVote, OneBallot, Ref!Ballot, Ref!Keep, Ref!Voters, Owners
  <2>2. Ref!Decide(p)
    <3>1. CASE PhaseOf(proposals'[p]) \in {"open", "closed"}
      BY <3>1 DEF Ref!Decide
    <3>2. CASE /\ PhaseOf(proposals'[p]) = "adopted"
               /\ \E i \in 1..MaxOptions : Ref!Prevails(BallotsOf(p)', i)
      <4>1. PICK i \in 1..MaxOptions : Ref!Prevails(BallotsOf(p)', i)
        BY <3>2
      <4>2. [r \in Proposals |-> BallotsOf(r)]'[p] = BallotsOf(p)'
        OBVIOUS
      <4> QED BY <3>2, <4>1, <4>2 DEF Ref!Decide
    <3> QED BY <1>7, <3>1, <3>2, Zenon DEF RefVote
  <2>3. Ref!Vote(p)
    BY <1>7, <2>1, <2>2 DEF RefVote, Ref!Vote
  <2> QED BY <1>2, <2>3, Zenon DEF Ref!Next
<1>8. CASE RefCarryOut(p)
  <2>1. PICK x \in AgendaOf(p) \ CarriedOut(p) :
          /\ Ref!Prevails(BallotsOf(p), x[1])
          /\ CarriedOut(p)' = CarriedOut(p) \cup {x}
    BY <1>8, Zenon DEF RefCarryOut
  <2>2. Ref!CarryOut(p)
    BY <1>8, <2>1 DEF RefCarryOut, Ref!CarryOut, Ref!Keep
  <2> QED BY <1>2, <2>2, Zenon DEF Ref!Next
<1> QED BY <1>3, <1>4, <1>5, <1>6, <1>7, <1>8 DEF RefMove

LEMMA StateChangeMove ==
  ASSUME TypeInv, NEW p \in Proposals, NEW q, StateChange(p, q), q.state # "None"
  PROVE  /\ Elsewhere(p) /\ SameBooks(p) /\ proposals'[p] = q
         /\ q.use_deny = proposals[p].use_deny
<1>1. \A r \in Proposals : proposals'[r] = IF r = p THEN q ELSE proposals[r]
  BY DEF StateChange, TypeInv, ProposalTypes
<1>2. /\ votes' = votes /\ txs' = txs /\ q.options = proposals[p].options
      /\ q.mint = proposals[p].mint /\ q.use_deny = proposals[p].use_deny /\ Exists(p)
  BY DEF StateChange, SameVote
<1>3. Elsewhere(p)
  BY <1>1, <1>2 DEF Elsewhere
<1>4. SameBooks(p)
  BY <1>1, <1>2 DEF SameBooks, AgendaOf, BallotsOf, BallotOf, CarriedOut, Exists, Slots
<1> QED BY <1>1, <1>2, <1>3, <1>4

LEMMA SameStateMove ==
  ASSUME TypeInv, NEW p \in Proposals, NEW q, StateChange(p, q), q.state = proposals[p].state
  PROVE  Elsewhere(p) /\ RefMove(p)
<1>1. q.state # "None"
  BY DEF StateChange, Exists
<1>2. /\ Elsewhere(p) /\ SameBooks(p) /\ proposals'[p] = q
      /\ q.use_deny = proposals[p].use_deny
  BY <1>1, StateChangeMove
<1>3. Same(p)
  BY <1>2 DEF Same, SameBooks, PhaseOf
<1> QED BY <1>2, <1>3 DEF RefMove

LEMMA SignOffProposalMove ==
  ASSUME TypeInv, NEW p \in Proposals, NEW s, SignOffProposal(p, s)
  PROVE  Elsewhere(p) /\ RefMove(p)
<1>1. PICK q : StateChange(p, q) /\ q.state \in {"SigningOff", "Voting"}
  BY SignOffProposalState
<1>2. proposals[p].state \in {"Draft", "SigningOff"}
  BY SignOffProposalState
<1>3. Elsewhere(p) /\ SameBooks(p) /\ proposals'[p] = q
  BY <1>1, StateChangeMove
<1>4. Same(p) \/ RefOpen(p)
  BY <1>1, <1>2, <1>3 DEF Same, RefOpen, SameBooks, PhaseOf
<1> QED BY <1>3, <1>4 DEF RefMove

LEMMA CancelProposalMove ==
  ASSUME TypeInv, NEW p \in Proposals, NEW s, CancelProposal(p, s)
  PROVE  Elsewhere(p) /\ RefMove(p)
<1>1. PICK q : StateChange(p, q) /\ q.state = "Cancelled"
  BY CancelProposalState
<1>2. proposals[p].state \in {"Draft", "SigningOff", "Voting"}
  BY CancelProposalState DEF Undecided
<1>3. Elsewhere(p) /\ SameBooks(p) /\ proposals'[p] = q
  BY <1>1, StateChangeMove
<1>4. PhaseOf(proposals'[p]) = "closed"
  BY <1>1, <1>3 DEF PhaseOf
<1>5. RefWithdraw(p) \/ RefVote(p)
  BY <1>2, <1>3, <1>4 DEF RefWithdraw, RefVote, OneBallot, SameBooks, PhaseOf
<1> QED BY <1>3, <1>5 DEF RefMove

LEMMA CompleteProposalMove ==
  ASSUME TypeInv, AdoptionsSound, NEW p \in Proposals, NEW s, CompleteProposal(p, s)
  PROVE  Elsewhere(p) /\ RefMove(p)
<1>1. PICK q : StateChange(p, q) /\ q.state = "Completed"
  BY CompleteProposalState
<1>2. proposals[p].state = "Succeeded" /\ proposals[p].use_deny
  BY CompleteProposalState DEF AdoptionsSound, AdoptionSound, Exists
<1>3. /\ Elsewhere(p) /\ SameBooks(p) /\ proposals'[p] = q
      /\ q.use_deny = proposals[p].use_deny
  BY <1>1, StateChangeMove
<1>4. Same(p)
  BY <1>1, <1>2, <1>3 DEF Same, SameBooks, PhaseOf
<1> QED BY <1>3, <1>4 DEF RefMove

LEMMA CreateProposalMove ==
  ASSUME TypeInv, NEW p \in Proposals, NEW k \in Records, NEW s,
         NEW args \in ProposalArgs, CreateProposal(p, k, s, args)
  PROVE  Elsewhere(p) /\ RefMove(p)
<1> DEFINE d == Drafted(k, args)
           t == NoTransactions(args.options)
<1>1. /\ ~Exists(p) /\ d \in ProposalRecord /\ DOMAIN d.options = 1..args.options
      /\ proposals' = [proposals EXCEPT ![p] = d] /\ txs' = [txs EXCEPT ![p] = t]
      /\ votes' = votes
  BY CreateProposalOutcome
<1>2. d.state = "Draft"
  BY DEF Drafted
<1>3. \A x \in DOMAIN t : ~t[x].exists
  BY DEF NoTransactions, NoTransaction
<1>4. DOMAIN t = (1..args.options) \X (0..MaxTransactions-1)
  BY DEF NoTransactions
<1> HIDE DEF d, t
<1>5. /\ \A r \in Proposals : proposals'[r] = IF r = p THEN d ELSE proposals[r]
      /\ \A r \in Proposals : txs'[r] = IF r = p THEN t ELSE txs[r]
  BY <1>1 DEF TypeInv, ProposalTypes, TransactionTypes
<1>6. Elsewhere(p)
  BY <1>1, <1>5 DEF Elsewhere
<1>7. AgendaOf(p) = {} /\ CarriedOut(p) = {} /\ BallotsOf(p) = [o \in Owners |-> NoVote]
  BY <1>1 DEF AgendaOf, CarriedOut, BallotsOf
<1>8. AgendaOf(p)' = {}
  BY <1>1, <1>3, <1>4, <1>5 DEF AgendaOf, Slots
<1>9. CarriedOut(p)' = {}
  BY <1>8 DEF CarriedOut
<1>10. BallotsOf(p)' = [o \in Owners |-> NoVote]
  <2>1. proposals'[p].state # "None" /\ d.mint \in GoverningMints
    BY <1>1, <1>2, <1>5 DEF ProposalRecord
  <2>2. ASSUME NEW o \in Owners PROVE votes'[p][<<d.mint, o>>] = NoVote
    <3>1. <<d.mint, o>> \in Records
      BY <2>1, RecordKeys
    <3> QED BY <1>1, <3>1 DEF TypeInv, VoteRecordTypes
  <2>3. ASSUME NEW opts PROVE BallotFrom(NoVote, opts) = NoVote
    BY DEF BallotFrom, NoVote
  <2>4. BallotsOf(p)' = BallotRow(votes'[p], DOMAIN d.options, d.mint)
    BY <1>5, <2>1, NextBallotsAre
  <2> QED BY <2>2, <2>3, <2>4 DEF BallotRow
<1>11. PhaseOf(proposals'[p]) = PhaseOf(proposals[p])
  BY <1>1, <1>2, <1>5 DEF PhaseOf, Exists
<1>12. Same(p)
  BY <1>7, <1>8, <1>9, <1>10, <1>11 DEF Same
<1> QED BY <1>6, <1>12 DEF RefMove

\* The agenda and what of it is carried out, with the slot x written.
AgendaWith(p, x, t) ==
  {y \in Slots(p) : IF y = x THEN t.exists ELSE txs[p][y].exists}
CarriedOutWith(p, x, t) ==
  {y \in AgendaWith(p, x, t) : IF y = x THEN t.executed ELSE txs[p][y].executed}

\* What the change of an option of a draft leaves.
LEMMA DraftChangeMove ==
  ASSUME TypeInv, NEW p \in Proposals, NEW i, NEW o, DraftChange(p, i, o),
         NEW x \in Slots(p), NEW t, txs' = [txs EXCEPT ![p][x] = t]
  PROVE  /\ Elsewhere(p) /\ BallotsOf(p)' = BallotsOf(p)
         /\ PhaseOf(proposals[p]) = "preparation" /\ PhaseOf(proposals'[p]) = "preparation"
         /\ AgendaOf(p)' = AgendaWith(p, x, t)
         /\ CarriedOut(p)' = CarriedOutWith(p, x, t)
<1>1. PICK q : /\ proposals' = [proposals EXCEPT ![p] = q] /\ q.state = "Draft"
               /\ q.options = [proposals[p].options EXCEPT ![i] = o]
               /\ SameVote(q, proposals[p])
  BY DEF DraftChange
<1>2. /\ Exists(p) /\ proposals[p].state = "Draft" /\ votes' = votes
      /\ DOMAIN q.options = DOMAIN proposals[p].options /\ q.mint = proposals[p].mint
  BY <1>1 DEF DraftChange, SameVote
<1>3. \A r \in Proposals : proposals'[r] = IF r = p THEN q ELSE proposals[r]
  BY <1>1 DEF TypeInv, ProposalTypes
<1>4. DOMAIN txs = Proposals /\ DOMAIN txs[p] = Slots(p)
  BY <1>2 DEF TypeInv, TransactionTypes
<1>5. /\ \A r \in Proposals : r # p => txs'[r] = txs[r]
      /\ \A y \in Slots(p) : txs'[p][y] = IF y = x THEN t ELSE txs[p][y]
  BY <1>4
<1>6. Elsewhere(p)
  BY <1>2, <1>3, <1>5 DEF Elsewhere
<1>7. BallotsOf(p)' = BallotsOf(p)
  <2>1. /\ BallotsOf(p) = BallotRow(votes[p], DOMAIN proposals[p].options, proposals[p].mint)
        /\ BallotsOf(p)' = BallotRow(votes'[p], DOMAIN q.options, q.mint)
    BY <1>1, <1>2, <1>3, BallotsAre, NextBallotsAre
  <2> QED BY <1>2, <2>1
<1>8. Slots(p)' = Slots(p)
  BY <1>2, <1>3 DEF Slots
<1>9. PhaseOf(proposals[p]) = "preparation" /\ PhaseOf(proposals'[p]) = "preparation"
  BY <1>1, <1>2, <1>3 DEF PhaseOf
<1>10. AgendaOf(p)' = AgendaWith(p, x, t)
  <2>1. AgendaOf(p)' = {y \in Slots(p) : txs'[p][y].exists}
    BY <1>1, <1>3, <1>8 DEF AgendaOf, Exists
  <2> QED BY <1>5, <2>1 DEF AgendaWith
<1>11. CarriedOut(p)' = CarriedOutWith(p, x, t)
  <2>1. CarriedOut(p)' = {y \in AgendaOf(p)' : txs'[p][y].executed}
    BY DEF CarriedOut
  <2>2. AgendaWith(p, x, t) \subseteq Slots(p)
    BY DEF AgendaWith
  <2> QED BY <1>5, <1>10, <2>1, <2>2 DEF CarriedOutWith
<1> QED BY <1>2, <1>6, <1>7, <1>9, <1>10, <1>11 DEF AgendaOf

LEMMA InsertTransactionMove ==
  ASSUME TypeInv, NEW p \in Proposals, NEW s, NEW i, NEW n, NEW x,
         InsertTransaction(p, s, i, n, x)
  PROVE  Elsewhere(p) /\ RefMove(p)
<1> DEFINE y == <<i, n>>
           t == [exists |-> TRUE, instruction |-> x, executed |-> FALSE]
<1>1. y \in Slots(p) /\ ~txs[p][y].exists /\ txs' = [txs EXCEPT ![p][y] = t]
  BY Zenon DEF InsertTransaction
<1>0. PICK o : DraftChange(p, i, o)
  BY InsertTransactionState, Zenon
<1>2. t.exists /\ ~t.executed
  OBVIOUS
<1> HIDE DEF y, t
<1>3. /\ Elsewhere(p) /\ BallotsOf(p)' = BallotsOf(p)
      /\ PhaseOf(proposals[p]) = "preparation" /\ PhaseOf(proposals'[p]) = "preparation"
      /\ AgendaOf(p)' = AgendaWith(p, y, t) /\ CarriedOut(p)' = CarriedOutWith(p, y, t)
  BY <1>0, <1>1, DraftChangeMove
<1>30. AgendaOf(p) = {z \in Slots(p) : txs[p][z].exists}
  BY <1>0 DEF DraftChange, AgendaOf
<1>4. AgendaOf(p)' = AgendaOf(p) \cup {y}
  BY <1>1, <1>2, <1>3, <1>30 DEF AgendaWith
<1>5. CarriedOut(p)' = CarriedOut(p)
  BY <1>1, <1>2, <1>3, <1>30, <1>4 DEF CarriedOut, CarriedOutWith
<1>6. RefPrepare(p, y)
  BY <1>3, <1>4, <1>5 DEF RefPrepare
<1> QED BY <1>3, <1>6 DEF RefMove

LEMMA RemoveTransactionMove ==
  ASSUME TypeInv, ExecutionSound, NEW p \in Proposals, NEW s, NEW i, NEW n,
         RemoveTransaction(p, s, i, n)
  PROVE  Elsewhere(p) /\ RefMove(p)
<1> DEFINE y == <<i, n>>
<1>1. y \in Slots(p) /\ txs[p][y].exists /\ txs' = [txs EXCEPT ![p][y] = NoTransaction]
  BY Zenon DEF RemoveTransaction
<1>0. PICK o : DraftChange(p, i, o)
  BY RemoveTransactionState, Zenon
<1>2. ~NoTransaction.exists
  BY DEF NoTransaction
<1>3. ~txs[p][y].executed
  <2>1. Exists(p) /\ proposals[p].state = "Draft"
    BY <1>0 DEF DraftChange
  <2>2. i \in DOMAIN proposals[p].options /\ y \in DOMAIN txs[p] /\ y[1] = i
    BY <1>1, <2>1 DEF Slots, TypeInv, TransactionTypes
  <2>3. DoneOf(txs[p], i) = {}
    BY <2>1, <2>2 DEF ExecutionSound, ExecSound, OptionSound, Undecided
  <2> HIDE DEF y
  <2> QED BY <1>1, <2>2, <2>3 DEF DoneOf, MadeOf
<1> HIDE DEF y
<1>4. /\ Elsewhere(p) /\ BallotsOf(p)' = BallotsOf(p)
      /\ PhaseOf(proposals[p]) = "preparation" /\ PhaseOf(proposals'[p]) = "preparation"
      /\ AgendaOf(p)' = AgendaWith(p, y, NoTransaction)
      /\ CarriedOut(p)' = CarriedOutWith(p, y, NoTransaction)
  BY <1>0, <1>1, DraftChangeMove
<1>40. AgendaOf(p) = {z \in Slots(p) : txs[p][z].exists}
  BY <1>0 DEF DraftChange, AgendaOf
<1>5. AgendaOf(p)' = AgendaOf(p) \ {y} /\ y \in AgendaOf(p)
  BY <1>1, <1>2, <1>4, <1>40 DEF AgendaWith
<1>6. CarriedOut(p)' = CarriedOut(p)
  BY <1>3, <1>4, <1>5 DEF CarriedOut, CarriedOutWith
<1>7. RefPrepare(p, y)
  BY <1>4, <1>5, <1>6 DEF RefPrepare
<1> QED BY <1>4, <1>7 DEF RefMove

LEMMA ReleaseVoteMove ==
  ASSUME TypeInv, NEW p \in Proposals, NEW k \in Records, ReleaseVote(p, k)
  PROVE  Elsewhere(p) /\ RefMove(p)
<1>1. /\ Exists(p) /\ votes[p][k] \in VoteRecord
      /\ votes' = [votes EXCEPT ![p][k].is_relinquished = TRUE]
      /\ UNCHANGED <<proposals, txs>>
  BY ReleaseVoteOutcome
<1> DEFINE v == [votes[p][k] EXCEPT !.is_relinquished = TRUE]
<1>2. v.exists = votes[p][k].exists /\ v.vote = votes[p][k].vote /\ v.weight = votes[p][k].weight
  BY <1>1 DEF VoteRecord
<1> HIDE DEF v
<1>3. votes' = [votes EXCEPT ![p] = [votes[p] EXCEPT ![k] = v]]
  BY <1>1 DEF v
<1>4. /\ \A r \in Proposals : r # p => votes'[r] = votes[r]
      /\ \A j \in Records : votes'[p][j] = IF j = k THEN v ELSE votes[p][j]
  BY <1>3 DEF TypeInv, VoteRecordTypes
<1>5. Elsewhere(p)
  BY <1>1, <1>4 DEF Elsewhere
<1> DEFINE opts == DOMAIN proposals[p].options
           m == proposals[p].mint
<1>6. BallotsOf(p)' = BallotRow(votes'[p], opts, m) /\ BallotsOf(p) = BallotRow(votes[p], opts, m)
  BY <1>1, BallotsAre, NextBallotsAre DEF Exists
<1>7. ASSUME NEW o \in Owners
      PROVE  BallotFrom(votes'[p][<<m, o>>], opts) = BallotFrom(votes[p][<<m, o>>], opts)
  <2>1. <<m, o>> \in Records
    BY <1>1, ProposalOf, RecordKeys DEF ProposalRecord
  <2> HIDE DEF opts, m
  <2> QED BY <1>2, <1>4, <2>1 DEF BallotFrom
<1>8. BallotsOf(p)' = BallotsOf(p)
  BY <1>6, <1>7 DEF BallotRow
<1>9. Same(p)
  BY <1>1, <1>8 DEF Same, AgendaOf, CarriedOut, Exists, Slots
<1> QED BY <1>5, <1>9 DEF RefMove

\* One vote record changes between none and some: a voter's ballot, or none, since a
\* veto is not a ballot.
LEMMA OneBallotChanges ==
  ASSUME NEW row, NEW new, NEW opts, NEW m \in GoverningMints, NEW k \in Records,
         \A j \in Records : j # k => new[j] = row[j],
         ~row[k].exists \/ ~new[k].exists
  PROVE  OneBallot(BallotRow(new, opts, m), BallotRow(row, opts, m))
<1> DEFINE a == BallotRow(row, opts, m)
           b == BallotRow(new, opts, m)
<1>1. k = <<k[1], k[2]>> /\ k[2] \in Owners
  BY RecordKeys
<1>2. ASSUME NEW o \in Owners, <<m, o>> # k PROVE b[o] = a[o]
  <2>1. <<m, o>> \in Records
    BY RecordKeys
  <2> QED BY <1>2, <2>1 DEF BallotRow
<1>3. CASE k[1] = m
  <2>1. \A w \in Owners \ {k[2]} : b[w] = a[w]
    BY <1>2
  <2>2. a[k[2]] = BallotFrom(row[k], opts) /\ b[k[2]] = BallotFrom(new[k], opts)
    BY <1>1, <1>3 DEF BallotRow
  <2>3. a[k[2]] = NoVote \/ b[k[2]] = NoVote
    BY <2>2, BallotIsNone
  <2> HIDE DEF a, b
  <2> QED BY <1>1, <2>1, <2>3 DEF OneBallot, a, b
<1>4. CASE k[1] # m
  <2>1. \A o \in Owners : b[o] = a[o]
    BY <1>1, <1>2, <1>4
  <2>2. b = a
    BY <2>1 DEF BallotRow
  <2> QED BY <2>2 DEF OneBallot
<1> QED BY <1>3, <1>4

\* A vote that is cast or taken back, and what it decides.
LEMMA VoteMove ==
  ASSUME TypeInv, TypeInv', AdoptionsSound', TallyExact', NEW p \in Proposals, Exists(p),
         proposals[p].state = "Voting", txs' = txs,
         NEW r \in ProposalRecord, proposals' = [proposals EXCEPT ![p] = r],
         r.mint = proposals[p].mint, DOMAIN r.options = DOMAIN proposals[p].options,
         \A q \in Proposals \ {p} : votes'[q] = votes[q],
         \/ votes'[p] = votes[p]
         \/ \E k \in Records : /\ \A j \in Records : j # k => votes'[p][j] = votes[p][j]
                               /\ ~votes[p][k].exists \/ ~votes'[p][k].exists,
         \/ r.state \in {"Voting", "Vetoed", "Defeated"}
         \/ r.state = "Completed" /\ ~r.use_deny
         \/ /\ r.state = "Succeeded"
            /\ \E i \in DOMAIN r.options : r.options[i].vote_result = "Succeeded"
  PROVE  Elsewhere(p) /\ RefMove(p)
<1> DEFINE opts == DOMAIN r.options
           m == r.mint
<1>1. \A q \in Proposals : proposals'[q] = IF q = p THEN r ELSE proposals[q]
  BY DEF TypeInv, ProposalTypes
<1>2. Elsewhere(p)
  BY <1>1 DEF Elsewhere
<1>3. r.state # "None" /\ m \in GoverningMints
  BY DEF ProposalRecord, ProposalStates
<1>4. BallotsOf(p)' = BallotRow(votes'[p], opts, m) /\ BallotsOf(p) = BallotRow(votes[p], opts, m)
  BY <1>1, <1>3, BallotsAre, NextBallotsAre
<1>5. OneBallot(BallotsOf(p)', BallotsOf(p))
  <2>1. CASE votes'[p] = votes[p]
    BY <1>4, <2>1 DEF OneBallot
  <2>2. ASSUME NEW k \in Records, \A j \in Records : j # k => votes'[p][j] = votes[p][j],
               ~votes[p][k].exists \/ ~votes'[p][k].exists
        PROVE  OneBallot(BallotsOf(p)', BallotsOf(p))
    <3> HIDE DEF opts, m
    <3>1. OneBallot(BallotRow(votes'[p], opts, m), BallotRow(votes[p], opts, m))
      BY <1>3, <2>2, OneBallotChanges
    <3> QED BY <1>4, <3>1
  <2> QED BY <2>1, <2>2
<1>6. AgendaOf(p)' = AgendaOf(p) /\ CarriedOut(p)' = CarriedOut(p)
  BY <1>1, <1>3 DEF AgendaOf, CarriedOut, Exists, Slots
<1>7. PhaseOf(proposals[p]) = "open"
  BY DEF PhaseOf
<1>8. CASE r.state \in {"Voting", "Vetoed", "Defeated"} \/ (r.state = "Completed" /\ ~r.use_deny)
  <2>1. PhaseOf(proposals'[p]) \in {"open", "closed"}
    BY <1>1, <1>8 DEF PhaseOf
  <2> QED BY <1>2, <1>5, <1>6, <1>7, <2>1 DEF RefMove, RefVote
<1>9. ASSUME r.state = "Succeeded", NEW i \in DOMAIN r.options,
             r.options[i].vote_result = "Succeeded"
      PROVE  RefMove(p)
  <2>1. PhaseOf(proposals'[p]) = "adopted"
    BY <1>1, <1>9 DEF PhaseOf
  <2>2. AdoptionSound(r) /\ CountedRight(r, votes'[p])
    BY <1>1, <1>3 DEF AdoptionsSound, TallyExact, Exists
  <2>3. r.options[i].vote_weight > r.deny_vote_weight
    BY <1>9, <2>2 DEF AdoptionSound
  <2>4. VotesOn(votes'[p], opts)
    BY <1>1, <1>3 DEF TypeInv, VoteRecordTypes, VoteFits, VotesOn, Exists
  <2>5. Ref!Prevails(BallotRow(votes'[p], opts, m), i)
    BY <2>2, <2>3, <2>4, OptionPrevails
  <2>6. i \in 1..MaxOptions
    <3>1. PICK n \in 1..MaxOptions : DOMAIN r.options = 1..n
      BY OptionListOf DEF ProposalRecord
    <3> QED BY <3>1 DEF MaxOptions
  <2> HIDE DEF opts, m
  <2>7. RefVote(p)
    BY <1>4, <1>5, <1>6, <1>7, <2>1, <2>5, <2>6 DEF RefVote
  <2> QED BY <2>7 DEF RefMove
<1> QED BY <1>2, <1>8, <1>9

LEMMA WithdrawVoteMove ==
  ASSUME TypeInv, TypeInv', AdoptionsSound', TallyExact', NEW p \in Proposals,
         NEW k \in Records, NEW s, WithdrawVote(p, k, s)
  PROVE  Elsewhere(p) /\ RefMove(p)
<1> DEFINE v == votes[p][k]
           r == Tallied(proposals[p], v.vote, v.weight, -1)
<1>1. /\ Exists(p) /\ v \in VoteRecord /\ VoteFits(p, k) /\ proposals[p].state = "Voting"
      /\ r \in ProposalRecord /\ proposals' = [proposals EXCEPT ![p] = r]
      /\ votes' = [votes EXCEPT ![p][k] = NoVote] /\ txs' = txs
  BY WithdrawVoteOutcome, Zenon
<1>2. /\ proposals[p] \in ProposalRecord /\ v.vote \in Votes /\ v.weight \in Nat
      /\ v.vote.kind = "approve" => DOMAIN v.vote.choices = DOMAIN proposals[p].options
  BY <1>1, ProposalOf DEF VoteRecord, VoteFits
<1> HIDE DEF v
<1>3. /\ r.mint = proposals[p].mint /\ DOMAIN r.options = DOMAIN proposals[p].options
      /\ r.state = "Voting"
  BY <1>1, <1>2, TalliedType
<1> HIDE DEF r
<1>4. /\ \A q \in Proposals \ {p} : votes'[q] = votes[q]
      /\ \A j \in Records : j # k => votes'[p][j] = votes[p][j]
      /\ ~votes'[p][k].exists
  BY <1>1 DEF TypeInv, VoteRecordTypes, NoVote
<1> QED BY <1>1, <1>3, <1>4, VoteMove

LEMMA CastVoteMove ==
  ASSUME TypeInv, TypeInv', AdoptionsSound', TallyExact', NEW p \in Proposals,
         NEW k \in Records, NEW s, NEW vote \in Votes, CastVote(p, k, s, vote)
  PROVE  Elsewhere(p) /\ RefMove(p)
<1>1. /\ Exists(p) /\ ~votes[p][k].exists /\ ValidVote(proposals[p], vote)
      /\ proposals[p].state = "Voting" /\ txs' = txs
  BY CastVoteOutcome
<1>2. PICK weight :
        /\ weight \in Nat
        /\ WithVote(p, vote, weight) \in ProposalRecord
        /\ votes' = [votes EXCEPT ![p][k] =
             [exists |-> TRUE, vote |-> vote, weight |-> weight, is_relinquished |-> FALSE]]
        /\ \/ CastOnly(p, k, vote, weight)
           \/ \E max \in Nat, state \in {"Vetoed", "Succeeded", "Defeated"} :
                CastAndTip(p, k, vote, weight, max, state)
  BY CastVoteOutcome
<1> DEFINE q == WithVote(p, vote, weight)
<1>3. /\ proposals[p] \in ProposalRecord
      /\ vote.kind = "approve" => DOMAIN vote.choices = DOMAIN proposals[p].options
  BY <1>1, ProposalOf DEF ValidVote
<1>4. /\ q.mint = proposals[p].mint /\ DOMAIN q.options = DOMAIN proposals[p].options
      /\ q.state = "Voting" /\ q.vote_type = proposals[p].vote_type
  BY <1>1, <1>2, <1>3, TalliedType DEF WithVote
<1>5. /\ \A r \in Proposals \ {p} : votes'[r] = votes[r]
      /\ \A j \in Records : j # k => votes'[p][j] = votes[p][j]
  BY <1>2 DEF TypeInv, VoteRecordTypes
<1>6. CASE CastOnly(p, k, vote, weight)
  <2>1. proposals' = [proposals EXCEPT ![p] = q]
    BY <1>6 DEF CastOnly
  <2> HIDE DEF q
  <2> QED BY <1>1, <1>2, <1>4, <1>5, <2>1, VoteMove DEF q
<1>7. ASSUME NEW max \in Nat, NEW state \in {"Vetoed", "Succeeded", "Defeated"},
             CastAndTip(p, k, vote, weight, max, state)
      PROVE  Elsewhere(p) /\ RefMove(p)
  <2> DEFINE kind == VoteKind(vote)
             threshold == VoteThreshold(gov.config, k[1] = Council, kind)
             tipping == VoteTipping(gov.config, k[1] = Council)
             r == TippedRecord(q, state, now, max, threshold, tipping)
  <2>1. /\ proposals' = [proposals EXCEPT ![p] = r]
        /\ state = TippedState(q, max, threshold, tipping, kind)
    BY <1>7 DEF CastAndTip
  <2>2. threshold \in Thresholds /\ tipping \in Tippings /\ now \in Nat
    <3>1. now \in Nat
      BY RealmNumbers DEF TypeInv, RealmTypes
    <3>2. (k[1] = Council) \in BOOLEAN /\ GovernanceExists
      BY <1>1, ProposalOf
    <3> QED BY <3>1, <3>2, ThresholdType
  <2>3. q \in ProposalRecord
    BY <1>2
  <2> HIDE DEF threshold, tipping, q, kind
  <2>4. /\ r \in ProposalRecord /\ r.state = state /\ r.mint = q.mint
        /\ r.options = TippedOptions(q, state) /\ DOMAIN r.options = DOMAIN q.options
    BY <2>2, <2>3, TippedType
  <2> HIDE DEF r
  <2>5. state = "Succeeded" =>
          \E i \in DOMAIN r.options : r.options[i].vote_result = "Succeeded"
    <3> SUFFICES ASSUME state = "Succeeded"
                 PROVE  1 \in DOMAIN q.options /\ r.options[1].vote_result = "Succeeded"
      BY <2>4
    <3>1. 1 \in DOMAIN q.options
      BY <2>1 DEF TippedState, Tippable
    <3>2. q.options[1] \in ProposalOption
      BY <2>3, <3>1, OptionListOf DEF ProposalRecord
    <3> QED BY <2>4, <3>1, <3>2 DEF TippedOptions, ProposalOption
  <2> QED BY <1>1, <1>4, <1>5, <2>1, <2>4, <2>5, VoteMove DEF q
<1> QED BY <1>2, <1>6, <1>7

LEMMA FinalizeVoteMove ==
  ASSUME TypeInv, TypeInv', AdoptionsSound', TallyExact', NEW p \in Proposals,
         FinalizeVote(p)
  PROVE  Elsewhere(p) /\ RefMove(p)
<1>1. Exists(p) /\ proposals[p].state = "Voting" /\ votes' = votes /\ txs' = txs
  BY FinalizeVoteOutcome
<1>2. PICK r, min : proposals' = [proposals EXCEPT ![p] = r] /\ Resolution(r, proposals[p], min)
  BY FinalizeVoteResolved
<1>3. /\ r.mint = proposals[p].mint /\ DOMAIN r.options = DOMAIN proposals[p].options
      /\ r.use_deny = proposals[p].use_deny
      /\ r.state = FinalVoteState(proposals[p], min)
      /\ \A i \in DOMAIN r.options :
           r.options[i].vote_result = "Succeeded" <=> i \in Winners(proposals[p], min)
  BY <1>2 DEF Resolution
<1>4. \/ r.state = "Defeated"
      \/ r.state = "Completed" /\ ~r.use_deny
      \/ r.state = "Succeeded" /\ Winners(proposals[p], min) # {}
  BY <1>3 DEF FinalVoteState
<1>5. Winners(proposals[p], min) \subseteq DOMAIN r.options
  BY <1>3 DEF Winners, Best, Passing
<1>6. r \in ProposalRecord
  <2>1. proposals'[p] = r
    BY <1>2 DEF TypeInv, ProposalTypes
  <2> QED BY <1>4, <2>1 DEF TypeInv, ProposalTypes, NoProposal
<1>7. r.state = "Succeeded" =>
        \E i \in DOMAIN r.options : r.options[i].vote_result = "Succeeded"
  BY <1>3, <1>4, <1>5
<1> QED BY <1>1, <1>2, <1>3, <1>4, <1>6, <1>7, VoteMove

LEMMA ExecuteTransactionMove ==
  ASSUME TypeInv, AdoptionsSound, TallyExact, NEW p \in Proposals, NEW i, NEW n,
         ExecuteTransaction(p, i, n)
  PROVE  Elsewhere(p) /\ RefMove(p)
<1> DEFINE q == proposals[p]
           r == AfterExecution(q, i)
           x == <<i, n>>
<1>1. /\ Exists(p) /\ x \in Slots(p) /\ txs[p][x].exists /\ ~txs[p][x].executed
      /\ proposals' = [proposals EXCEPT ![p] = r]
      /\ txs' = [txs EXCEPT ![p][x].executed = TRUE]
      /\ q.state \in {"Succeeded", "Executing"} /\ q.options[i].vote_result = "Succeeded"
      /\ votes' = votes
  BY Zenon DEF ExecuteTransaction, CanExecuteTransaction
<1>2. i \in DOMAIN q.options /\ x[1] = i
  BY <1>1 DEF Slots
<1>3. /\ DOMAIN r.options = DOMAIN q.options /\ r.mint = q.mint /\ r.use_deny = q.use_deny
      /\ r.state \in {"Completed", "Executing"}
  BY <1>1, <1>2, AfterExecutionOf, Zenon
<1>4. q.use_deny /\ q.options[i].vote_weight > q.deny_vote_weight
  BY <1>1, <1>2 DEF AdoptionsSound, AdoptionSound
<1>5. Ref!Prevails(BallotsOf(p), i)
  <2>1. q \in ProposalRecord /\ VotesOn(votes[p], DOMAIN q.options) /\ CountedRight(q, votes[p])
    BY <1>1, ProposalOf, RowOn DEF TallyExact
  <2>2. Ref!Prevails(BallotRow(votes[p], DOMAIN q.options, q.mint), i)
    BY <1>2, <1>4, <2>1, OptionPrevails
  <2> QED BY <1>1, <2>2, BallotsAre
<1> DEFINE t == [txs[p][x] EXCEPT !.executed = TRUE]
<1>6. t.exists /\ t.executed
  <2>1. txs[p][x] \in TransactionRecord
    BY <1>1 DEF TypeInv, TransactionTypes, NoTransaction
  <2> QED BY <2>1 DEF TransactionRecord
<1>7. txs' = [txs EXCEPT ![p][x] = t]
  BY <1>1
<1> HIDE DEF t, x, r
<1>8. /\ \A s \in Proposals : proposals'[s] = IF s = p THEN r ELSE proposals[s]
      /\ \A s \in Proposals : s # p => txs'[s] = txs[s]
      /\ \A y \in Slots(p) : txs'[p][y] = IF y = x THEN t ELSE txs[p][y]
  <2>1. \A s \in Proposals : proposals'[s] = IF s = p THEN r ELSE proposals[s]
    BY <1>1 DEF TypeInv, ProposalTypes
  <2>2. DOMAIN txs = Proposals /\ DOMAIN txs[p] = Slots(p)
    BY <1>1 DEF TypeInv, TransactionTypes
  <2>3. /\ \A s \in Proposals : s # p => txs'[s] = txs[s]
        /\ \A y \in Slots(p) : txs'[p][y] = IF y = x THEN t ELSE txs[p][y]
    BY <1>7, <2>2
  <2> QED BY <2>1, <2>3
<1>9. Elsewhere(p)
  BY <1>1, <1>8 DEF Elsewhere
<1>10. BallotsOf(p)' = BallotsOf(p)
  <2>1. /\ BallotsOf(p) = BallotRow(votes[p], DOMAIN q.options, q.mint)
        /\ BallotsOf(p)' = BallotRow(votes'[p], DOMAIN r.options, r.mint)
    BY <1>1, <1>3, <1>8, BallotsAre, NextBallotsAre
  <2> QED BY <1>1, <1>3, <2>1
<1>11. /\ AgendaOf(p) = {y \in Slots(p) : txs[p][y].exists}
       /\ AgendaOf(p)' = {y \in Slots(p) : txs'[p][y].exists}
  <2>1. Slots(p)' = Slots(p)
    BY <1>3, <1>8 DEF Slots
  <2> QED BY <1>1, <1>3, <1>8, <2>1 DEF AgendaOf, Exists
<1>12. AgendaOf(p)' = AgendaOf(p)
  BY <1>1, <1>6, <1>8, <1>11
<1>13. CarriedOut(p)' = CarriedOut(p) \cup {x} /\ x \in AgendaOf(p) \ CarriedOut(p)
  <2>1. CarriedOut(p)' = {y \in AgendaOf(p)' : txs'[p][y].executed}
    BY DEF CarriedOut
  <2>2. x \in AgendaOf(p) \ CarriedOut(p)
    BY <1>1, <1>11 DEF CarriedOut
  <2> QED BY <1>6, <1>8, <1>11, <1>12, <2>1, <2>2 DEF CarriedOut
<1>14. PhaseOf(proposals[p]) = "adopted" /\ PhaseOf(proposals'[p]) = "adopted"
  BY <1>1, <1>3, <1>4, <1>8 DEF PhaseOf
<1>15. Ref!Prevails(BallotsOf(p), x[1])
  BY <1>2, <1>5
<1>16. RefCarryOut(p)
  BY <1>10, <1>12, <1>13, <1>14, <1>15 DEF RefCarryOut
<1> QED BY <1>9, <1>16 DEF RefMove

-----------------------------------------------------------------------------
(* The refinement *)

\* What the invariants of the other theorems say of a state.
Governed ==
  TypeInv /\ TallyExact /\ ExecutionSound /\ VotesFunded

LEMMA NextAdoption ==
  ASSUME Governed, AdoptionsSound, Governed', [Next]_vars
  PROVE  AdoptionsSound'
<1>0. TypeInv /\ TypeInv' /\ TallyExact' /\ VotesFunded'
  BY DEF Governed
<1>1. UNCHANGED proposals => AdoptionsSound'
  BY DEF AdoptionsSound, Exists
<1>2. ASSUME NEW p \in Proposals PROVE RefundProposalDeposit(p) => AdoptionsSound'
  BY <1>0, RefundProposalDepositState, StateChangeAdoption
<1>3. ASSUME NEW p \in Proposals, NEW k \in Records PROVE ReleaseVote(p, k) => AdoptionsSound'
  BY <1>1 DEF ReleaseVote
<1>4. ASSUME NEW p \in Proposals, NEW s PROVE SignOffProposal(p, s) => AdoptionsSound'
  BY <1>0, SignOffProposalState, StateChangeAdoption DEF Undecided
<1>5. ASSUME NEW p \in Proposals, NEW s PROVE CancelProposal(p, s) => AdoptionsSound'
  BY <1>0, CancelProposalState, StateChangeAdoption
<1>6. ASSUME NEW p \in Proposals, NEW s PROVE CompleteProposal(p, s) => AdoptionsSound'
  BY <1>0, CompleteProposalState, StateChangeAdoption
<1>7. ASSUME NEW p \in Proposals, NEW s, NEW x PROVE AddSignatory(p, s, x) => AdoptionsSound'
  BY <1>0, AddSignatoryState, StateChangeAdoption
<1>8. ASSUME NEW p \in Proposals, NEW s, NEW i, NEW n, NEW x, InsertTransaction(p, s, i, n, x)
      PROVE  AdoptionsSound'
  <2>1. PICK o : DraftChange(p, i, o)
    BY <1>0, <1>8, InsertTransactionState, Zenon
  <2> QED BY <1>0, <2>1, DraftChangeAdoption
<1>9. ASSUME NEW p \in Proposals, NEW s, NEW i, NEW n, RemoveTransaction(p, s, i, n)
      PROVE  AdoptionsSound'
  <2>1. PICK o : DraftChange(p, i, o)
    BY <1>0, <1>9, RemoveTransactionState, Zenon
  <2> QED BY <1>0, <2>1, DraftChangeAdoption
<1>10. CASE UNCHANGED govVars \/ UNCHANGED vars
  BY <1>1, <1>10 DEF vars, govVars
<1>11. CASE ProposalStep
  <2>1. CASE \E k \in Records, config \in GovernanceConfigs :
               \/ \E s \in Voters : CreateGovernance(s, k, config)
               \/ CreateGovernance(RealmAuthority, k, config)
    BY <1>1, <2>1, CreateGovernanceLeaves, Zenon
  <2>2. ASSUME NEW p \in Proposals,
               \/ FinalizeVote(p)
               \/ RefundProposalDeposit(p)
               \/ \E k \in Records : ReleaseVote(p, k)
               \/ \E i \in 1..MaxOptions, n \in 0..MaxTransactions-1 : ExecuteTransaction(p, i, n)
        PROVE  AdoptionsSound'
    BY <1>0, <1>2, <1>3, <2>2, FinalizeVoteAdoption, ExecuteTransactionAdoption, Zenon
  <2>3. ASSUME NEW p \in Proposals, NEW s \in Signers,
               \/ SignOffProposal(p, s)
               \/ CancelProposal(p, s)
               \/ CompleteProposal(p, s)
               \/ \E x \in Signatories : AddSignatory(p, s, x)
               \/ \E k \in Records :
                    \/ \E args \in ProposalArgs : CreateProposal(p, k, s, args)
                    \/ \E vote \in Votes : CastVote(p, k, s, vote)
                    \/ WithdrawVote(p, k, s)
               \/ \E i \in 1..MaxOptions, n \in 0..MaxTransactions-1 :
                    \/ \E x \in Instructions : InsertTransaction(p, s, i, n, x)
                    \/ RemoveTransaction(p, s, i, n)
        PROVE  AdoptionsSound'
    BY <1>0, <1>4, <1>5, <1>6, <1>7, <1>8, <1>9, <2>3, CreateProposalAdoption,
       CastVoteAdoption, WithdrawVoteAdoption, Zenon
  <2> QED BY <1>11, <2>1, <2>2, <2>3, Zenon DEF ProposalStep
<1> QED BY <1>10, <1>11 DEF Next

LEMMA NextRefines ==
  ASSUME Governed, AdoptionsSound, Governed', AdoptionsSound', [Next]_vars
  PROVE  [Ref!Next]_Ref!refVars
<1> DEFINE Refines == [Ref!Next]_Ref!refVars
           Moves(p) == Elsewhere(p) /\ RefMove(p)
<1>0. TypeInv /\ TypeInv' /\ TallyExact /\ TallyExact' /\ ExecutionSound
  BY DEF Governed
<1>1. ASSUME UNCHANGED <<proposals, votes, txs>> PROVE Refines
  <2>1. \A p \in Proposals : Same(p)
    BY <1>1 DEF Same, AgendaOf, BallotsOf, BallotOf, CarriedOut, Exists, Slots
  <2> QED BY <2>1, RefStutter
<1>2. ASSUME NEW p \in Proposals, Moves(p) PROVE Refines
  BY <1>2, RefStep
<1>3. ASSUME NEW p \in Proposals PROVE RefundProposalDeposit(p) => Moves(p)
  BY <1>0, RefundProposalDepositState, SameStateMove
<1>4. ASSUME NEW p \in Proposals, NEW s, NEW x PROVE AddSignatory(p, s, x) => Moves(p)
  BY <1>0, AddSignatoryState, SameStateMove
<1> HIDE DEF Refines, Moves
<1>5. ASSUME UNCHANGED govVars \/ UNCHANGED vars PROVE Refines
  BY <1>1, <1>5 DEF vars, govVars
<1>6. ASSUME ProposalStep PROVE Refines
  <2>1. CASE \E k \in Records, config \in GovernanceConfigs :
               \/ \E s \in Voters : CreateGovernance(s, k, config)
               \/ CreateGovernance(RealmAuthority, k, config)
    BY <1>1, <2>1, CreateGovernanceLeaves, Zenon
  <2>2. ASSUME NEW p \in Proposals,
               \/ FinalizeVote(p)
               \/ RefundProposalDeposit(p)
               \/ \E k \in Records : ReleaseVote(p, k)
               \/ \E i \in 1..MaxOptions, n \in 0..MaxTransactions-1 : ExecuteTransaction(p, i, n)
        PROVE  Refines
    <3>1. Moves(p)
      BY <1>0, <1>3, <2>2, FinalizeVoteMove, ReleaseVoteMove, ExecuteTransactionMove,
         Zenon DEF Moves
    <3> QED BY <1>2, <3>1
  <2>3. ASSUME NEW p \in Proposals, NEW s \in Signers,
               \/ SignOffProposal(p, s)
               \/ CancelProposal(p, s)
               \/ CompleteProposal(p, s)
               \/ \E x \in Signatories : AddSignatory(p, s, x)
               \/ \E k \in Records :
                    \/ \E args \in ProposalArgs : CreateProposal(p, k, s, args)
                    \/ \E vote \in Votes : CastVote(p, k, s, vote)
                    \/ WithdrawVote(p, k, s)
               \/ \E i \in 1..MaxOptions, n \in 0..MaxTransactions-1 :
                    \/ \E x \in Instructions : InsertTransaction(p, s, i, n, x)
                    \/ RemoveTransaction(p, s, i, n)
        PROVE  Refines
    <3>1. Moves(p)
      BY <1>0, <1>4, <2>3, SignOffProposalMove, CancelProposalMove, CompleteProposalMove,
         CreateProposalMove, CastVoteMove, WithdrawVoteMove, InsertTransactionMove,
         RemoveTransactionMove, Zenon DEF Moves
    <3> QED BY <1>2, <3>1
  <2> QED BY <1>6, <2>1, <2>2, <2>3, Zenon DEF ProposalStep
<1>7. Refines
  BY <1>5, <1>6 DEF Next
<1> QED BY <1>7 DEF Refines

\* The governance keeps its promise, with ballots counted from the vote records: the
\* agenda of a proposal is drawn up before its vote and fixed then, each owner has at
\* most one ballot and none after the decision, and what is carried out is an item of
\* the agenda, once, whose option had more weight than there was against the proposal.
\* A strict tip is the only adoption that depends on more than the tally, and needs
\* that no token votes twice: the theorem is for realms without plugins and
\* membership tokens, whose votes may outweigh the supply.
THEOREM GovernanceImplements == PlainTokens => (Spec => ImplementsReferendum)
<1> SUFFICES ASSUME PlainTokens PROVE Spec => ImplementsReferendum
  OBVIOUS
<1>1. Init => TallyExact
  BY DEF Init, TallyExact, Exists, NoProposal
<1>2. TypeInv /\ TallyExact /\ [Next]_vars => TallyExact'
  BY NextTally
<1>3. Init => ExecutionSound
  BY DEF Init, ExecutionSound, Exists, NoProposal
<1>4. TypeInv /\ ExecutionSound /\ [Next]_vars => ExecutionSound'
  BY NextExecution
<1>5. TypeInv /\ TallyExact /\ ExecutionSound /\ VotesOnce => Governed
  BY DEF Governed, VotesOnce
<1>6. Spec => []Governed
  BY <1>1, <1>2, <1>3, <1>4, <1>5, TypeInvariant, VotesOnceAlways, PTL DEF Spec
<1>7. Init => AdoptionsSound
  BY DEF Init, AdoptionsSound, Exists, NoProposal
<1>8. Governed /\ AdoptionsSound /\ Governed' /\ [Next]_vars => AdoptionsSound'
  BY NextAdoption
<1>9. /\ Governed /\ AdoptionsSound /\ Governed' /\ AdoptionsSound' /\ [Next]_vars
      => [Ref!Next]_Ref!refVars
  BY NextRefines
<1>10. Init => Ref!Init
  BY InitRef
<1>11. Spec => Ref!Spec
  BY <1>6, <1>7, <1>8, <1>9, <1>10, PTL DEF Spec, Ref!Spec
<1> QED BY <1>11 DEF ImplementsReferendum

=============================================================================
