----------------------------- MODULE Governance -----------------------------
(***************************************************************************)
(* A governance of a realm: proposals, their signatories and transactions, *)
(* votes, and what executed transactions do to the governance itself.      *)
(***************************************************************************)
EXTENDS Realm, Voting

CONSTANTS
  NProposals,           \* number of proposals
  Signatories,
  GovernanceConfigs,    \* configurations a governance is created with
  ProposalArgs,         \* arguments of CreateProposal
  Votes,                \* votes that may be cast
  Instructions,         \* instructions a transaction may hold
  MaxTransactions,      \* bound of the transaction slots of an option
  LastStart             \* bound of the time at which a vote starts

VARIABLES
  gov,          \* GovernanceV2
  required,     \* signatories with a RequiredSignatory record
  proposals,    \* ProposalV2 and its ProposalDeposit; the field tipping is history,
                \* the rule by which a vote was tipped, that no handler reads
  signatories,  \* signatory records of each proposal
  votes,        \* vote records of each proposal
  txs           \* transactions of each proposal

govVars == <<gov, required, proposals, signatories, votes, txs>>
vars == <<realmVars, govVars>>

-----------------------------------------------------------------------------
(* Types *)

Proposals == 1..NProposals

NoVote == [exists |-> FALSE]
NoTransaction == [exists |-> FALSE]
NoProposal == [state |-> "None"]
NewOption ==
  [vote_weight |-> 0, vote_result |-> "None", transactions_count |-> 0,
   transactions_next_index |-> 0, transactions_executed_count |-> 0]

Exists(p) == proposals[p].state # "None"

\* States in which a proposal counts as outstanding and as active.
Undecided == {"Draft", "SigningOff", "Voting"}

\* Arguments of CreateGovernance and SetGovernanceConfig, before they are validated.
GovernanceConfigArgs ==
  [community_vote_threshold : Nat, community_veto_vote_threshold : Nat,
   council_vote_threshold : Nat, council_veto_vote_threshold : Nat,
   community_vote_tipping : Tippings, council_vote_tipping : Tippings,
   min_community_weight_to_create_proposal : Nat,
   min_council_weight_to_create_proposal : Nat,
   voting_base_time : Nat, voting_cool_off_time : Nat, transactions_hold_up_time : Nat,
   deposit_exempt_proposal_count : Nat]

ASSUME GovernanceAssumption ==
  /\ NProposals \in Nat /\ MaxTransactions \in Nat
  /\ GovernanceConfigs \subseteq GovernanceConfigArgs
  /\ ProposalArgs \subseteq
       [mint : GoverningMints, options : Nat, vote_type : VoteTypes, use_deny : BOOLEAN]
  /\ \A vote \in Votes :
       /\ vote.kind \in {"approve", "deny", "veto"}
       /\ \A i \in DOMAIN vote.choices : vote.choices[i] \in 0..100
  /\ \A x \in Instructions :
       /\ x.kind = "SetGovernanceConfig" => x.config \in GovernanceConfigArgs
       /\ x.kind \in {"AddRequiredSignatory", "RemoveRequiredSignatory"}
            => x.signatory \in Signatories
       /\ x.kind = "SetRealmConfig" => x.args \in RealmConfigArgs

Slots(p) == (DOMAIN proposals[p].options) \X (0..MaxTransactions-1)

\* A vote that holds its voter's tokens.
LiveVote(p, k) == votes[p][k].exists /\ ~votes[p][k].is_relinquished

-----------------------------------------------------------------------------
(* Governances *)

GovernanceExists == GovernanceAccount \in govs

CreateGovernance(s, k, config) ==
  /\ ValidGovernanceConfig(config)
  /\ AddGovernance(s, k)
  /\ gov' = [config |-> config, required_signatories_count |-> 0,
             active_proposal_count |-> 0]
  /\ UNCHANGED <<required, proposals, signatories, votes, txs>>

\* The threshold of the voting population, where it may vote at all.
MintCanVote(m, kind) ==
  ValidMint(m) /\ VoteThreshold(gov.config, m = Council, kind) # Disabled

CanCreateProposal(k, weight) ==
  LET min == IF k[1] = Community THEN gov.config.min_community_weight_to_create_proposal
             ELSE gov.config.min_council_weight_to_create_proposal
  IN  /\ ValidMint(k[1])
      /\ min # MaxU64 /\ weight >= min
      /\ tor[k].outstanding < MaxOutstanding

-----------------------------------------------------------------------------
(* Drafting a proposal *)

CreateProposal(p, k, s, args) ==
  /\ GovernanceExists
  /\ ~Exists(p)
  /\ MintCanVote(args.mint, "electorate")
  /\ OwnerOrDelegateSigns(k, s)
  /\ \E weight \in VoterWeights(k) : CanCreateProposal(k, weight)
  /\ ValidOptions(args.options, args.vote_type)
  /\ tor' = [tor EXCEPT ![k].outstanding = @ + 1]
  /\ gov' = [gov EXCEPT !.active_proposal_count = @ + 1]
  /\ proposals' = [proposals EXCEPT ![p] =
       [state |-> "Draft", mint |-> args.mint, owner |-> k,
        vote_type |-> args.vote_type, use_deny |-> args.use_deny,
        options |-> [i \in 1..args.options |-> NewOption],
        deny_vote_weight |-> 0, veto_vote_weight |-> 0,
        signatories_count |-> 0, signed_off_count |-> 0,
        voting_at |-> 0, voting_completed_at |-> 0,
        max_vote_weight |-> 0, vote_threshold |-> Disabled, tipping |-> "Disabled",
        deposit |-> ProposalDepositAmount(gov.active_proposal_count + 1, gov.config)]]
  /\ txs' = [txs EXCEPT ![p] =
       [x \in (1..args.options) \X (0..MaxTransactions-1) |-> NoTransaction]]
  /\ UNCHANGED <<now, realm, tokens, holding, wallet, govs, required, signatories, votes>>

\* Signatories the governance requires can be added by anyone, before others.
AddSignatory(p, s, x) ==
  /\ proposals[p].state = "Draft"
  /\ signatories[p][x] = "none"
  /\ IF proposals[p].signatories_count < gov.required_signatories_count
     THEN x \in required
     ELSE OwnerOrDelegateSigns(proposals[p].owner, s)
  /\ signatories' = [signatories EXCEPT ![p][x] = "added"]
  /\ proposals' = [proposals EXCEPT ![p].signatories_count = @ + 1]
  /\ UNCHANGED <<realmVars, gov, required, votes, txs>>

\* A new index is taken when the transaction is put behind the others.
WithTransaction(o, n) ==
  [o EXCEPT !.transactions_count = @ + 1,
            !.transactions_next_index = IF n = @ THEN @ + 1 ELSE @]

InsertTransaction(p, s, i, n, instruction) ==
  /\ Exists(p) /\ CanEditInstructions(proposals[p])
  /\ OwnerOrDelegateSigns(proposals[p].owner, s)
  /\ <<i, n>> \in Slots(p)
  /\ ~txs[p][i, n].exists
  /\ n <= proposals[p].options[i].transactions_next_index
  /\ proposals' = [proposals EXCEPT ![p].options[i] = WithTransaction(@, n)]
  /\ txs' = [txs EXCEPT ![p][<<i, n>>] =
       [exists |-> TRUE, instruction |-> instruction, executed |-> FALSE]]
  /\ UNCHANGED <<realmVars, gov, required, signatories, votes>>

RemoveTransaction(p, s, i, n) ==
  /\ Exists(p) /\ CanEditInstructions(proposals[p])
  /\ OwnerOrDelegateSigns(proposals[p].owner, s)
  /\ <<i, n>> \in Slots(p)
  /\ txs[p][i, n].exists
  /\ proposals' = [proposals EXCEPT ![p].options[i].transactions_count = @ - 1]
  /\ txs' = [txs EXCEPT ![p][<<i, n>>] = NoTransaction]
  /\ UNCHANGED <<realmVars, gov, required, signatories, votes>>

\* All signatories signed: the vote starts.
StartVotingIf(p, allSigned) ==
  IF allSigned THEN [p EXCEPT !.state = "Voting", !.voting_at = now] ELSE p

SignOffProposal(p, s) ==
  LET q == proposals[p] IN
  /\ q.state \in {"Draft", "SigningOff"}
  /\ q.signatories_count >= gov.required_signatories_count
  /\ IF q.signatories_count = 0
     THEN /\ OwnerOrDelegateSigns(q.owner, s)
          /\ proposals' = [proposals EXCEPT ![p] = StartVotingIf(@, TRUE)]
          /\ UNCHANGED signatories
     ELSE /\ s \in Signatories /\ signatories[p][s] = "added"
          /\ signatories' = [signatories EXCEPT ![p][s] = "signed"]
          /\ proposals' = [proposals EXCEPT ![p] =
               StartVotingIf([q EXCEPT !.signed_off_count = @ + 1,
                                       !.state = "SigningOff"],
                             q.signed_off_count + 1 = q.signatories_count)]
  /\ now <= LastStart
  /\ UNCHANGED <<realmVars, gov, required, votes, txs>>

-----------------------------------------------------------------------------
(* Voting *)

\* The maximum weight of a vote, for a tally to which a vote is already added.
MaxVoterWeights(q, m, kind) ==
  IF tokens[m].max_voter_weight_addin
  THEN {CoerceMaxVoterWeight(q, w, kind) : w \in 0..MaxSupply}
  ELSE {MaxVoterWeightFromSupply(q, m = Council, realm.source,
                                 holding[m] + wallet[m], kind, SUPPLY_FRACTION_BASE)}

\* A vote that decides the proposal releases its owner and the governance.
CastVote(p, k, s, vote) ==
  LET kind == VoteKind(vote)
      config == gov.config
      threshold == VoteThreshold(config, k[1] = Council, kind)
      tipping == VoteTipping(config, k[1] = Council)
  IN
  /\ Exists(p) /\ ~votes[p][k].exists
  /\ ValidMint(k[1]) /\ (kind = "veto" => realm.council)
  /\ proposals[p].mint = MintForVote(k[1], kind)
  /\ CanCastVote(proposals[p], config, vote, now)
  /\ OwnerOrDelegateSigns(k, s)
  /\ ValidVote(proposals[p], vote)
  /\ MintCanVote(k[1], kind)
  /\ \E weight \in VoterWeights(k) :
     LET q == Tallied(proposals[p], vote, weight, 1) IN
     \E max \in MaxVoterWeights(q, k[1], kind) :
     LET state == TippedState(q, max, threshold, tipping, kind)
         tipped == state # "Voting"
         voter == [tor EXCEPT ![k].unrelinquished = @ + 1]
     IN
     /\ votes' = [votes EXCEPT ![p][k] =
          [exists |-> TRUE, vote |-> vote, weight |-> weight, is_relinquished |-> FALSE]]
     /\ IF tipped
        THEN /\ proposals' = [proposals EXCEPT ![p] =
                  [Tipped(q, state) EXCEPT
                     !.voting_completed_at = now, !.max_vote_weight = max,
                     !.vote_threshold = threshold, !.tipping = tipping]]
             /\ tor' = [voter EXCEPT ![q.owner] = DecreaseOutstanding(@)]
             /\ gov' = [gov EXCEPT !.active_proposal_count = Minus(@, 1)]
        ELSE /\ proposals' = [proposals EXCEPT ![p] = q]
             /\ tor' = voter
             /\ UNCHANGED gov
  /\ UNCHANGED <<now, realm, tokens, holding, wallet, govs, required, signatories, txs>>

\* Mutant: a vote may be relinquished again.
RelinquishAgain(p, k) == ValidMint(k[1]) /\ votes[p][k].exists

\* The record of a vote belongs to the population that may cast it: a veto has to
\* come from the other mint, which has to exist.
RelinquishAllowed(p, k) ==
  /\ ValidMint(k[1])
  /\ LiveVote(p, k)
  /\ votes[p][k].vote.kind = "veto" => realm.council

VoteOpen(p) ==
  /\ proposals[p].state = "Voting"
  /\ ~VotingMaxTimeEnded(proposals[p], gov.config, now)

\* While the vote is open the voter takes the vote back.
WithdrawVote(p, k, s) ==
  /\ Exists(p) /\ RelinquishAllowed(p, k)
  /\ VoteOpen(p)
  /\ OwnerOrDelegateSigns(k, s)
  /\ proposals' = [proposals EXCEPT ![p] =
       Tallied(@, votes[p][k].vote, votes[p][k].weight, -1)]
  /\ votes' = [votes EXCEPT ![p][k] = NoVote]
  /\ tor' = [tor EXCEPT ![k].unrelinquished = @ - 1]
  /\ UNCHANGED <<now, realm, tokens, holding, wallet, govs, gov, required,
                 signatories, txs>>

\* Mutant: votes are held until the proposal is executed.
Executed(p) == proposals[p].state \in FinalStates

Decided(p) == proposals[p].state # "Voting"

\* Once the proposal is decided anyone releases the voter's tokens.
ReleaseVote(p, k) ==
  /\ Exists(p) /\ RelinquishAllowed(p, k)
  /\ Decided(p)
  /\ votes' = [votes EXCEPT ![p][k].is_relinquished = TRUE]
  /\ tor' = [tor EXCEPT ![k].unrelinquished = @ - 1]
  /\ UNCHANGED <<now, realm, tokens, holding, wallet, govs, gov, required,
                 proposals, signatories, txs>>

FinalizeVote(p) ==
  LET q == proposals[p]
      threshold == VoteThreshold(gov.config, q.mint = Council, "electorate")
  IN
  /\ Exists(p)
  /\ MintCanVote(q.mint, "electorate")
  /\ CanFinalizeVote(q, gov.config, now)
  /\ \E max \in MaxVoterWeights(q, q.mint, "electorate") :
       proposals' = [proposals EXCEPT ![p] =
         [ResolveFinalVoteState(q, max, threshold) EXCEPT
            !.voting_completed_at = VotingMaxTimeEnd(q, gov.config),
            !.max_vote_weight = max, !.vote_threshold = threshold]]
  /\ tor' = [tor EXCEPT ![q.owner] = DecreaseOutstanding(@)]
  /\ gov' = [gov EXCEPT !.active_proposal_count = Minus(@, 1)]
  /\ UNCHANGED <<now, realm, tokens, holding, wallet, govs, required, signatories,
                 votes, txs>>

CancelProposal(p, s) ==
  /\ Exists(p) /\ CanCancel(proposals[p], gov.config, now)
  /\ OwnerOrDelegateSigns(proposals[p].owner, s)
  /\ proposals' = [proposals EXCEPT ![p].state = "Cancelled"]
  /\ tor' = [tor EXCEPT ![proposals[p].owner] = DecreaseOutstanding(@)]
  /\ gov' = [gov EXCEPT !.active_proposal_count = Minus(@, 1)]
  /\ UNCHANGED <<now, realm, tokens, holding, wallet, govs, required, signatories,
                 votes, txs>>

-----------------------------------------------------------------------------
(* Execution *)

\* Instructions that only the governance signs, and calls of other programs.
SetGovernanceConfig(config) ==
  /\ ValidGovernanceConfig(config)
  /\ gov' = [gov EXCEPT !.config = config]
  /\ UNCHANGED <<realmVars, required>>

AddRequiredSignatory(x) ==
  /\ x \notin required
  /\ required' = required \cup {x}
  /\ gov' = [gov EXCEPT !.required_signatories_count = @ + 1]
  /\ UNCHANGED realmVars

RemoveRequiredSignatory(x) ==
  /\ x \in required
  /\ required' = required \ {x}
  /\ gov' = [gov EXCEPT !.required_signatories_count = @ - 1]
  /\ UNCHANGED realmVars

Perform(instruction) ==
  \/ instruction.kind = "external" /\ UNCHANGED <<realmVars, gov, required>>
  \/ instruction.kind = "SetGovernanceConfig" /\ SetGovernanceConfig(instruction.config)
  \/ instruction.kind = "AddRequiredSignatory" /\ AddRequiredSignatory(instruction.signatory)
  \/ /\ instruction.kind = "RemoveRequiredSignatory"
     /\ RemoveRequiredSignatory(instruction.signatory)
  \/ /\ instruction.kind = "SetRealmConfig"
     /\ SetRealmConfig(GovernanceAccount, instruction.args)
     /\ UNCHANGED <<gov, required>>

\* Mutant: one option that is done completes the proposal.
AfterFirstOption(q, i) ==
  LET r == [q EXCEPT !.options[i].transactions_executed_count = @ + 1] IN
  [r EXCEPT !.state =
     IF r.options[i].transactions_executed_count = r.options[i].transactions_count
     THEN "Completed" ELSE "Executing"]

\* After the last transaction of the options that won the proposal is completed.
AfterExecution(q, i) ==
  LET r == [q EXCEPT !.options[i].transactions_executed_count = @ + 1] IN
  [r EXCEPT !.state =
     IF \A j \in DOMAIN r.options : r.options[j].vote_result = "Succeeded" =>
          r.options[j].transactions_executed_count = r.options[j].transactions_count
     THEN "Completed" ELSE "Executing"]

ExecuteTransaction(p, i, n) ==
  /\ Exists(p) /\ <<i, n>> \in Slots(p)
  /\ txs[p][i, n].exists /\ ~txs[p][i, n].executed
  /\ CanExecuteTransaction(proposals[p], i, gov.config, now)
  /\ Perform(txs[p][i, n].instruction)
  /\ proposals' = [proposals EXCEPT ![p] = AfterExecution(@, i)]
  /\ txs' = [txs EXCEPT ![p][<<i, n>>].executed = TRUE]
  /\ UNCHANGED <<signatories, votes>>

CompleteProposal(p, s) ==
  /\ Exists(p) /\ CanComplete(proposals[p])
  /\ OwnerOrDelegateSigns(proposals[p].owner, s)
  /\ proposals' = [proposals EXCEPT ![p].state = "Completed"]
  /\ UNCHANGED <<realmVars, gov, required, signatories, votes, txs>>

RefundProposalDeposit(p) ==
  /\ Exists(p) /\ CanRefundDeposit(proposals[p])
  /\ proposals[p].deposit > 0
  /\ proposals' = [proposals EXCEPT ![p].deposit = 0]
  /\ UNCHANGED <<realmVars, gov, required, signatories, votes, txs>>

-----------------------------------------------------------------------------
(* The specification *)

Init ==
  /\ RealmInit
  /\ gov = [config |-> None, required_signatories_count |-> 0,
            active_proposal_count |-> 0]
  /\ required = {}
  /\ proposals = [p \in Proposals |-> NoProposal]
  /\ signatories = [p \in Proposals |-> [x \in Signatories |-> "none"]]
  /\ votes = [p \in Proposals |-> [k \in Records |-> NoVote]]
  /\ txs = [p \in Proposals |-> << >>]

\* Accounts that sign; the governance signs only inside ExecuteTransaction.
Voters == Owners \cup Delegates
Signers == Voters \cup Signatories

RealmStep ==
  \/ \E k \in Records :
       \/ CreateTokenOwnerRecord(k)
       \/ WithdrawGoverningTokens(k)
       \/ \E amount \in Amounts :
            \/ DepositGoverningTokens(k, amount, TRUE)
            \/ DepositGoverningTokens(k, amount, FALSE)
            \/ RevokeGoverningTokens(k, k[2], amount)
            \/ RevokeGoverningTokens(k, MintAuthority, amount)
       \/ \E s \in Voters, d \in Delegates \cup {None} : SetGovernanceDelegate(k, s, d)
       \/ \E id \in LockIds, a \in LockAuthorities :
            \/ \E t \in LockTerms : SetTokenOwnerRecordLock(k,
                 [id |-> id, authority |-> a, expiry |-> now + t])
            \/ SetTokenOwnerRecordLock(k,
                 [id |-> id, authority |-> a, expiry |-> NeverExpires])
            \/ \E s \in Owners \cup LockAuthorities :
                 RelinquishTokenOwnerRecordLocks(k, a, s, {id})
       \/ \E a \in LockAuthorities : RelinquishTokenOwnerRecordLocks(k, a, a, {})
  \/ \E s \in {RealmAuthority} \cup NewAuthorities :
       /\ s # GovernanceAccount
       /\ \/ \E args \in RealmConfigs : SetRealmConfig(s, args)
          \/ \E m \in GoverningMints, a \in LockAuthorities :
               AddLockAuthority(s, m, a) \/ RemoveLockAuthority(s, m, a)
          \/ \E new \in NewAuthorities, action \in {"SetUnchecked", "SetChecked"} :
               SetRealmAuthority(s, action, new)
          \/ NewAuthorities # {} /\ SetRealmAuthority(s, "Remove", None)
  \/ \E m \in GoverningMints, amount \in Amounts : TransferToHolding(m, amount)
  \/ Tick

ProposalStep ==
  \/ \E k \in Records, config \in GovernanceConfigs :
       \/ \E s \in Voters : CreateGovernance(s, k, config)
       \/ CreateGovernance(RealmAuthority, k, config)
  \/ \E p \in Proposals :
       \/ FinalizeVote(p)
       \/ RefundProposalDeposit(p)
       \/ \E k \in Records : ReleaseVote(p, k)
       \/ \E s \in Signers :
            \/ SignOffProposal(p, s)
            \/ CancelProposal(p, s)
            \/ CompleteProposal(p, s)
            \/ \E x \in Signatories : AddSignatory(p, s, x)
            \/ \E k \in Records :
                 \/ \E args \in ProposalArgs : CreateProposal(p, k, s, args)
                 \/ \E vote \in Votes : CastVote(p, k, s, vote)
                 \/ WithdrawVote(p, k, s)
            \/ \E i \in 1..MaxOptions, n \in 0..MaxTransactions-1 :
                 \/ \E x \in Instructions : InsertTransaction(p, s, i, n, x)
                 \/ RemoveTransaction(p, s, i, n)
       \/ \E i \in 1..MaxOptions, n \in 0..MaxTransactions-1 : ExecuteTransaction(p, i, n)

Next == (RealmStep /\ UNCHANGED govVars) \/ ProposalStep

Spec == Init /\ [][Next]_vars

\* Time passes, and anyone may finalize a vote that ended and release the votes
\* of a proposal that is decided: neither needs a signature.
LiveSpec ==
  /\ Spec
  /\ WF_vars(Tick /\ UNCHANGED govVars)
  /\ \A p \in Proposals :
       /\ WF_vars(FinalizeVote(p))
       /\ \A k \in Records : WF_vars(ReleaseVote(p, k))

-----------------------------------------------------------------------------
(* Properties *)

GovernanceTypeOK ==
  /\ now \in 0..MaxTime
  /\ realm.authority \in {RealmAuthority, None} \cup NewAuthorities
  /\ realm.council \in BOOLEAN
  /\ tor \in [Records -> TokenOwnerRecord]
  /\ holding \in [GoverningMints -> 0..MaxSupply]
  /\ wallet \in [GoverningMints -> 0..MaxSupply]
  /\ govs \subseteq {GovernanceAccount}
  /\ required \subseteq Signatories
  /\ \A p \in Proposals :
       /\ proposals[p].state \in ProposalStates \cup {"None"}
       /\ signatories[p] \in [Signatories -> {"none", "added", "signed"}]
       /\ \A k \in Records : votes[p][k].exists \in BOOLEAN
       /\ Exists(p) => DOMAIN txs[p] = Slots(p)

\* The deposits of the owners' records can always be paid out of the holding
\* account, whatever is minted, revoked, withdrawn or sent to it
\* (process_withdraw_governing_tokens.rs transfers the whole recorded deposit).
HoldingBacked ==
  \A m \in GoverningMints :
    Total([o \in Owners |-> tor[m, o].deposit], NOwners) <= holding[m]

\* The counters that lock and unlock deposits and limit proposals agree with the
\* accounts they count, whichever handler decided, withdrew or released what.
CountersAgree ==
  /\ \A k \in Records :
       /\ tor[k].unrelinquished = Cardinality({p \in Proposals : LiveVote(p, k)})
       /\ tor[k].outstanding = Cardinality({p \in Proposals :
            proposals[p].state \in Undecided /\ proposals[p].owner = k})
  /\ gov.active_proposal_count =
       Cardinality({p \in Proposals : proposals[p].state \in Undecided})

\* What the votes of a mint's owners add up to, part by part.
SumOfVotes(p, m, Part(_, _)) ==
  Total([o \in Owners |-> LET v == votes[p][m, o] IN
           IF v.exists THEN Part(v.vote, v.weight) ELSE 0], NOwners)

\* The running tally of a proposal is the sum of its vote records at all times:
\* a vote taken back (process_relinquish_vote.rs) leaves no residue, and one of a
\* decided proposal is released without touching the tally.
TallyAgrees ==
  \A p \in Proposals : Exists(p) =>
    LET q == proposals[p] IN
    /\ \A i \in DOMAIN q.options :
         q.options[i].vote_weight =
           SumOfVotes(p, q.mint, LAMBDA vote, w : OptionPart(vote, w, i))
    /\ q.deny_vote_weight = SumOfVotes(p, q.mint, DenyPart)
    /\ q.veto_vote_weight = SumOfVotes(p, MintForVote(q.mint, "veto"), VetoPart)

\* Arguments of SetRealmConfig, by the realm's authority or by a proposal.
SetRealmArgs ==
  RealmConfigs \cup {x.args : x \in {y \in Instructions : y.kind = "SetRealmConfig"}}

\* Without plugins and membership tokens, each token votes at most once on a
\* proposal: the weights of a mint's votes fit into its supply, and while the vote is
\* open into what the realm holds, so that tokens that voted cannot leave, be
\* deposited by another owner and vote again.
PlainTokens ==
  \A args \in InitialRealms \cup SetRealmArgs, m \in GoverningMints :
    ~args.tokens[m].voter_weight_addin /\ args.tokens[m].token_type # "Membership"

NoDoubleVoting ==
  PlainTokens =>
    \A p \in Proposals, m \in GoverningMints :
      SumOfVotes(p, m, LAMBDA vote, w : w) <=
        holding[m] + (IF proposals[p].state = "Voting" THEN 0 ELSE wallet[m])

\* A strict tip decides nothing that later votes could have turned: no tally that
\* extends the one at the tip within the maximum weight resolves differently.
TipsStand ==
  \A p \in Proposals :
    LET q == proposals[p] IN
    (/\ Exists(p) /\ q.state \notin Undecided \cup {"Cancelled", "Vetoed"}
     /\ q.tipping = "Strict") =>
      LET yes == q.options[1].vote_weight
          deny == q.deny_vote_weight
          max == q.max_vote_weight
          min == MinVoteThresholdWeight(q.vote_threshold, max)
      IN  \A y \in yes..max, d \in deny..max :
            y + d <= max =>
              OptionPasses([vote_weight |-> y], d, min)
                <=> q.options[1].vote_result = "Succeeded"

\* A proposal is completed exactly when the transactions of its winning options are
\* executed, and those of other options never are.
ExecutionComplete ==
  \A p \in Proposals : Exists(p) =>
    LET q == proposals[p]
        Made(i) == {x \in Slots(p) : x[1] = i /\ txs[p][x].exists}
        Done(i) == {x \in Made(i) : txs[p][x].executed}
    IN  \A i \in DOMAIN q.options :
          /\ q.options[i].transactions_count = Cardinality(Made(i))
          /\ q.options[i].transactions_executed_count = Cardinality(Done(i))
          /\ Done(i) # {} => q.options[i].vote_result = "Succeeded"
          /\ q.state = "Completed" /\ q.options[i].vote_result = "Succeeded"
               => Done(i) = Made(i)
          /\ q.state = "Executing" =>
               \E x \in Slots(p) : txs[p][x].exists /\ ~txs[p][x].executed
                  /\ q.options[x[1]].vote_result = "Succeeded"

\* Tokens leave a record only while nothing holds them: no vote that is not
\* relinquished, no proposal in preparation or under a vote, no lock that has not
\* expired.  Only the revocation of membership tokens is exempt.
DepositsHeld ==
  [][\A k \in Records :
       tor'[k].deposit < tor[k].deposit =>
         \/ tokens[k[1]].token_type = "Membership"
         \/ /\ \A p \in Proposals : ~LiveVote(p, k)
            /\ \A p \in Proposals : proposals[p].state \in Undecided => proposals[p].owner # k
            /\ \A lock \in tor[k].locks : IsExpired(lock)]_vars

-----------------------------------------------------------------------------
(* Refinement of Referendum *)

PhaseOf(q) ==
  IF q.state \in {"None", "Draft", "SigningOff"} THEN "preparation"
  ELSE IF q.state = "Voting" THEN "open"
  ELSE IF q.state \in {"Succeeded", "Executing"} \/ (q.state = "Completed" /\ q.use_deny)
       THEN "adopted" ELSE "closed"

BallotOf(p, k) ==
  LET v == votes[p][k] IN
  IF ~v.exists THEN NoVote
  ELSE [approve |-> [i \in 1..MaxOptions |->
          IF i \in DOMAIN proposals[p].options THEN OptionPart(v.vote, v.weight, i) ELSE 0],
        deny |-> DenyPart(v.vote, v.weight)]

BallotsOf(p) ==
  [o \in Owners |-> IF Exists(p) THEN BallotOf(p, <<proposals[p].mint, o>>) ELSE NoVote]

AgendaOf(p) == IF Exists(p) THEN {x \in Slots(p) : txs[p][x].exists} ELSE {}

CarriedOut(p) == {x \in AgendaOf(p) : txs[p][x].executed}

Ref == INSTANCE Referendum WITH
  Options <- 1..MaxOptions,
  NVoters <- NOwners,
  NoBallot <- NoVote,
  phase <- [p \in Proposals |-> PhaseOf(proposals[p])],
  agenda <- [p \in Proposals |-> AgendaOf(p)],
  ballots <- [p \in Proposals |-> BallotsOf(p)],
  done <- [p \in Proposals |-> CarriedOut(p)]

\* The handlers implement the promise of Referendum, with ballots counted from the
\* vote records instead of the running tally: nothing is carried out without an
\* adopted option, and no ballot or agenda changes once it may not.
ImplementsReferendum == Ref!Spec

-----------------------------------------------------------------------------
(* Liveness *)

\* Every vote ends: a proposal under a vote is tipped, cancelled or finalized.
VotesEnd ==
  \A p \in Proposals : proposals[p].state = "Voting" ~> proposals[p].state # "Voting"

\* A voter's tokens are not held forever: a vote on a proposal is eventually taken
\* back or relinquished.
VotesReleased ==
  \A p \in Proposals, k \in Records : LiveVote(p, k) ~> ~LiveVote(p, k)

=============================================================================
