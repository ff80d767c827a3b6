------------------------------- MODULE Voting -------------------------------
(***************************************************************************)
(* How the governance program weighs votes and resolves them: the pure     *)
(* part of ProposalV2, VoteRecordV2 and GovernanceConfig.  A proposal is a *)
(* record with the fields below; options are a function from 1..n.         *)
(***************************************************************************)
EXTENDS Integers, FiniteSets

ProposalStates == {"Draft", "SigningOff", "Voting", "Succeeded", "Executing",
                   "Completed", "Cancelled", "Defeated", "Vetoed"}

\* States that no handler leaves.
FinalStates == {"Completed", "Cancelled", "Defeated", "Vetoed"}

VoteTypes == {"SingleChoice", "FullWeight", "Weighted"}
Tippings == {"Strict", "Early", "Disabled"}

\* A threshold is a percentage of yes votes, or disabled.
Disabled == 0
Thresholds == 1..100 \cup {Disabled}

Greater(a, b) == IF a > b THEN a ELSE b
Minus(a, b) == IF a > b THEN a - b ELSE 0

-----------------------------------------------------------------------------
(* Votes: [kind, choices], where choices gives each option a percentage of *)
(* the voter's weight and is empty unless the vote approves                *)

VoteKind(vote) == IF vote.kind = "veto" THEN "veto" ELSE "electorate"

ChoiceWeight(percentage, weight) ==
  IF percentage = 100 THEN weight ELSE (weight * percentage) \div 100

\* Options that a vote approves with some weight.
Chosen(vote) == {i \in DOMAIN vote.choices : vote.choices[i] > 0}

PercentageSum(vote) ==
  LET s[i \in Nat] == IF i = 0 THEN 0 ELSE s[i-1] + vote.choices[i]
  IN  s[Cardinality(DOMAIN vote.choices)]

ValidVote(p, vote) ==
  /\ vote.kind = "approve" =>
       /\ DOMAIN vote.choices = DOMAIN p.options
       /\ Chosen(vote) # {}
       /\ p.vote_type = "SingleChoice" => Cardinality(Chosen(vote)) = 1
       /\ p.vote_type # "Weighted" => \A i \in Chosen(vote) : vote.choices[i] = 100
       /\ p.vote_type = "Weighted" => PercentageSum(vote) = 100
  /\ vote.kind = "deny" => p.use_deny

\* What a vote of the given weight adds to the parts of the tally.
OptionPart(vote, weight, i) ==
  IF vote.kind = "approve" THEN ChoiceWeight(vote.choices[i], weight) ELSE 0
DenyPart(vote, weight) == IF vote.kind = "deny" THEN weight ELSE 0
VetoPart(vote, weight) == IF vote.kind = "veto" THEN weight ELSE 0

\* Mutant: a vote against that is taken back is added once more.
TalliedAgain(p, vote, weight, sign) ==
  [p EXCEPT
     !.options = [i \in DOMAIN @ |->
        [@[i] EXCEPT !.vote_weight = @ + sign * OptionPart(vote, weight, i)]],
     !.deny_vote_weight = @ + DenyPart(vote, weight),
     !.veto_vote_weight = @ + sign * VetoPart(vote, weight)]

\* The tally with a vote added (sign 1) or taken back (sign -1).
Tallied(p, vote, weight, sign) ==
  [p EXCEPT
     !.options = [i \in DOMAIN p.options |->
        [p.options[i] EXCEPT !.vote_weight = @ + sign * OptionPart(vote, weight, i)]],
     !.deny_vote_weight = @ + sign * DenyPart(vote, weight),
     !.veto_vote_weight = @ + sign * VetoPart(vote, weight)]

-----------------------------------------------------------------------------
(* Thresholds and maximum weights *)

MinVoteThresholdWeight(threshold, max) ==
  LET n == threshold * max IN
  IF (n \div 100) * 100 < n THEN n \div 100 + 1 ELSE n \div 100

BestOptionWeight(p) ==
  CHOOSE w \in {p.options[i].vote_weight : i \in DOMAIN p.options} :
    \A i \in DOMAIN p.options : p.options[i].vote_weight <= w

\* A maximum that is not the supply itself is never below the votes cast.
CoerceMaxVoterWeight(p, max, kind) ==
  Greater(max, IF kind = "veto" THEN p.veto_vote_weight
               ELSE BestOptionWeight(p) + p.deny_vote_weight)

\* source is the community mint's source of the maximum; the council's maximum
\* is its supply.
MaxVoterWeightFromSupply(p, isCouncil, source, supply, kind, base) ==
  IF isCouncil \/ source = [kind |-> "fraction", value |-> base]
  THEN supply
  ELSE CoerceMaxVoterWeight(p,
         IF source.kind = "fraction" THEN (supply * source.value) \div base
                                     ELSE source.value, kind)

-----------------------------------------------------------------------------
(* Resolution *)

\* Mutant: votes against do not count.
PassesThreshold(option, deny, min) == option.vote_weight >= min

OptionPasses(option, deny, min) ==
  option.vote_weight >= min /\ option.vote_weight > deny

Passing(p, min) ==
  {i \in DOMAIN p.options : OptionPasses(p.options[i], p.deny_vote_weight, min)}

\* The options that passed with the highest weight.
Best(p, min) ==
  {i \in Passing(p, min) :
     \A j \in Passing(p, min) : p.options[j].vote_weight <= p.options[i].vote_weight}

\* A single choice has one winner or none.
Winners(p, min) ==
  IF p.vote_type # "SingleChoice" THEN Passing(p, min)
  ELSE IF Cardinality(Best(p, min)) = 1 THEN Best(p, min) ELSE {}

FinalVoteState(p, min) ==
  IF ~p.use_deny THEN "Completed"
  ELSE IF Winners(p, min) = {} THEN "Defeated" ELSE "Succeeded"

ResolveFinalVoteState(p, max, threshold) ==
  LET min == MinVoteThresholdWeight(threshold, max) IN
  [p EXCEPT
     !.state = FinalVoteState(p, min),
     !.options = [i \in DOMAIN p.options |-> [p.options[i] EXCEPT !.vote_result =
        IF i \in Winners(p, min) THEN "Succeeded" ELSE "Defeated"]]]

\* Only a yes/no question tips.
Tippable(p) ==
  p.vote_type = "SingleChoice" /\ p.use_deny /\ DOMAIN p.options = {1}

TipsYes(yes, deny, max, min, tipping) ==
  /\ yes >= min
  /\ \/ tipping = "Strict" /\ yes > Minus(max, yes)
     \/ tipping = "Early" /\ yes > deny

\* Mutant: one vote too early.
TipsNoEarly(deny, max, min, tipping) ==
  tipping # "Disabled" /\ deny >= Minus(max, min)

TipsNo(deny, max, min, tipping) ==
  /\ tipping # "Disabled"
  /\ \/ deny > Minus(max, min)
     \/ deny >= Minus(max, deny)

\* The state a vote tips into, "Voting" when it does not tip.
TippedState(p, max, threshold, tipping, kind) ==
  LET min == MinVoteThresholdWeight(threshold, max) IN
  IF kind = "veto"
  THEN IF p.veto_vote_weight >= min THEN "Vetoed" ELSE "Voting"
  ELSE IF ~Tippable(p) THEN "Voting"
  ELSE IF TipsYes(p.options[1].vote_weight, p.deny_vote_weight, max, min, tipping)
       THEN "Succeeded"
  ELSE IF TipsNo(p.deny_vote_weight, max, min, tipping)
       THEN "Defeated" ELSE "Voting"

\* A tip also sets the result of the only option; a veto sets none.
Tipped(p, state) ==
  IF state \in {"Succeeded", "Defeated"}
  THEN [p EXCEPT !.state = state, !.options[1].vote_result = state]
  ELSE [p EXCEPT !.state = state]

-----------------------------------------------------------------------------
(* Time limits and guards of a proposal *)

VotingBaseTimeEnd(p, config) == p.voting_at + config.voting_base_time
VotingMaxTimeEnd(p, config) ==
  VotingBaseTimeEnd(p, config) + config.voting_cool_off_time
VotingBaseTimeEnded(p, config, now) == VotingBaseTimeEnd(p, config) < now
VotingMaxTimeEnded(p, config, now) == VotingMaxTimeEnd(p, config) < now

\* In the cool off time only votes against are accepted.
CanCastVote(p, config, vote, now) ==
  /\ p.state = "Voting"
  /\ ~VotingMaxTimeEnded(p, config, now)
  /\ vote.kind = "approve" => ~VotingBaseTimeEnded(p, config, now)

\* Mutant: the comparison is turned around.
CanFinalizeEarly(p, config, now) ==
  p.state = "Voting" /\ ~VotingMaxTimeEnded(p, config, now)

CanFinalizeVote(p, config, now) ==
  p.state = "Voting" /\ VotingMaxTimeEnded(p, config, now)

CanCancel(p, config, now) ==
  \/ p.state \in {"Draft", "SigningOff"}
  \/ p.state = "Voting" /\ ~VotingMaxTimeEnded(p, config, now)

CanEditInstructions(p) == p.state = "Draft" /\ p.use_deny

\* The hold-up time counts from the end of the vote.
CanExecuteTransaction(p, i, config, now) ==
  /\ p.state \in {"Succeeded", "Executing"}
  /\ p.options[i].vote_result = "Succeeded"
  /\ p.voting_completed_at + config.transactions_hold_up_time < now

CanComplete(p) ==
  /\ p.state = "Succeeded"
  /\ \A i \in DOMAIN p.options : p.options[i].transactions_count = 0

CanRefundDeposit(p) == p.state \notin {"Draft", "SigningOff", "Voting"}

MaxOptions == 10

ValidOptions(n, type) ==
  n \in 1..MaxOptions /\ (type # "SingleChoice" => n > 1)

-----------------------------------------------------------------------------
(* Configuration of a governance *)

VoteThreshold(config, isCouncil, kind) ==
  IF kind = "veto"
  THEN IF isCouncil THEN config.council_veto_vote_threshold
                    ELSE config.community_veto_vote_threshold
  ELSE IF isCouncil THEN config.council_vote_threshold
                    ELSE config.community_vote_threshold

VoteTipping(config, isCouncil) ==
  IF isCouncil THEN config.council_vote_tipping ELSE config.community_vote_tipping

ValidGovernanceConfig(config) ==
  /\ {config.community_vote_threshold, config.community_veto_vote_threshold,
      config.council_vote_threshold, config.council_veto_vote_threshold}
       \subseteq Thresholds
  /\ \/ config.community_vote_threshold # Disabled
     \/ config.council_vote_threshold # Disabled
  /\ config.deposit_exempt_proposal_count # 255

\* In units of the security deposit.
ProposalDepositAmount(active, config) ==
  Minus(active, config.deposit_exempt_proposal_count)

=============================================================================
