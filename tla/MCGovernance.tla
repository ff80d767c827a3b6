---------------------------- MODULE MCGovernance ----------------------------
(* Constants for model checking Governance on small instances. *)
EXTENDS Governance

\* Token configurations.
Liquid == [token_type |-> "Liquid", voter_weight_addin |-> FALSE,
           max_voter_weight_addin |-> FALSE]
Dormant == [Liquid EXCEPT !.token_type = "Dormant"]
Member == [Liquid EXCEPT !.token_type = "Membership"]
Plugged == [Liquid EXCEPT !.voter_weight_addin = TRUE, !.max_voter_weight_addin = TRUE]

FullSupply == [kind |-> "fraction", value |-> SUPPLY_FRACTION_BASE]
HalfSupply == [kind |-> "fraction", value |-> 1]
OneVote == [kind |-> "absolute", value |-> 1]

RealmArgs(council, source, communityToken, councilToken) ==
  [use_council_mint |-> council, source |-> source, min_weight_to_create_governance |-> 1,
   tokens |-> [m \in GoverningMints |-> IF m = Community THEN communityToken ELSE councilToken]]

CommunityRealm == {RealmArgs(FALSE, FullSupply, Liquid, Dormant)}
CouncilRealm == {RealmArgs(TRUE, FullSupply, Liquid, Dormant)}

\* Governance configurations.
BaseConfig ==
  [community_vote_threshold |-> 60, community_veto_vote_threshold |-> 50,
   council_vote_threshold |-> 50, council_veto_vote_threshold |-> 50,
   community_vote_tipping |-> "Strict", council_vote_tipping |-> "Early",
   min_community_weight_to_create_proposal |-> 1,
   min_council_weight_to_create_proposal |-> 1,
   voting_base_time |-> 0, voting_cool_off_time |-> 1, transactions_hold_up_time |-> 0,
   deposit_exempt_proposal_count |-> 1]
NoTipping == [BaseConfig EXCEPT !.community_vote_tipping = "Disabled",
                                   !.community_vote_threshold = 33]
Third == {[BaseConfig EXCEPT !.community_vote_threshold = 33]}

\* Proposals.
YesNo(m) == [mint |-> m, options |-> 1, vote_type |-> "SingleChoice", use_deny |-> TRUE]
Multi(m, type) == [YesNo(m) EXCEPT !.options = 2, !.vote_type = type]
Survey(m) == [Multi(m, "FullWeight") EXCEPT !.use_deny = FALSE]

CommunityYesNo == {YesNo(Community)}
BothYesNo == {YesNo(Community), YesNo(Council)}
MultiChoice == {Multi(Community, "SingleChoice"), Multi(Community, "FullWeight"),
                Multi(Community, "Weighted"), Survey(Community)}

CommunityProposals == CommunityYesNo \cup MultiChoice

\* Deposits.
TwoCommunity == {[k \in {Community} \X Owners |-> IF k[2] = 1 THEN 2 ELSE 1]}

TwoChambers ==
  {[k \in {<<Community, 1>>, <<Community, 2>>, <<Council, 1>>} |-> 1]}

\* Votes.
NoChoices == << >>
Approve(choices) == [kind |-> "approve", choices |-> choices]
Deny == [kind |-> "deny", choices |-> NoChoices]
Veto == [kind |-> "veto", choices |-> NoChoices]
YesVotes == {Approve(<<100>>)}
YesNoVotes == {Approve(<<100>>), Deny}
VetoVotes == YesNoVotes \cup {Veto}
MultiVotes == {Approve(<<100>>), Approve(<<100, 0>>), Approve(<<0, 100>>), Approve(<<100, 100>>),
               Approve(<<67, 33>>), Deny}

\* Administration: a realm of members that may open to tokens weighed by plugins.
MemberRealm == {RealmArgs(FALSE, HalfSupply, Member, Dormant)}
PluggedRealm == RealmArgs(FALSE, OneVote, Plugged, Dormant)
PluggedConfig == {PluggedRealm}
OneMember == {[k \in {<<Community, 1>>} |-> 1]}
Paid == {[BaseConfig EXCEPT !.deposit_exempt_proposal_count = 0, !.voting_cool_off_time = 0]}

\* Instructions.
External == [kind |-> "external"]
Reconfigure == [kind |-> "SetGovernanceConfig", config |-> NoTipping]
VoteInstructions == {External, Reconfigure}
AdminInstructions ==
  {[kind |-> "SetRealmConfig", args |-> PluggedRealm]}
     \cup [kind : {"AddRequiredSignatory", "RemoveRequiredSignatory"}, signatory : Signatories]

=============================================================================
