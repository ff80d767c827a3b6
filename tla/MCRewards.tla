----------------------------- MODULE MCRewards -----------------------------
(* Constants for model checking Rewards on small instances. *)
EXTENDS Rewards

CONSTANT r1

Community1(type) ==
  [use_council_mint |-> FALSE,
   source |-> [kind |-> "fraction", value |-> SUPPLY_FRACTION_BASE],
   min_weight_to_create_governance |-> 1,
   tokens |-> [m \in GoverningMints |->
     [token_type |-> type, voter_weight_addin |-> FALSE, max_voter_weight_addin |-> FALSE]]]

EitherRealm == {Community1("Liquid"), Community1("Membership")}

\* One owner staked before the program's accounts existed.
OneStake == {[k \in {<<Community, 1>>} |-> 1]}

=============================================================================
