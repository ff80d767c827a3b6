----------------------------- MODULE Referendum -----------------------------
(***************************************************************************)
(* What a governance promises for each of its proposals.  While it is in   *)
(* preparation its agenda is drawn up.  While it is open each voter of its *)
(* electorate has at most one ballot.  The agenda is then fixed, and after *)
(* the decision the ballots are too.  An item of the agenda is carried out *)
(* at most once, and only after the proposal was adopted with more weight  *)
(* for the option the item belongs to than against the proposal.           *)
(***************************************************************************)
EXTENDS Integers, Sums

CONSTANTS
  Proposals,
  Options,      \* options a proposal may have
  NVoters,
  NoBallot      \* stands for the ballot of a voter who has none

VARIABLES
  phase,        \* "preparation", "open", "adopted" or "closed"
  agenda,       \* items <<option, index>> to carry out
  ballots,      \* ballot of each voter: [approve : option -> weight, deny : weight]
  done          \* items carried out

refVars == <<phase, agenda, ballots, done>>

Voters == 1..NVoters

-----------------------------------------------------------------------------

Approval(ballot, i) ==
  Total([v \in Voters |-> IF ballot[v] = NoBallot THEN 0 ELSE ballot[v].approve[i]], NVoters)

Rejection(ballot) ==
  Total([v \in Voters |-> IF ballot[v] = NoBallot THEN 0 ELSE ballot[v].deny], NVoters)

Prevails(ballot, i) == Approval(ballot, i) > Rejection(ballot)

-----------------------------------------------------------------------------

Init ==
  /\ phase = [p \in Proposals |-> "preparation"]
  /\ agenda = [p \in Proposals |-> {}]
  /\ ballots = [p \in Proposals |-> [v \in Voters |-> NoBallot]]
  /\ done = [p \in Proposals |-> {}]

Others(p) ==
  \A q \in Proposals \ {p} :
    /\ phase'[q] = phase[q] /\ agenda'[q] = agenda[q]
    /\ ballots'[q] = ballots[q] /\ done'[q] = done[q]

\* One item is put on the agenda or taken off it.
Prepare(p) ==
  /\ phase[p] = "preparation"
  /\ \E x \in agenda[p] \cup agenda'[p] : agenda'[p] \in {agenda[p] \cup {x}, agenda[p] \ {x}}
  /\ phase'[p] = phase[p] /\ ballots'[p] = ballots[p] /\ done'[p] = done[p]

Open(p) ==
  /\ phase[p] = "preparation"
  /\ phase'[p] = "open"
  /\ agenda'[p] = agenda[p] /\ ballots'[p] = ballots[p] /\ done'[p] = done[p]

\* A voter without a ballot casts one or a voter takes the ballot back; a ballot
\* may decide the proposal.
Ballot(p) ==
  /\ phase[p] = "open"
  /\ \E v \in Voters :
       /\ \A w \in Voters \ {v} : ballots'[p][w] = ballots[p][w]
       /\ ballots[p][v] = NoBallot \/ ballots'[p][v] = NoBallot

Keep(p) == ballots'[p] = ballots[p]

\* Adoption needs an option that prevails over the votes against.
Decide(p) ==
  \/ phase'[p] = "open"
  \/ phase'[p] = "adopted" /\ \E i \in Options : Prevails(ballots'[p], i)
  \/ phase'[p] = "closed"

Vote(p) ==
  /\ phase[p] = "open"
  /\ Ballot(p) \/ Keep(p)
  /\ Decide(p)
  /\ agenda'[p] = agenda[p] /\ done'[p] = done[p]

Withdraw(p) ==
  /\ phase[p] = "preparation" /\ phase'[p] = "closed"
  /\ agenda'[p] = agenda[p] /\ Keep(p) /\ done'[p] = done[p]

CarryOut(p) ==
  /\ phase[p] = "adopted" /\ phase'[p] = "adopted"
  /\ \E x \in agenda[p] \ done[p] :
       /\ Prevails(ballots[p], x[1])
       /\ done'[p] = done[p] \cup {x}
  /\ agenda'[p] = agenda[p] /\ Keep(p)

Next ==
  \E p \in Proposals :
    /\ Prepare(p) \/ Open(p) \/ Vote(p) \/ Withdraw(p) \/ CarryOut(p)
    /\ Others(p)

Spec == Init /\ [][Next]_refVars

=============================================================================
