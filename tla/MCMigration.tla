----------------------------- MODULE MCMigration -----------------------------
(* Constants for model checking Migration on small instances. *)
EXTENDS Migration

CONSTANTS m1, m2

\* (mint, amount) vectors that name one or both of two mints.
BasketBatches == {[x \in {m1} |-> 1], [x \in {m1, m2} |-> 1]}
UnitBatch == {[x \in {m1} |-> 1]}

NoDaoFees == {[numerator |-> 0, floor |-> 0]}

\* A program is named once, or both are.
Names == {[p \in Programs |-> IF p = q THEN 1 ELSE 0] : q \in Programs}
           \cup {[p \in Programs |-> 1]}

=============================================================================
