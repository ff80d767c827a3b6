------------------------------ MODULE MCFolio ------------------------------
(* Constants for model checking Folio on small instances. *)
EXTENDS Folio

CONSTANTS m1, m2

\* (mint, amount) vectors that name one or both of two mints.
SlotBatches == {[x \in {m1} |-> 2], [x \in {m1, m2} |-> 1]}
UnitBatch == {[x \in {m1} |-> 1]}
\* A token, and more of another one than can be deposited twice.
UnitAndLargeBatch == {[x \in {m1} |-> 1], [x \in {m2} |-> 3]}
OneBatch == {[x \in {m1} |-> 3]}

\* Fee details: the DAO takes nothing, or a ratio with a floor.
NoDaoFee == [numerator |-> 0, floor |-> 0]
DaoFee == [numerator |-> 3, floor |-> 2]
NoDaoFees == {NoDaoFee}
DaoFees == {NoDaoFee, DaoFee}

\* Arguments of update_folio that change nothing but what is named.
NoUpdate == [annual |-> NoFee, mint_fee |-> NoFee, add |-> NoTable,
             remove |-> {}, length |-> NoFee]

\* Two recipients with portions that do not divide evenly, then only the default
\* key; and a new fee.
AddTwo == [NoUpdate EXCEPT !.add = [r \in 1..2 |-> IF r = 1 THEN 4 ELSE 5]]
OnlyDefaultKey == [NoUpdate EXCEPT !.remove = {1, 2},
                                   !.add = [r \in {NoKey} |-> D18]]
NewFee == [NoUpdate EXCEPT !.annual = 3]

FeeUpdates == {AddTwo, OnlyDefaultKey, NewFee}
TwoRecipients == {AddTwo}

=============================================================================
