----------------------------- MODULE MCAuctions -----------------------------
(* Constants for model checking Auctions on small instances. *)
EXTENDS Auctions

CONSTANTS m1, m2, m3

NoDaoFees == {[numerator |-> 0, floor |-> 0]}

\* A basket of two tokens; a third one is only bought.
Start == [m \in {m1, m2} |-> IF m = m1 THEN 4 ELSE 2]
StartBasket == {Start}
\* ... and what a user deposits, of the third token too, which takes a fee.
StartAndDeposits == {Start, [m \in {m1, m2} |-> 1], [m \in {m3} |-> 3]}

Token(low, spot, high) ==
  [low |-> low, spot |-> spot, high |-> high, price_low |-> 4, price_high |-> 4]

TwoTokens == {[m \in {m1, m2} |-> Token(2, 4, 6)]}
ThreeTokens == {[m \in {m1, m2, m3} |-> Token(2, 4, 6)]}

\* The launcher's choices of limits and prices; one has its prices the wrong way round.
Launch(sell, buy, start, end) ==
  [sell_limit |-> sell, buy_limit |-> buy, start_price |-> start, end_price |-> end]
LauncherConfigs == {Launch(2, 6, 5, 4), Launch(4, 4, 4, 8)}

OneTokenBids == [sell_amount: {1}, max_buy_amount: {MaxU64}, extra: {0, 1}]
ExactBids == [sell_amount: {1}, max_buy_amount: {MaxU64}, extra: {0}]

\* An auction of another folio: it sells further than any limit of this one allows
\* and is filled sooner than this one's own.
OtherFolios ==
  {[sell |-> m1, buy |-> m2, sell_limit |-> 1, buy_limit |-> 5,
    start |-> 1, end |-> 2, start_price |-> 4, end_price |-> 4]}

Windows == {<<1, 2>>}

=============================================================================
