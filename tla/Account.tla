------------------------------ MODULE Account ------------------------------
(* What a long-only backtest promises of its money, whatever the strategy,   *)
(* the prices and the volumes are: shares are bought with cash at hand, only *)
(* shares that are held are sold, and a finished account holds none.         *)
EXTENDS Integers

CONSTANTS
  Capital,      \* the money an account starts with
  Costs,        \* what one share can cost to buy, fees included
  Proceeds      \* what one share can bring when it is sold, fees deducted

VARIABLES
  money,        \* cash
  shares,       \* shares held
  open          \* TRUE until the account is finished

accountVars == <<money, shares, open>>

Init == money = Capital /\ shares = 0 /\ open = TRUE

Buy(number, cost) ==
  /\ number > 0 /\ number * cost <= money
  /\ money' = money - number * cost
  /\ shares' = shares + number

Sell(number, proceeds) ==
  /\ number > 0 /\ number <= shares
  /\ money' = money + number * proceeds
  /\ shares' = shares - number

Trade ==
  /\ open
  /\ \/ \E cost \in Costs : \E number \in 1 .. (money \div cost) : Buy(number, cost)
     \/ \E proceeds \in Proceeds : \E number \in 1 .. shares : Sell(number, proceeds)
  /\ UNCHANGED open

\* The last shares may be sold in the step that finishes the account.
Finish ==
  /\ open /\ open' = FALSE /\ shares' = 0
  /\ \/ shares = 0 /\ UNCHANGED money
     \/ \E proceeds \in Proceeds : Sell(shares, proceeds)

\* A further backtest starts with a new account, once this one is finished.
Reopen == ~open /\ money' = Capital /\ shares' = 0 /\ open' = TRUE

Next == Trade \/ Finish \/ Reopen

Spec == Init /\ [][Next]_accountVars
=============================================================================
