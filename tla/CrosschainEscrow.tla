-------------------------- MODULE CrosschainEscrow --------------------------
(***************************************************************************)
(* What the crosschain gateway promises its users, whatever wallfacers,    *)
(* miners and the other chain do in between: a withdrawal debits its       *)
(* account once, and then either is paid out on the other chain or comes   *)
(* back to the account, never both and never twice; a deposit is credited  *)
(* once.  CrosschainWithdraw is shown to implement this specification.     *)
(***************************************************************************)
EXTENDS Naturals, FiniteSets, FiniteSetsExt

CONSTANTS Accounts,     \* addresses that own balances of the asset
          Withdraws,    \* ids of crosschain_withdraw transactions
          Deposits,     \* ids of deposits on the other chain
          Owner,        \* the account of each withdrawal and deposit
          Amount,       \* the amount of each withdrawal and deposit
          InitialBalance

VARIABLES balance,      \* what each account owns on this chain
          status        \* how far each withdrawal or deposit has come

(* The sum of the amounts of the transfers in S that belong to account a.  *)
AmountOf(S, a) == MapThenSumSet(LAMBDA t: Amount[t], {t \in S: Owner[t] = a})

Init == /\ balance = InitialBalance
        /\ status = [t \in Withdraws \cup Deposits |-> "none"]

Debit(w) == /\ status[w] = "none"
            /\ balance[Owner[w]] >= Amount[w]
            /\ status' = [status EXCEPT ![w] = "held"]
            /\ balance' = [balance EXCEPT ![Owner[w]] = @ - Amount[w]]

(* One transaction of the other chain pays a whole set of withdrawals.     *)
PayOut(S) == /\ \A w \in S: status[w] = "held"
             /\ status' = [t \in DOMAIN status |->
                             IF t \in S THEN "paid" ELSE status[t]]
             /\ UNCHANGED balance

Refund(S) == /\ \A w \in S: status[w] = "held"
             /\ status' = [t \in DOMAIN status |->
                             IF t \in S THEN "refunded" ELSE status[t]]
             /\ balance' = [a \in Accounts |-> balance[a] + AmountOf(S, a)]

Credit(d) == /\ status[d] = "none"
             /\ status' = [status EXCEPT ![d] = "credited"]
             /\ balance' = [balance EXCEPT ![Owner[d]] = @ + Amount[d]]

Next == \/ \E w \in Withdraws: Debit(w)
        \/ \E S \in (SUBSET Withdraws) \ {{}}: PayOut(S) \/ Refund(S)
        \/ \E d \in Deposits: Credit(d)

Spec == Init /\ [][Next]_<<balance, status>>
=============================================================================
