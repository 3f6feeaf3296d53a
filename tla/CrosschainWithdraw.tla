------------------------- MODULE CrosschainWithdraw -------------------------
(***************************************************************************)
(* The crosschain gateway of one asset: deposits, and the life of a        *)
(* withdrawal through crosschain_trx_object (crosschain_record_evaluate,   *)
(* eth_seri_record_evaluate, wallfacer_refund_balance_evaluator,           *)
(* db_crosschain_trx).                                                     *)
(*                                                                         *)
(* A user's withdraw transaction is batched by a miner into a without_sign *)
(* transaction, signed by wallfacers, combined by a miner, (for ETH and    *)
(* ERC assets) finally signed by one wallfacer, executed by the other      *)
(* chain, seen by the record plugin and confirmed by a miner's result.     *)
(* Wallfacers can refund, cancel or pass it on the way.  A miner makes its *)
(* transactions right before it generates a block, so they apply to the    *)
(* state they were made from; what a wallet makes is applied later, to     *)
(* whatever state it then meets.                                           *)
(*                                                                         *)
(* The objects that a batch relates (by_relate_trx_id) are its sign, its   *)
(* combine and its final objects.                                          *)
(***************************************************************************)
EXTENDS Naturals, Sequences, FiniteSets, FiniteSetsExt

CONSTANTS Accounts, Withdraws, Deposits, Owner, Amount, InitialBalance,
          Wallfacers,   \* the wallfacers that sign for the multisig account
          FeePool,      \* asset_dynamic_data_object::fee_pool, per withdrawal
          NetFee,       \* what the other chain charges for a batch
          MaxTargets,   \* most withdrawals a miner puts into one batch
          MaxBatches,   \* bound: without_sign transactions
          MaxFinals     \* bound: final signatures in flight or applied, per batch

ASSUME GatewayAssumption ==
    /\ IsFiniteSet(Accounts) /\ IsFiniteSet(Withdraws) /\ IsFiniteSet(Wallfacers)
    /\ Withdraws \cap Deposits = {}
    /\ Deposits \cap (1..MaxBatches) = {}
    /\ Owner \in [Withdraws \cup Deposits -> Accounts]
    /\ Amount \in [Withdraws \cup Deposits -> Nat]
    /\ InitialBalance \in [Accounts -> Nat]
    /\ FeePool \in Nat /\ NetFee \in Nat /\ NetFee <= FeePool
    /\ \A w \in Withdraws: Amount[w] >= FeePool     \* withdraw_limition
    /\ MaxTargets \in Nat \ {0} /\ MaxBatches \in Nat /\ MaxFinals \in Nat

VARIABLES
    ethlike,    \* the asset is ETH or an ERC token; fixed at the start
    balance,    \* balance of each account
    supply,     \* asset_dynamic_data_object::current_supply
    collected,  \* _total_collected_fees of the asset
    user,       \* trx_state of the user's object of each withdrawal
    batch,      \* the without_sign object of each batch
    sign,       \* trx_state of each wallfacer's sign object, per batch
    combine,    \* trx_state of the combine object, per batch
    finals,     \* final objects of a batch: sign_final and change_signer
    aged,       \* which of these are in a block more than 720 blocks old
    flight,     \* final signatures made by the wallet and not yet applied
    acquired,   \* acquired_transaction_state of transactions of the other chain
    chain       \* what the other chain did with the transaction of a batch

ledger == <<balance, supply, collected>>
signing == <<combine, finals, aged, flight>>
vars == <<ethlike, ledger, user, batch, sign, signing, acquired, chain>>

Batches == 1..MaxBatches

(* transaction_stata; "absent" where there is no object.                   *)
TrxState == {"uncreate", "without_sign", "sign", "combine", "confirm",
             "canceled", "need_sign", "eth_sign"}
AcquiredState == {"absent", "uncreate", "create", "comfirmed", "failure"}
FinalObject == [op: {"sign_final", "change_signer"}, state: TrxState]

NoBatch == [state |-> "absent", ids |-> {}, fee |-> 0]

TypeOK ==
    /\ ethlike \in BOOLEAN
    /\ balance \in [Accounts -> Nat] /\ supply \in Nat /\ collected \in Nat
    /\ user \in [Withdraws -> TrxState \cup {"absent"}]
    /\ batch \in [Batches -> [state: TrxState \cup {"absent"},
                              ids: SUBSET Withdraws, fee: Nat]]
    /\ sign \in [Batches -> [Wallfacers -> TrxState \cup {"absent"}]]
    /\ combine \in [Batches -> TrxState \cup {"absent"}]
    /\ finals \in [Batches -> Seq(FinalObject)]
    /\ aged \in [Batches -> [signs: BOOLEAN, combine: BOOLEAN, finals: Nat]]
    /\ flight \in [Batches -> Nat]
    /\ acquired \in [Batches \cup Deposits -> AcquiredState]
    /\ chain \in [Batches -> {"none", "sent", "success", "failed"}]

Sum(S) == MapThenSumSet(LAMBDA t: Amount[t], S)
Total(f, S) == MapThenSumSet(LAMBDA t: f[t], S)
AmountOf(S, a) == Sum({t \in S: Owner[t] = a})

Init ==
    /\ ethlike \in BOOLEAN
    /\ balance = InitialBalance
    /\ supply = Total(InitialBalance, Accounts)
    /\ collected = 0
    /\ user = [w \in Withdraws |-> "absent"]
    /\ batch = [b \in Batches |-> NoBatch]
    /\ sign = [b \in Batches |-> [g \in Wallfacers |-> "absent"]]
    /\ combine = [b \in Batches |-> "absent"]
    /\ finals = [b \in Batches |-> <<>>]
    /\ aged = [b \in Batches |-> [signs |-> FALSE, combine |-> FALSE, finals |-> 0]]
    /\ flight = [b \in Batches |-> 0]
    /\ acquired = [x \in Batches \cup Deposits |-> "absent"]
    /\ chain = [b \in Batches |-> "none"]

-----------------------------------------------------------------------------
(* Helpers.                                                                *)

Users(b) == batch[b].ids

SetUsers(S, state) == user' = [w \in Withdraws |->
                                 IF w \in S THEN state ELSE user[w]]
SetBatch(b, state) == batch' = [batch EXCEPT ![b].state = state]

(* The objects of by_relate_trx_id of batch b whose state is in From get   *)
(* the state to.                                                           *)
RelateSigns(b, From, to) ==
    sign' = [sign EXCEPT ![b] = [g \in Wallfacers |->
               IF sign[b][g] \in From THEN to ELSE sign[b][g]]]
RelateFinals(b, From, to) ==
    finals' = [finals EXCEPT ![b] = [i \in DOMAIN finals[b] |->
                 IF finals[b][i].state \in From
                   THEN [finals[b][i] EXCEPT !.state = to] ELSE finals[b][i]]]
RelateCombine(b, From, to) ==
    combine' = [combine EXCEPT ![b] = IF @ \in From THEN to ELSE @]

(* The states of the objects of by_relate_trx_id of batch b.               *)
Related(b) == ({sign[b][g]: g \in Wallfacers} \cup {combine[b]}
               \cup {finals[b][i].state: i \in DOMAIN finals[b]}) \ {"absent"}

\* Mutant of Quorum: the + 1 is missing.
Mutant_Quorum == (Cardinality(Wallfacers) * 2) \div 3

(* get_wallfacer_members().size() * 2 / 3 + 1                              *)
Quorum == (Cardinality(Wallfacers) * 2) \div 3 + 1

\* Mutant of CancelBatch: the fee of the batch stays in current_supply.
Mutant_CancelBatch(b) ==
    /\ RelateSigns(b, TrxState, "canceled")
    /\ RelateCombine(b, TrxState, "canceled")
    /\ RelateFinals(b, TrxState, "canceled")
    /\ SetUsers(Users(b), "canceled")
    /\ SetBatch(b, "canceled")
    /\ balance' = [a \in Accounts |-> balance[a] + AmountOf(Users(b), a)]
    /\ supply' = supply + Sum(Users(b))
    /\ UNCHANGED <<collected, aged, flight, acquired, chain>>

(* The undo of a batch that every cancelling evaluator performs: all       *)
(* objects canceled, every user repaid, the kept fee taken out of supply.  *)
CancelBatch(b) ==
    /\ RelateSigns(b, TrxState, "canceled")
    /\ RelateCombine(b, TrxState, "canceled")
    /\ RelateFinals(b, TrxState, "canceled")
    /\ SetUsers(Users(b), "canceled")
    /\ SetBatch(b, "canceled")
    /\ balance' = [a \in Accounts |-> balance[a] + AmountOf(Users(b), a)]
    /\ supply' = supply + Sum(Users(b)) - batch[b].fee
    /\ UNCHANGED <<collected, aged, flight, acquired, chain>>

-----------------------------------------------------------------------------
(* Deposits.                                                               *)

(* The record plugin sees a deposit, or a withdrawal that the other chain  *)
(* executed, unless it already knows the transaction.                      *)
AcquireRecord(x) ==
    /\ acquired[x] = "absent"
    /\ x \in Batches => chain[x] = "success"
    /\ acquired' = [acquired EXCEPT ![x] = "uncreate"]
    /\ UNCHANGED <<ledger, user, batch, sign, signing, chain>>

(* A miner turns a recorded deposit into a crosschain_record transaction.  *)
DepositRecord(d) ==
    /\ acquired[d] = "uncreate"
    /\ acquired' = [acquired EXCEPT ![d] = "create"]
    /\ balance' = [balance EXCEPT ![Owner[d]] = @ + Amount[d]]
    /\ supply' = supply + Amount[d]
    /\ UNCHANGED <<collected, user, batch, sign, signing, chain>>

(* The evaluator refuses it (the asset is closed for deposits, the         *)
(* multisig address expired): the miner marks the record as failed, inside *)
(* the session of pending transactions...                                  *)
DepositRefused(d) ==
    /\ acquired[d] = "uncreate"
    /\ acquired' = [acquired EXCEPT ![d] = "failure"]
    /\ UNCHANGED <<ledger, user, batch, sign, signing, chain>>

(* ... which the next block undoes, so that the deposit is tried again.    *)
PendingReset ==
    /\ \E d \in Deposits: acquired[d] = "failure"
    /\ acquired' = [x \in DOMAIN acquired |->
                      IF acquired[x] = "failure" THEN "uncreate" ELSE acquired[x]]
    /\ UNCHANGED <<ledger, user, batch, sign, signing, chain>>

-----------------------------------------------------------------------------
(* The way of a withdrawal.                                                *)

\* Mutant of Withdraw: the balance may go below zero.
Mutant_Withdraw(w) ==
    /\ user[w] = "absent"
    /\ balance' = [balance EXCEPT ![Owner[w]] = @ - Amount[w]]
    /\ supply' = supply - Amount[w]
    /\ user' = [user EXCEPT ![w] = "uncreate"]
    /\ UNCHANGED <<collected, batch, sign, signing, acquired, chain>>

Withdraw(w) ==
    /\ user[w] = "absent"
    /\ balance[Owner[w]] >= Amount[w]
    /\ balance' = [balance EXCEPT ![Owner[w]] = @ - Amount[w]]
    /\ supply' = supply - Amount[w]
    /\ user' = [user EXCEPT ![w] = "uncreate"]
    /\ UNCHANGED <<collected, batch, sign, signing, acquired, chain>>

\* Mutant of InProgress: a combined batch counts as done.
Mutant_InProgress(b) == batch[b].state = "without_sign"

(* asset_set of create_result_transaction: the asset has a batch on its    *)
(* way.                                                                    *)
InProgress(b) ==
    \/ batch[b].state = "without_sign"
    \/ \E g \in Wallfacers: sign[b][g] = "combine"
    \/ combine[b] \in {"combine", "need_sign", "eth_sign"}

(* create_result_transaction: what a miner batches of the withdrawals that *)
(* wait, as many as fit.                                                   *)
Batched(S) ==
    LET waiting == {w \in Withdraws: user[w] = "uncreate"}
    IN /\ S # {} /\ S \subseteq waiting
       /\ Cardinality(S) = Min({MaxTargets, Cardinality(waiting)})

(* The without_sign transaction of the batch is applied.                   *)
WithoutSign(b, S) ==
    /\ ~ \E c \in Batches: InProgress(c)
    /\ batch[b].state = "absent"
    /\ \A c \in 1..(b - 1): batch[c].state # "absent"
    /\ Batched(S)
    /\ LET fee == Cardinality(S) * FeePool - NetFee
       IN /\ batch' = [batch EXCEPT ![b] =
                         [state |-> "without_sign", ids |-> S, fee |-> fee]]
          /\ supply' = supply + fee
    /\ SetUsers(S, "without_sign")
    /\ UNCHANGED <<balance, collected, sign, signing, acquired, chain>>

(* The evaluator of a wallfacer's signature looks at the objects related   *)
(* to the batch, not at the batch.                                         *)
MaySign(b, g) ==
    /\ batch[b].state # "absent"
    /\ Related(b) \subseteq {"without_sign", "sign"}
    /\ sign[b][g] = "absent"

WithSign(b, g) ==
    /\ MaySign(b, g)
    /\ sign' = [sign EXCEPT ![b][g] = "sign"]
    /\ UNCHANGED <<ledger, user, batch, signing, acquired, chain>>

(* combine_sign_transaction: a miner finds enough signatures.              *)
Combinable(b) ==
    /\ Cardinality({g \in Wallfacers: sign[b][g] = "sign"}) >= Quorum
    /\ batch[b].state = "without_sign"

(* What the evaluator asks of the users' objects.                          *)
UsersWait(b) == \A w \in Users(b): user[w] = "without_sign"

(* The combined transaction is applied and, unless ETH, broadcast.         *)
CombineSign(b) ==
    /\ Combinable(b)
    /\ UsersWait(b)
    /\ LET st == IF ethlike THEN "need_sign" ELSE "combine"
       IN /\ SetBatch(b, st) /\ SetUsers(Users(b), st)
          /\ RelateSigns(b, {"sign"}, st)
          /\ combine' = [combine EXCEPT ![b] = st]
    /\ aged' = [aged EXCEPT ![b].combine = FALSE]
    /\ chain' = [chain EXCEPT ![b] = IF ethlike THEN @ ELSE "sent"]
    /\ UNCHANGED <<ledger, finals, flight, acquired>>

(* The signer's wallet makes a final signature for a combined transaction  *)
(* that needs one; nothing stops it from making another before the first   *)
(* is in a block.                                                          *)
WalletSignFinal(b) ==
    /\ combine[b] = "need_sign"
    /\ flight[b] + Len(finals[b]) < MaxFinals
    /\ flight' = [flight EXCEPT ![b] = @ + 1]
    /\ UNCHANGED <<ledger, user, batch, sign, combine, finals, aged, acquired, chain>>

(* What adjust_crosschain_transaction does for a final signature.          *)
ApplyFinal(b, op) ==
    /\ combine' = [combine EXCEPT ![b] = "eth_sign"]
    /\ SetBatch(b, "eth_sign") /\ SetUsers(Users(b), "eth_sign")
    /\ RelateSigns(b, {"need_sign"}, "eth_sign")
    /\ finals' = [finals EXCEPT ![b] =
                    Append(@, [op |-> op, state |-> "eth_sign"])]
    /\ chain' = [chain EXCEPT ![b] = IF @ = "none" THEN "sent" ELSE @]
    /\ UNCHANGED <<ledger, aged, acquired>>

(* A final signature is applied, in whatever state its combine object is.  *)
SignFinal(b) ==
    /\ flight[b] > 0 /\ combine[b] # "absent"
    /\ flight' = [flight EXCEPT ![b] = @ - 1]
    /\ ApplyFinal(b, "sign_final")

ChangeSigner(b) ==
    /\ combine[b] = "need_sign"
    /\ flight[b] + Len(finals[b]) < MaxFinals
    /\ ApplyFinal(b, "change_signer")
    /\ UNCHANGED flight

(* The other chain executes the transaction, or it fails (ETH) or is       *)
(* dropped for good.                                                       *)
ChainExecutes(b) ==
    /\ chain[b] = "sent"
    /\ \E r \in {"success", "failed"}: chain' = [chain EXCEPT ![b] = r]
    /\ UNCHANGED <<ledger, user, batch, sign, signing, acquired>>

(* The evaluator of a result finds the combine object by its               *)
(* crosschain_trx_id.                                                      *)
ResultAccepted(b) ==
    /\ combine[b] # "absent"
    /\ ethlike => combine[b] = "eth_sign"

\* Mutant of WithdrawResult: a result is only taken in the combined state,
\* which an ETH batch has left when its transaction is executed.
Mutant_WithdrawResult(b) ==
    /\ acquired[b] = "uncreate"
    /\ combine[b] = "combine"
    /\ acquired' = [acquired EXCEPT ![b] = "comfirmed"]
    /\ SetBatch(b, "confirm") /\ SetUsers(Users(b), "confirm")
    /\ RelateSigns(b, {"combine", "eth_sign"}, "confirm")
    /\ RelateCombine(b, {"combine", "eth_sign"}, "confirm")
    /\ RelateFinals(b, {"combine", "eth_sign"}, "confirm")
    /\ collected' = collected + batch[b].fee
    /\ UNCHANGED <<balance, supply, aged, flight, chain>>

(* A miner reports a recorded transaction of the hot account.              *)
WithdrawResult(b) ==
    /\ acquired[b] = "uncreate"
    /\ ResultAccepted(b)
    /\ acquired' = [acquired EXCEPT ![b] = "comfirmed"]
    /\ SetBatch(b, "confirm") /\ SetUsers(Users(b), "confirm")
    /\ RelateSigns(b, {"combine", "eth_sign"}, "confirm")
    /\ RelateCombine(b, {"combine", "eth_sign"}, "confirm")
    /\ RelateFinals(b, {"combine", "eth_sign"}, "confirm")
    /\ collected' = collected + batch[b].fee
    /\ UNCHANGED <<balance, supply, aged, flight, chain>>

-----------------------------------------------------------------------------
(* What wallfacers can do when a withdrawal is stuck.                      *)

\* Mutant of Blocks720: a final signature never expires.
Mutant_Blocks720 ==
    /\ aged' = [b \in Batches |->
                  [signs |-> \E g \in Wallfacers: sign[b][g] # "absent",
                   combine |-> combine[b] # "absent",
                   finals |-> Len(finals[b])]]
    /\ UNCHANGED <<ledger, user, batch, sign, combine, finals, flight, acquired, chain>>

(* 720 blocks pass.  A wallet's transaction expires after 600 seconds, so  *)
(* what was in flight then is gone; a wallet only signs finally what still *)
(* needs it.                                                               *)
Blocks720 ==
    /\ aged' = [b \in Batches |->
                  [signs |-> \E g \in Wallfacers: sign[b][g] # "absent",
                   combine |-> combine[b] # "absent",
                   finals |-> Len(finals[b])]]
    /\ flight' = [b \in Batches |-> 0]
    /\ UNCHANGED <<ledger, user, batch, sign, combine, finals, acquired, chain>>

(* wallfacer_refund_balance: a withdrawal no miner has batched yet.        *)
RefundBalance(w) ==
    /\ user[w] = "uncreate"
    /\ balance' = [balance EXCEPT ![Owner[w]] = @ + Amount[w]]
    /\ supply' = supply + Amount[w]
    /\ user' = [user EXCEPT ![w] = "canceled"]
    /\ UNCHANGED <<collected, batch, sign, signing, acquired, chain>>

(* wallfacer_refund_crosschain_trx: a batch with not enough signatures.    *)
RefundCrosschainTrx(b) ==
    /\ batch[b].state = "without_sign"
    /\ CancelBatch(b)

(* wallfacer_cancel_combine_trx.  The evaluator asks for the state and the *)
(* age of the object fail_trx_id names, which may be a sign object; that   *)
(* the transaction really failed is what the wallfacer knows of the other  *)
(* chain.                                                                  *)
CancelCombineTrx(b) ==
    /\ \/ combine[b] = "combine" /\ aged[b].combine
       \/ (\E g \in Wallfacers: sign[b][g] = "combine") /\ aged[b].signs
    /\ chain[b] = "failed"
    /\ CancelBatch(b)

(* wallfacer_pass_success_trx: a transaction that did succeed.             *)
PassSuccessTrx(b) ==
    /\ combine[b] = "combine"
    /\ chain[b] = "success"
    /\ SetBatch(b, "confirm") /\ SetUsers(Users(b), "confirm")
    /\ RelateSigns(b, TrxState, "confirm")
    /\ RelateCombine(b, TrxState, "confirm")
    /\ RelateFinals(b, TrxState, "confirm")
    /\ UNCHANGED <<ledger, aged, flight, acquired, chain>>

\* Mutant of EthCancelUnsigned: the users' objects stay where they were.
Mutant_EthCancelUnsigned(b) ==
    /\ combine[b] = "need_sign" /\ aged[b].combine
    /\ RelateSigns(b, TrxState, "sign")
    /\ RelateFinals(b, TrxState, "sign")
    /\ SetBatch(b, "without_sign")
    /\ combine' = [combine EXCEPT ![b] = "absent"]
    /\ flight' = [flight EXCEPT ![b] = 0]
    /\ UNCHANGED <<ledger, user, aged, acquired, chain>>

(* eths_cancel_unsigned_transaction: back to collecting signatures.  Final *)
(* signatures in flight name the removed combine object.                   *)
EthCancelUnsigned(b) ==
    /\ combine[b] = "need_sign" /\ aged[b].combine
    /\ RelateSigns(b, TrxState, "sign")
    /\ RelateFinals(b, TrxState, "sign")
    /\ SetUsers(Users(b), "without_sign")
    /\ SetBatch(b, "without_sign")
    /\ combine' = [combine EXCEPT ![b] = "absent"]
    /\ flight' = [flight EXCEPT ![b] = 0]
    /\ UNCHANGED <<ledger, aged, acquired, chain>>

(* eth_cancel_fail_crosschain_trx: names a sign_final object; the ETH      *)
(* transaction is queried and must have failed.                            *)
EthCancelFail(b) ==
    /\ \E i \in 1..aged[b].finals:
          finals[b][i] = [op |-> "sign_final", state |-> "eth_sign"]
    /\ chain[b] = "failed"
    /\ CancelBatch(b)

(* wallfacer_change_acquire_trx: lets a result be reported again.          *)
ChangeAcquireTrx(b) ==
    /\ \E i \in 1..aged[b].finals:
          finals[b][i] = [op |-> "sign_final", state |-> "eth_sign"]
    /\ acquired[b] # "absent"
    /\ acquired' = [acquired EXCEPT ![b] = "uncreate"]
    /\ UNCHANGED <<ledger, user, batch, sign, signing, chain>>

-----------------------------------------------------------------------------
Step ==
    \/ \E w \in Withdraws: Withdraw(w) \/ RefundBalance(w)
    \/ \E d \in Deposits: DepositRecord(d) \/ DepositRefused(d)
    \/ \E x \in Batches \cup Deposits: AcquireRecord(x)
    \/ \E b \in Batches:
        \/ \E S \in SUBSET Withdraws: WithoutSign(b, S)
        \/ \E g \in Wallfacers: WithSign(b, g)
        \/ CombineSign(b)
        \/ WalletSignFinal(b)
        \/ SignFinal(b)
        \/ ChangeSigner(b)
        \/ ChainExecutes(b)
        \/ WithdrawResult(b)
        \/ RefundCrosschainTrx(b)
        \/ CancelCombineTrx(b)
        \/ PassSuccessTrx(b)
        \/ EthCancelUnsigned(b)
        \/ EthCancelFail(b)
        \/ ChangeAcquireTrx(b)
    \/ PendingReset
    \/ Blocks720

Next == Step /\ UNCHANGED ethlike

(* The plugin polls and every scheduled miner reports what it finds.       *)
Fairness == \A b \in Batches:
    /\ WF_vars(AcquireRecord(b) /\ UNCHANGED ethlike)
    /\ WF_vars(WithdrawResult(b) /\ UNCHANGED ethlike)

Spec == Init /\ [][Next]_vars /\ Fairness

-----------------------------------------------------------------------------
(* Properties.                                                             *)

(* How far each transfer is, as a user sees it from both chains.           *)
Status == [t \in Withdraws \cup Deposits |->
    IF t \in Deposits
      THEN IF acquired[t] = "create" THEN "credited" ELSE "none"
      ELSE IF user[t] = "absent" THEN "none"
      ELSE IF user[t] = "canceled" THEN "refunded"
      ELSE IF \E b \in Batches: t \in Users(b) /\ chain[b] = "success"
           THEN "paid" ELSE "held"]

Escrow == INSTANCE CrosschainEscrow WITH status <- Status

(* Whatever signatures, results, cancels and retries meet, the gateway     *)
(* does to balances only what CrosschainEscrow allows: a withdrawal is     *)
(* paid on the other chain or refunded, never both, never twice, and a     *)
(* deposit is credited once.                                               *)
ImplementsEscrow == Escrow!Spec

(* What the batches in B put into current_supply.                          *)
Fees(B) == Total([b \in Batches |-> batch[b].fee], B)

(* Every unit of current_supply is in a balance, in the collected fees, or *)
(* is the fee of a batch that is neither canceled nor reported: each of    *)
(* the evaluators that create, confirm, refund or cancel keeps supply and  *)
(* balances together.  (The fee of an ETH withdrawal that is reported      *)
(* again after wallfacer_change_acquire_trx is collected again.)           *)
SupplyBacked == ~ethlike =>
    supply = Total(balance, Accounts) + collected
             + Fees({b \in Batches: /\ batch[b].state # "canceled"
                                    /\ acquired[b] # "comfirmed"})

(* The user's objects of a batch follow the without_sign object through    *)
(* every evaluator, and no withdrawal is in two batches.                   *)
BatchAgrees ==
    /\ \A b \in Batches: \A w \in Users(b): user[w] = batch[b].state
    /\ \A b, c \in Batches: b # c => Users(b) \cap Users(c) = {}

(* create_result_transaction keeps at most one batch of the asset on its   *)
(* way, so that two batches never spend the same coins of the hot account. *)
(* (A late final signature of an ETH batch opens it again.)                *)
OneInProgress == ~ethlike =>
    \A b, c \in Batches:
        {batch[b].state, batch[c].state} \subseteq {"without_sign", "combine"}
            => b = c

(* What has been sent to the other chain carries the signatures of more    *)
(* than two thirds of the wallfacers, however often the batch went back    *)
(* from the final signature to collecting signatures.                      *)
SignedByQuorum ==
    \A b \in Batches: chain[b] # "none" =>
        3 * Cardinality({g \in Wallfacers: sign[b][g] # "absent"})
          > 2 * Cardinality(Wallfacers)

(* A withdrawal that the other chain executed and no result has reported   *)
(* is eventually confirmed.  (A final signature applied after the result   *)
(* opens it again; then only wallfacer_change_acquire_trx helps.)          *)
Reported == \A b \in Batches:
    chain[b] = "success" /\ acquired[b] # "comfirmed"
        ~> batch[b].state = "confirm"
=============================================================================
