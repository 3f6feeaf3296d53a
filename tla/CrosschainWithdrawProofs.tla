---------------------- MODULE CrosschainWithdrawProofs ----------------------
(***************************************************************************)
(* Theorems about CrosschainWithdraw, for any finite sets of accounts,     *)
(* withdrawals and wallfacers and any number of batches: type correctness, *)
(* agreement of a batch with its users' objects, one batch of a BTC-like   *)
(* asset at a time, signatures of a quorum on what is sent, backing of the *)
(* supply, and the implementation of CrosschainEscrow.                     *)
(*                                                                         *)
(* The inductive invariant says of every batch how the objects related to  *)
(* it, the transaction of the other chain and the record of the plugin go  *)
(* together (BatchInv), and of the ledger that it never loses a unit       *)
(* (LedgerInv).                                                            *)
(***************************************************************************)
EXTENDS CrosschainWithdraw, SumTheorems

(* The part of TypeOK that is about objects, and the part about amounts.   *)
ObjectTypes ==
    /\ ethlike \in BOOLEAN
    /\ user \in [Withdraws -> TrxState \cup {"absent"}]
    /\ batch \in [Batches -> [state: TrxState \cup {"absent"},
                              ids: SUBSET Withdraws, fee: Nat]]
    /\ sign \in [Batches -> [Wallfacers -> TrxState \cup {"absent"}]]
    /\ combine \in [Batches -> TrxState \cup {"absent"}]
    /\ finals \in [Batches -> Seq(FinalObject)]
    /\ aged \in [Batches -> [signs: BOOLEAN, combine: BOOLEAN, finals: Nat]]
    /\ flight \in [Batches -> Nat]
    /\ acquired \in [Batches \cup Deposits -> AcquiredState]
    /\ chain \in [Batches -> {"none", "sent", "success", "failed"}]

LedgerTypes == balance \in [Accounts -> Nat] /\ supply \in Nat /\ collected \in Nat

(* How the combine, sign and final objects of a batch follow the batch:    *)
(* the combine object has the state of the batch or is not there; a batch  *)
(* that has final objects never goes back to collecting signatures; once a *)
(* final object has aged, or the batch with its combine object is          *)
(* canceled, no final signature is on its way.                             *)
ObjectsAgree(b) ==
    /\ batch[b].state \in {"absent", "without_sign", "combine", "confirm",
                           "canceled", "need_sign", "eth_sign"}
    /\ batch[b].state = "absent" => batch[b] = NoBatch
    /\ batch[b].state # "absent" => batch[b].ids # {}
    /\ combine[b] \in {"absent", batch[b].state}
    /\ combine[b] = "absent" <=> \/ batch[b].state \in {"absent", "without_sign"}
                                 \/ batch[b].state = "canceled" /\ chain[b] = "none"
    /\ \A g \in Wallfacers: sign[b][g] = "combine" => batch[b].state = "combine"
    /\ finals[b] # <<>> => batch[b].state \in {"eth_sign", "confirm", "canceled"}
    /\ batch[b].state = "canceled" =>
         \A i \in DOMAIN finals[b]: finals[b][i].state = "canceled"
    /\ aged[b].finals <= Len(finals[b])
    /\ aged[b].finals > 0 => flight[b] = 0
    /\ batch[b].state = "canceled" => combine[b] = "absent" \/ flight[b] = 0
    /\ ethlike => batch[b].state # "combine"
    /\ ~ethlike => /\ batch[b].state \notin {"need_sign", "eth_sign"}
                   /\ finals[b] = <<>> /\ flight[b] = 0

(* How the state of a batch goes with what the other chain did.            *)
ChainAgrees(b) ==
    /\ batch[b].state \in {"absent", "without_sign", "need_sign"} => chain[b] = "none"
    /\ batch[b].state \in {"combine", "eth_sign"} => chain[b] # "none"
    /\ batch[b].state = "canceled" => chain[b] \in {"none", "failed"}
    /\ batch[b].state = "confirm" => chain[b] = "success"
    /\ acquired[b] \in {"absent", "uncreate", "comfirmed"}
    /\ acquired[b] # "absent" => chain[b] = "success"
    /\ ~ethlike /\ acquired[b] = "comfirmed" => batch[b].state = "confirm"

(* Who has signed at all: a combined or sent batch has a quorum of them.   *)
Signers(b) == {g \in Wallfacers: sign[b][g] # "absent"}
Signed(b) == combine[b] # "absent" \/ chain[b] # "none" =>
               Cardinality(Signers(b)) >= Quorum

BatchInv(b) == ObjectsAgree(b) /\ ChainAgrees(b) /\ Signed(b)

(* A withdrawal that is in no batch has not left the account's side.       *)
Unbatched == \A w \in Withdraws:
    user[w] \in {"absent", "uncreate", "canceled"} \/ \E b \in Batches: w \in Users(b)

ObjectInv == /\ ObjectTypes
             /\ BatchAgrees
             /\ \A b \in Batches: BatchInv(b)
             /\ Unbatched
             /\ OneInProgress

(* The supply is what the accounts own and the fees of the batches that    *)
(* were not canceled; for a BTC-like asset what was collected is the fees  *)
(* of the reported batches.                                                *)
FeeOf == [b \in Batches |-> batch[b].fee]
Outstanding == {b \in Batches: batch[b].state # "canceled"}
Confirmed == {b \in Batches: acquired[b] = "comfirmed"}

LedgerInv == /\ LedgerTypes
             /\ supply = SumOf(balance, Accounts) + SumOf(FeeOf, Outstanding)
             /\ ~ethlike => collected = SumOf(FeeOf, Confirmed)

USE GatewayAssumption DEF Batches

-----------------------------------------------------------------------------
(* Lemmas about the helpers.                                               *)

(* Nothing of batch c changes.                                             *)
Frame(c) == /\ ethlike' = ethlike
            /\ batch'[c] = batch[c] /\ sign'[c] = sign[c] /\ combine'[c] = combine[c]
            /\ finals'[c] = finals[c] /\ aged'[c] = aged[c] /\ flight'[c] = flight[c]
            /\ acquired'[c] = acquired[c] /\ chain'[c] = chain[c]

LEMMA FrameKeeps ==
    ASSUME NEW c \in Batches, BatchInv(c), Frame(c)
    PROVE  BatchInv(c)'
<1>1. ObjectsAgree(c)'
  BY DEF BatchInv, Frame, ObjectsAgree
<1>2. ChainAgrees(c)'
  BY DEF BatchInv, Frame, ChainAgrees
<1>3. Signed(c)'
  BY DEF BatchInv, Frame, Signed, Signers
<1> QED BY <1>1, <1>2, <1>3 DEF BatchInv

LEMMA StateOfRecord ==
    ASSUME NEW A, NEW B, NEW C, NEW r \in [state: A, ids: B, fee: C], NEW st \in A
    PROVE  [r EXCEPT !.state = st] \in [state: A, ids: B, fee: C]
  OBVIOUS

LEMMA CombineOfRecord ==
    ASSUME NEW A, NEW B, NEW C, NEW r \in [signs: A, combine: B, finals: C], NEW v \in B
    PROVE  [r EXCEPT !.combine = v] \in [signs: A, combine: B, finals: C]
  OBVIOUS

(* A batch and its users move together: SetBatch with SetUsers.            *)
LEMMA MoveTogether ==
    ASSUME ObjectInv, NEW b \in Batches, NEW st \in TrxState,
           SetBatch(b, st), SetUsers(Users(b), st)
    PROVE  /\ user' \in [Withdraws -> TrxState \cup {"absent"}]
           /\ batch' \in [Batches -> [state: TrxState \cup {"absent"},
                                      ids: SUBSET Withdraws, fee: Nat]]
           /\ BatchAgrees'
           /\ Unbatched'
           /\ \A c \in Batches: /\ batch'[c].state = IF c = b THEN st ELSE batch[c].state
                                /\ batch'[c].ids = batch[c].ids
                                /\ batch'[c].fee = batch[c].fee
                                /\ c # b => batch'[c] = batch[c]
<1> USE DEF ObjectInv, ObjectTypes, SetBatch, SetUsers, Users
<1>1. user' \in [Withdraws -> TrxState \cup {"absent"}]
  OBVIOUS
<1>2. batch' \in [Batches -> [state: TrxState \cup {"absent"},
                              ids: SUBSET Withdraws, fee: Nat]]
  <2>1. \A c \in Batches: batch'[c] = IF c = b THEN [batch[c] EXCEPT !.state = st] ELSE batch[c]
    OBVIOUS
  <2>2. [batch[b] EXCEPT !.state = st] \in [state: TrxState \cup {"absent"},
                                           ids: SUBSET Withdraws, fee: Nat]
    <3>1. batch[b] \in [state: TrxState \cup {"absent"}, ids: SUBSET Withdraws, fee: Nat]
      OBVIOUS
    <3>2. st \in TrxState \cup {"absent"}
      OBVIOUS
    <3> HIDE DEF ObjectInv, ObjectTypes, SetBatch, SetUsers, Users
    <3> QED BY <3>1, <3>2, StateOfRecord
  <2> QED BY <2>1, <2>2
<1>3. \A c \in Batches: /\ batch'[c].state = IF c = b THEN st ELSE batch[c].state
                        /\ batch'[c].ids = batch[c].ids
                        /\ batch'[c].fee = batch[c].fee
                        /\ c # b => batch'[c] = batch[c]
  OBVIOUS
<1>4. BatchAgrees'
  <2>1. ASSUME NEW c \in Batches, NEW w \in batch'[c].ids
        PROVE  user'[w] = batch'[c].state
    <3>1. w \in batch[c].ids /\ w \in Withdraws
      BY <2>1, <1>3
    <3>2. user[w] = batch[c].state
      BY <3>1 DEF BatchAgrees
    <3>3. CASE c = b
      BY <3>1, <3>3, <1>3
    <3>4. CASE c # b
      <4>1. w \notin batch[b].ids
        BY <3>1, <3>4 DEF BatchAgrees
      <4> QED BY <4>1, <3>1, <3>2, <3>4, <1>3
    <3> QED BY <3>3, <3>4
  <2>2. \A c, d \in Batches: c # d => batch'[c].ids \cap batch'[d].ids = {}
    BY <1>3 DEF BatchAgrees
  <2> QED BY <2>1, <2>2 DEF BatchAgrees
<1>5. Unbatched'
  <2> SUFFICES ASSUME NEW w \in Withdraws, ~ \E c \in Batches: w \in batch'[c].ids
               PROVE  user'[w] \in {"absent", "uncreate", "canceled"}
    BY DEF Unbatched
  <2>1. ~ \E c \in Batches: w \in batch[c].ids
    BY <1>3
  <2> QED BY <2>1 DEF Unbatched
<1> QED BY <1>1, <1>2, <1>3, <1>4, <1>5

(* RelateSigns with a state of an object keeps who has signed.             *)
LEMMA RelateSignsKeeps ==
    ASSUME ObjectTypes, NEW b \in Batches, NEW From \in SUBSET TrxState,
           NEW to \in TrxState, RelateSigns(b, From, to)
    PROVE  /\ sign' \in [Batches -> [Wallfacers -> TrxState \cup {"absent"}]]
           /\ \A c \in Batches: Signers(c)' = Signers(c)
           /\ \A c \in Batches: c # b => sign'[c] = sign[c]
           /\ \A g \in Wallfacers: sign'[b][g] = IF sign[b][g] \in From THEN to ELSE sign[b][g]
<1> USE DEF ObjectTypes, RelateSigns
<1>1. sign' \in [Batches -> [Wallfacers -> TrxState \cup {"absent"}]]
  OBVIOUS
<1>2. \A c \in Batches: c # b => sign'[c] = sign[c]
  OBVIOUS
<1>3. \A g \in Wallfacers: sign'[b][g] = IF sign[b][g] \in From THEN to ELSE sign[b][g]
  OBVIOUS
<1>4. \A c \in Batches: \A g \in Wallfacers: sign'[c][g] = "absent" <=> sign[c][g] = "absent"
  BY <1>2, <1>3 DEF TrxState
<1> QED BY <1>1, <1>2, <1>3, <1>4 DEF Signers

(* RelateFinals keeps how many final objects there are.                    *)
LEMMA RelateFinalsKeeps ==
    ASSUME ObjectTypes, NEW b \in Batches, NEW From \in SUBSET TrxState,
           NEW to \in TrxState, RelateFinals(b, From, to)
    PROVE  /\ finals' \in [Batches -> Seq(FinalObject)]
           /\ \A c \in Batches: c # b => finals'[c] = finals[c]
           /\ Len(finals'[b]) = Len(finals[b])
           /\ DOMAIN finals'[b] = DOMAIN finals[b]
           /\ finals'[b] = <<>> <=> finals[b] = <<>>
           /\ \A i \in DOMAIN finals[b]:
                finals'[b][i].state = IF finals[b][i].state \in From THEN to
                                                                     ELSE finals[b][i].state
<1> DEFINE f == finals[b]
           h == [i \in DOMAIN f |-> IF f[i].state \in From THEN [f[i] EXCEPT !.state = to]
                                                           ELSE f[i]]
<1>1. f \in Seq(FinalObject) /\ DOMAIN f = 1..Len(f) /\ Len(f) \in Nat
  BY DEF ObjectTypes
<1>2. \A i \in DOMAIN f: f[i] \in FinalObject
  BY <1>1
<1>3. \A i \in DOMAIN f: [f[i] EXCEPT !.state = to] \in FinalObject
  BY <1>2 DEF FinalObject
<1>4. h \in [1..Len(f) -> FinalObject]
  BY <1>1, <1>2, <1>3
<1>5. h \in Seq(FinalObject) /\ Len(h) = Len(f)
  BY <1>1, <1>4
<1>6. finals' = [finals EXCEPT ![b] = h]
  BY DEF RelateFinals
<1>7. finals'[b] = h /\ \A c \in Batches: c # b => finals'[c] = finals[c]
  BY <1>6 DEF ObjectTypes
<1>8. \A i \in DOMAIN f: h[i].state = IF f[i].state \in From THEN to ELSE f[i].state
  BY <1>2 DEF FinalObject
<1>9. finals' \in [Batches -> Seq(FinalObject)]
  <2> HIDE DEF h
  <2> QED BY <1>5, <1>6 DEF ObjectTypes
<1>10. h = <<>> <=> f = <<>>
  BY <1>1, <1>4, <1>5
<1> QED BY <1>1, <1>4, <1>5, <1>7, <1>8, <1>9, <1>10

(* What only concerns users and batches stays when these do.               *)
LEMMA SameBatches ==
    ASSUME ObjectInv, UNCHANGED <<ethlike, user, batch>>
    PROVE  BatchAgrees' /\ Unbatched' /\ OneInProgress'
  BY DEF ObjectInv, BatchAgrees, Unbatched, OneInProgress, Users

(* A BTC-like asset has one batch on its way, unless a step opens another. *)
LEMMA MoveKeepsOne ==
    ASSUME ObjectInv, ethlike' = ethlike, NEW b \in Batches,
           \A c \in Batches: c # b => batch'[c] = batch[c],
           ethlike \/ batch[b].state \in {"without_sign", "combine"}
                   \/ batch'[b].state \notin {"without_sign", "combine"}
    PROVE  OneInProgress'
<1> SUFFICES ASSUME ~ethlike, NEW c \in Batches, NEW d \in Batches, c # d,
                    {batch'[c].state, batch'[d].state} \subseteq {"without_sign", "combine"}
             PROVE  FALSE
  BY DEF OneInProgress
<1>1. \A x \in {c, d}: batch[x].state \in {"without_sign", "combine"}
  OBVIOUS
<1> QED BY <1>1 DEF ObjectInv, OneInProgress

-----------------------------------------------------------------------------
(* Every step keeps ObjectInv: one lemma per action.                       *)

(* The lemmas below share their hypotheses.                                *)
Kept == ObjectInv /\ ethlike' = ethlike

LEMMA NotInBatch ==
    ASSUME ObjectInv, NEW w \in Withdraws, user[w] \in {"absent", "uncreate"},
           NEW b \in Batches
    PROVE  w \notin Users(b)
  BY DEF ObjectInv, BatchAgrees, BatchInv, ObjectsAgree, Users, NoBatch

LEMMA UserStep ==
    ASSUME Kept, NEW w \in Withdraws, user[w] \in {"absent", "uncreate"},
           NEW st \in {"uncreate", "canceled"},
           user' = [user EXCEPT ![w] = st],
           UNCHANGED <<batch, sign, signing, acquired, chain>>
    PROVE  ObjectInv'
<1>1. ObjectTypes'
  BY DEF Kept, ObjectInv, ObjectTypes, signing, TrxState
<1>2. \A b \in Batches: Users(b)' = Users(b) /\ w \notin Users(b)
  BY NotInBatch DEF Kept, Users
<1>3. BatchAgrees'
  <2>1. ASSUME NEW b \in Batches, NEW v \in Users(b)' PROVE user'[v] = batch'[b].state
    <3>1. v # w /\ v \in Users(b)
      BY <1>2, <2>1
    <3>2. v \in Withdraws /\ user[v] = batch[b].state
      BY <3>1 DEF Kept, ObjectInv, ObjectTypes, BatchAgrees, Users
    <3> QED BY <3>1, <3>2 DEF Kept, ObjectInv, ObjectTypes
  <2>2. \A b, c \in Batches: b # c => (Users(b) \cap Users(c) = {})'
    BY <1>2 DEF Kept, ObjectInv, BatchAgrees
  <2> QED BY <2>1, <2>2 DEF BatchAgrees
<1>4. \A b \in Batches: BatchInv(b)'
  BY FrameKeeps DEF Kept, ObjectInv, Frame, signing
<1>5. Unbatched'
  BY <1>2 DEF Kept, ObjectInv, ObjectTypes, Unbatched
<1>6. OneInProgress'
  BY DEF Kept, ObjectInv, OneInProgress
<1> QED BY <1>1, <1>3, <1>4, <1>5, <1>6 DEF ObjectInv

(* Steps of the record plugin and of the miners that turn deposits into    *)
(* credits change the records of deposits only.                            *)
LEMMA DepositStep ==
    ASSUME Kept, acquired' \in [Batches \cup Deposits -> AcquiredState],
           \A b \in Batches: acquired'[b] = acquired[b],
           UNCHANGED <<user, batch, sign, signing, chain>>
    PROVE  ObjectInv'
<1>1. ObjectTypes'
  BY DEF Kept, ObjectInv, ObjectTypes, signing
<1>2. \A b \in Batches: BatchInv(b)'
  BY FrameKeeps DEF Kept, ObjectInv, Frame, signing
<1> QED BY <1>1, <1>2, SameBatches DEF Kept, ObjectInv

(* A step that keeps users and batches and touches the objects of one      *)
(* batch only.                                                             *)
LEMMA LocalStep ==
    ASSUME Kept, NEW b \in Batches, UNCHANGED <<user, batch>>,
           ObjectTypes', BatchInv(b)',
           \A c \in Batches: c # b => Frame(c)
    PROVE  ObjectInv'
<1>1. \A c \in Batches: BatchInv(c)'
  BY FrameKeeps DEF Kept, ObjectInv
<1> QED BY <1>1, SameBatches DEF Kept, ObjectInv

(* A step that moves a batch and its users.                                *)
LEMMA MoveStep ==
    ASSUME Kept, NEW b \in Batches, NEW st \in TrxState,
           SetBatch(b, st), SetUsers(Users(b), st),
           ethlike \/ st \notin {"without_sign", "combine"}
                   \/ batch[b].state \in {"without_sign", "combine"},
           sign' \in [Batches -> [Wallfacers -> TrxState \cup {"absent"}]],
           combine' \in [Batches -> TrxState \cup {"absent"}],
           finals' \in [Batches -> Seq(FinalObject)],
           aged' \in [Batches -> [signs: BOOLEAN, combine: BOOLEAN, finals: Nat]],
           flight' \in [Batches -> Nat],
           acquired' \in [Batches \cup Deposits -> AcquiredState],
           chain' \in [Batches -> {"none", "sent", "success", "failed"}],
           \A c \in Batches: c # b =>
              /\ sign'[c] = sign[c] /\ combine'[c] = combine[c]
              /\ finals'[c] = finals[c] /\ aged'[c] = aged[c] /\ flight'[c] = flight[c]
              /\ acquired'[c] = acquired[c] /\ chain'[c] = chain[c],
           BatchInv(b)'
    PROVE  ObjectInv'
<1>1. /\ user' \in [Withdraws -> TrxState \cup {"absent"}]
      /\ batch' \in [Batches -> [state: TrxState \cup {"absent"},
                                 ids: SUBSET Withdraws, fee: Nat]]
      /\ BatchAgrees'
      /\ Unbatched'
      /\ batch'[b].state = st
      /\ \A c \in Batches: c # b => batch'[c] = batch[c]
  BY MoveTogether DEF Kept
<1>2. ObjectTypes'
  BY <1>1 DEF Kept, ObjectInv, ObjectTypes
<1>3. \A c \in Batches: BatchInv(c)'
  <2>1. ASSUME NEW c \in Batches, c # b PROVE BatchInv(c)'
    <3>1. Frame(c)
      BY <1>1, <2>1 DEF Frame, Kept
    <3> QED BY <3>1, FrameKeeps DEF Kept, ObjectInv
  <2> QED BY <2>1
<1>4. OneInProgress'
  BY <1>1, MoveKeepsOne DEF Kept
<1> QED BY <1>1, <1>2, <1>3, <1>4 DEF ObjectInv

LEMMA WithoutSignKeeps ==
    ASSUME Kept, NEW b \in Batches, NEW S \in SUBSET Withdraws, WithoutSign(b, S)
    PROVE  ObjectInv'
<1> DEFINE fee == Cardinality(S) * FeePool - NetFee
<1>1. /\ S # {} /\ \A w \in S: user[w] = "uncreate"
      /\ batch[b].state = "absent"
      /\ ~ \E c \in Batches: InProgress(c)
      /\ batch' = [batch EXCEPT ![b] = [state |-> "without_sign", ids |-> S, fee |-> fee]]
      /\ user' = [w \in Withdraws |-> IF w \in S THEN "without_sign" ELSE user[w]]
      /\ UNCHANGED <<sign, signing, acquired, chain>>
  BY DEF WithoutSign, Batched, SetUsers
<1>2. fee \in Nat
  <2>1. IsFiniteSet(S) /\ Cardinality(S) \in Nat /\ Cardinality(S) # 0
    BY <1>1, FS_Subset, FS_CardinalityType, FS_EmptySet
  <2>2. \A n \in Nat \ {0}: n * FeePool >= FeePool
    OBVIOUS
  <2>3. Cardinality(S) * FeePool >= FeePool /\ Cardinality(S) * FeePool \in Nat
    BY <2>1, <2>2
  <2> QED BY <2>3
<1> HIDE DEF fee
<1>3. ObjectTypes'
  BY <1>1, <1>2 DEF Kept, ObjectInv, ObjectTypes, signing, TrxState
<1>4. /\ batch'[b].state = "without_sign" /\ batch'[b].ids = S
      /\ \A c \in Batches: c # b => batch'[c] = batch[c]
  BY <1>1 DEF Kept, ObjectInv, ObjectTypes
<1>5. \A c \in Batches: S \cap Users(c) = {}
  BY <1>1, NotInBatch DEF Kept
<1>6. Users(b) = {}
  BY <1>1 DEF Kept, ObjectInv, BatchInv, ObjectsAgree, NoBatch, Users
<1>7. BatchAgrees'
  <2>1. ASSUME NEW c \in Batches, NEW w \in Users(c)' PROVE user'[w] = batch'[c].state
    <3>1. w \in Withdraws
      BY <2>1, <1>3 DEF ObjectTypes, Users
    <3>2. CASE c = b
      BY <2>1, <3>1, <3>2, <1>1, <1>4 DEF Users
    <3>3. CASE c # b
      <4>1. w \in Users(c) /\ w \notin S
        BY <2>1, <3>3, <1>4, <1>5 DEF Users
      <4>2. user[w] = batch[c].state
        BY <4>1 DEF Kept, ObjectInv, BatchAgrees
      <4> QED BY <4>1, <4>2, <3>1, <3>3, <1>1, <1>4
    <3> QED BY <3>2, <3>3
  <2>2. ASSUME NEW c \in Batches, NEW d \in Batches, c # d
        PROVE  (Users(c) \cap Users(d) = {})'
    BY <2>2, <1>4, <1>5 DEF Kept, ObjectInv, BatchAgrees, Users
  <2> QED BY <2>1, <2>2 DEF BatchAgrees
<1>8. BatchInv(b)'
  <2>1. BatchInv(b) /\ batch[b].state = "absent"
    BY <1>1 DEF Kept, ObjectInv
  <2>2. ObjectsAgree(b)'
    BY <2>1, <1>1, <1>4 DEF BatchInv, ObjectsAgree, ChainAgrees, signing, Kept
  <2>3. ChainAgrees(b)'
    BY <2>1, <1>1, <1>4 DEF BatchInv, ChainAgrees, Kept
  <2>4. Signed(b)'
    BY <2>1, <1>1 DEF BatchInv, Signed, Signers, signing
  <2> QED BY <2>2, <2>3, <2>4 DEF BatchInv
<1>9. \A c \in Batches: BatchInv(c)'
  <2>1. ASSUME NEW c \in Batches, c # b PROVE BatchInv(c)'
    <3>1. Frame(c)
      BY <1>1, <1>4, <2>1 DEF Frame, Kept, signing
    <3> QED BY <3>1, FrameKeeps DEF Kept, ObjectInv
  <2> QED BY <2>1, <1>8
<1>10. Unbatched'
  <2> SUFFICES ASSUME NEW w \in Withdraws, ~ \E c \in Batches: w \in Users(c)'
               PROVE  user'[w] \in {"absent", "uncreate", "canceled"}
    BY DEF Unbatched
  <2>1. w \notin S /\ ~ \E c \in Batches: w \in Users(c)
    BY <1>4, <1>6 DEF Users
  <2> QED BY <2>1, <1>1 DEF Kept, ObjectInv, Unbatched
<1>11. OneInProgress'
  <2>1. \A c \in Batches: batch[c].state \notin {"without_sign", "combine"} \/ ethlike
    <3> SUFFICES ASSUME NEW c \in Batches, ~ethlike,
                        batch[c].state \in {"without_sign", "combine"}
                 PROVE  FALSE
      OBVIOUS
    <3>1. combine[c] = "combine" \/ batch[c].state = "without_sign"
      BY DEF Kept, ObjectInv, BatchInv, ObjectsAgree
    <3> QED BY <3>1, <1>1 DEF InProgress
  <2>2. \A c \in Batches: ~ethlike /\ batch'[c].state \in {"without_sign", "combine"} => c = b
    BY <2>1, <1>4
  <2> QED BY <2>2 DEF OneInProgress, Kept
<1> QED BY <1>3, <1>7, <1>9, <1>10, <1>11 DEF ObjectInv

LEMMA WithSignKeeps ==
    ASSUME Kept, NEW b \in Batches, NEW g \in Wallfacers, WithSign(b, g)
    PROVE  ObjectInv'
<1>1. /\ sign' = [sign EXCEPT ![b][g] = "sign"]
      /\ UNCHANGED <<user, batch, signing, acquired, chain>>
  BY DEF WithSign
<1>2. ObjectTypes'
  BY <1>1 DEF Kept, ObjectInv, ObjectTypes, signing, TrxState
<1>3. \A h \in Wallfacers: sign'[b][h] = IF h = g THEN "sign" ELSE sign[b][h]
  BY <1>1 DEF Kept, ObjectInv, ObjectTypes
<1>4. BatchInv(b)'
  <2>1. BatchInv(b)
    BY DEF Kept, ObjectInv
  <2>2. ObjectsAgree(b)'
    BY <2>1, <1>1, <1>3 DEF BatchInv, ObjectsAgree, signing, Kept
  <2>3. ChainAgrees(b)'
    BY <2>1, <1>1 DEF BatchInv, ChainAgrees, Kept
  <2>4. Signed(b)'
    <3>1. Signers(b) \in SUBSET Signers(b)' /\ Signers(b)' \in SUBSET Wallfacers
      BY <1>3 DEF Signers
    <3>2. IsFiniteSet(Signers(b)')
      BY <3>1, FS_Subset
    <3>3. Cardinality(Signers(b)) <= Cardinality(Signers(b)')
      BY <3>1, <3>2, FS_Subset
    <3>4. Cardinality(Signers(b)) \in Nat /\ Cardinality(Signers(b)') \in Nat
      BY <3>1, <3>2, FS_Subset, FS_CardinalityType
    <3>5. Quorum \in Nat
      BY FS_CardinalityType DEF Quorum
    <3> QED BY <2>1, <3>3, <3>4, <3>5, <1>1 DEF BatchInv, Signed, signing
  <2> QED BY <2>2, <2>3, <2>4 DEF BatchInv
<1>5. \A c \in Batches: c # b => Frame(c)
  BY <1>1 DEF Frame, Kept, ObjectInv, ObjectTypes, signing
<1> QED BY <1>1, <1>2, <1>4, <1>5, LocalStep

LEMMA CombineSignKeeps ==
    ASSUME Kept, NEW b \in Batches, CombineSign(b)
    PROVE  ObjectInv'
<1> DEFINE st == IF ethlike THEN "need_sign" ELSE "combine"
<1>1. /\ batch[b].state = "without_sign"
      /\ Cardinality({g \in Wallfacers: sign[b][g] = "sign"}) >= Quorum
      /\ SetBatch(b, st) /\ SetUsers(Users(b), st)
      /\ RelateSigns(b, {"sign"}, st)
      /\ combine' = [combine EXCEPT ![b] = st]
      /\ aged' = [aged EXCEPT ![b].combine = FALSE]
      /\ chain' = [chain EXCEPT ![b] = IF ethlike THEN @ ELSE "sent"]
      /\ UNCHANGED <<finals, flight, acquired>>
  BY DEF CombineSign, Combinable
<1>2. /\ st \in TrxState /\ {"sign"} \in SUBSET TrxState
      /\ ethlike => st = "need_sign"
      /\ ~ethlike => st = "combine"
  BY DEF TrxState
<1> HIDE DEF st
<1>3. BatchInv(b) /\ ObjectTypes
  BY DEF Kept, ObjectInv
<1>4. batch'[b].state = st /\ batch'[b].ids = batch[b].ids
  BY <1>1, <1>2, MoveTogether DEF Kept
<1>5. /\ sign' \in [Batches -> [Wallfacers -> TrxState \cup {"absent"}]]
      /\ Signers(b)' = Signers(b)
      /\ \A c \in Batches: c # b => sign'[c] = sign[c]
      /\ \A g \in Wallfacers: sign'[b][g] = IF sign[b][g] \in {"sign"} THEN st ELSE sign[b][g]
  BY <1>1, <1>2, <1>3, RelateSignsKeeps
<1>6. /\ combine'[b] = st
      /\ ethlike => chain'[b] = chain[b]
      /\ ~ethlike => chain'[b] = "sent"
      /\ aged'[b].finals = aged[b].finals
  <2>1. combine'[b] = st /\ chain'[b] = IF ethlike THEN chain[b] ELSE "sent"
    BY <1>1, <1>3 DEF ObjectTypes
  <2>2. aged'[b] = [aged[b] EXCEPT !.combine = FALSE]
    BY <1>1, <1>3 DEF ObjectTypes
  <2>3. aged'[b].finals = aged[b].finals
    BY <2>2, <1>3 DEF ObjectTypes
  <2> QED BY <2>1, <2>3
<1>7. ObjectsAgree(b)'
  <2>1. /\ finals[b] = <<>> /\ aged[b].finals <= Len(finals[b])
        /\ aged[b].finals > 0 => flight[b] = 0
        /\ ~ethlike => flight[b] = 0
        /\ batch[b].ids # {}
        /\ \A g \in Wallfacers: sign[b][g] # "combine"
    BY <1>1, <1>3 DEF BatchInv, ObjectsAgree
  <2>2. \A g \in Wallfacers: sign'[b][g] = "combine" => st = "combine"
    BY <2>1, <1>5
  <2>3. st \in {"combine", "need_sign"} /\ ethlike \in BOOLEAN
    BY <1>2, <1>3 DEF ObjectTypes
  <2> QED BY <2>1, <2>2, <2>3, <1>1, <1>2, <1>4, <1>6 DEF ObjectsAgree, Kept
<1>8. ChainAgrees(b)'
  <2>1. chain[b] = "none" /\ acquired[b] = "absent"
    BY <1>1, <1>3 DEF BatchInv, ChainAgrees
  <2>2. st \in {"combine", "need_sign"} /\ ethlike \in BOOLEAN
    BY <1>2, <1>3 DEF ObjectTypes
  <2> QED BY <2>1, <2>2, <1>1, <1>2, <1>4, <1>6 DEF ChainAgrees, Kept
<1>9. Signed(b)'
  <2>1. {g \in Wallfacers: sign[b][g] = "sign"} \in SUBSET Signers(b)
    BY DEF Signers
  <2>2. IsFiniteSet(Signers(b)) /\ Cardinality(Signers(b)) \in Nat
    BY FS_Subset, FS_CardinalityType DEF Signers
  <2>3. /\ Cardinality({g \in Wallfacers: sign[b][g] = "sign"}) <= Cardinality(Signers(b))
        /\ Cardinality({g \in Wallfacers: sign[b][g] = "sign"}) \in Nat
    BY <2>1, <2>2, FS_Subset, FS_CardinalityType
  <2>4. Quorum \in Nat
    BY FS_CardinalityType DEF Quorum
  <2>5. Cardinality(Signers(b)) >= Quorum
    BY <2>2, <2>3, <2>4, <1>1
  <2> QED BY <2>5, <1>5 DEF Signed
<1>10. BatchInv(b)'
  BY <1>7, <1>8, <1>9 DEF BatchInv
<1>11. /\ combine' \in [Batches -> TrxState \cup {"absent"}]
       /\ finals' \in [Batches -> Seq(FinalObject)]
       /\ aged' \in [Batches -> [signs: BOOLEAN, combine: BOOLEAN, finals: Nat]]
       /\ flight' \in [Batches -> Nat]
       /\ acquired' \in [Batches \cup Deposits -> AcquiredState]
       /\ chain' \in [Batches -> {"none", "sent", "success", "failed"}]
       /\ \A c \in Batches: c # b =>
            /\ combine'[c] = combine[c] /\ finals'[c] = finals[c] /\ aged'[c] = aged[c]
            /\ flight'[c] = flight[c] /\ acquired'[c] = acquired[c] /\ chain'[c] = chain[c]
  <2>1. aged' \in [Batches -> [signs: BOOLEAN, combine: BOOLEAN, finals: Nat]]
    <3>1. \A c \in Batches: aged'[c] = IF c = b THEN [aged[c] EXCEPT !.combine = FALSE] ELSE aged[c]
      BY <1>1, <1>3 DEF ObjectTypes
    <3>2. [aged[b] EXCEPT !.combine = FALSE] \in [signs: BOOLEAN, combine: BOOLEAN, finals: Nat]
      <4>1. aged[b] \in [signs: BOOLEAN, combine: BOOLEAN, finals: Nat] /\ FALSE \in BOOLEAN
        BY <1>3 DEF ObjectTypes
      <4> QED BY <4>1, CombineOfRecord
    <3>3. DOMAIN aged' = Batches /\ aged' = [c \in Batches |-> aged'[c]]
      BY <1>1, <1>3 DEF ObjectTypes
    <3> QED BY <3>1, <3>2, <3>3, <1>3 DEF ObjectTypes
  <2> QED BY <2>1, <1>1, <1>2, <1>3 DEF ObjectTypes
<1> QED BY <1>1, <1>2, <1>5, <1>10, <1>11, MoveStep

LEMMA WalletSignFinalKeeps ==
    ASSUME Kept, NEW b \in Batches, WalletSignFinal(b)
    PROVE  ObjectInv'
<1>1. /\ combine[b] = "need_sign"
      /\ flight' = [flight EXCEPT ![b] = @ + 1]
      /\ UNCHANGED <<user, batch, sign, combine, finals, aged, acquired, chain>>
  BY DEF WalletSignFinal
<1>2. BatchInv(b) /\ ObjectTypes
  BY DEF Kept, ObjectInv
<1>3. ObjectTypes'
  BY <1>1, <1>2, SMTT(30) DEF ObjectTypes, Kept
<1>4. batch[b].state = "need_sign" /\ ethlike /\ finals[b] = <<>> /\ aged[b].finals = 0
  BY <1>1, <1>2, SMTT(30) DEF BatchInv, ObjectsAgree, ObjectTypes
<1>5. ObjectsAgree(b)'
  BY <1>1, <1>2, <1>4 DEF BatchInv, ObjectsAgree, Kept
<1>6. ChainAgrees(b)' /\ Signed(b)'
  BY <1>1, <1>2 DEF BatchInv, ChainAgrees, Signed, Signers, Kept
<1>7. \A c \in Batches: c # b => Frame(c)
  BY <1>1, <1>2 DEF Frame, Kept, ObjectTypes
<1> QED BY <1>1, <1>3, <1>5, <1>6, <1>7, LocalStep DEF BatchInv

(* A final signature arrives at a batch that was not canceled.             *)
LEMMA ApplyFinalKeeps ==
    ASSUME Kept, NEW b \in Batches, NEW op \in {"sign_final", "change_signer"},
           ApplyFinal(b, op), flight' \in [Batches -> Nat],
           \A c \in Batches: c # b => flight'[c] = flight[c],
           flight'[b] <= flight[b],
           combine[b] # "absent", ethlike, batch[b].state # "canceled"
    PROVE  ObjectInv'
<1>1. /\ combine' = [combine EXCEPT ![b] = "eth_sign"]
      /\ SetBatch(b, "eth_sign") /\ SetUsers(Users(b), "eth_sign")
      /\ RelateSigns(b, {"need_sign"}, "eth_sign")
      /\ finals' = [finals EXCEPT ![b] = Append(@, [op |-> op, state |-> "eth_sign"])]
      /\ chain' = [chain EXCEPT ![b] = IF @ = "none" THEN "sent" ELSE @]
      /\ UNCHANGED <<aged, acquired>>
  BY DEF ApplyFinal
<1>2. "eth_sign" \in TrxState /\ {"need_sign"} \in SUBSET TrxState
  BY DEF TrxState
<1>3. BatchInv(b) /\ ObjectTypes
  BY DEF Kept, ObjectInv
<1>4. batch'[b].state = "eth_sign" /\ batch'[b].ids = batch[b].ids
  BY <1>1, <1>2, MoveTogether DEF Kept
<1>5. /\ sign' \in [Batches -> [Wallfacers -> TrxState \cup {"absent"}]]
      /\ Signers(b)' = Signers(b)
      /\ \A c \in Batches: c # b => sign'[c] = sign[c]
      /\ \A g \in Wallfacers: sign'[b][g] =
            IF sign[b][g] \in {"need_sign"} THEN "eth_sign" ELSE sign[b][g]
  BY <1>1, <1>2, <1>3, RelateSignsKeeps, ZenonT(60)
<1>6. /\ combine'[b] = "eth_sign"
      /\ chain'[b] = IF chain[b] = "none" THEN "sent" ELSE chain[b]
  BY <1>1, <1>3 DEF ObjectTypes
<1>7. /\ finals[b] \in Seq(FinalObject) /\ [op |-> op, state |-> "eth_sign"] \in FinalObject
      /\ finals'[b] = Append(finals[b], [op |-> op, state |-> "eth_sign"])
  BY <1>1, <1>2, <1>3 DEF ObjectTypes, FinalObject
<1>8. /\ Len(finals'[b]) = Len(finals[b]) + 1 /\ finals'[b] \in Seq(FinalObject)
      /\ Len(finals[b]) \in Nat
  BY <1>7
<1>9. ObjectsAgree(b)'
  <2>1. flight'[b] \in Nat /\ flight[b] \in Nat /\ aged[b].finals \in Nat
    BY <1>3 DEF ObjectTypes
  <2>2. /\ aged'[b].finals <= Len(finals'[b])
        /\ aged'[b].finals > 0 => flight'[b] = 0
    BY <2>1, <1>1, <1>3, <1>8 DEF BatchInv, ObjectsAgree
  <2>3. batch[b].ids # {}
    BY <1>3 DEF BatchInv, ObjectsAgree
  <2>4. \A g \in Wallfacers: sign'[b][g] # "combine"
    BY <1>3, <1>5 DEF BatchInv, ObjectsAgree
  <2> QED BY <2>2, <2>3, <2>4, <1>4, <1>6 DEF ObjectsAgree, Kept
<1>10. ChainAgrees(b)'
  BY <1>1, <1>3, <1>4, <1>6 DEF BatchInv, ChainAgrees, Kept
<1>11. Signed(b)'
  BY <1>3, <1>5 DEF BatchInv, Signed
<1>12. BatchInv(b)'
  BY <1>9, <1>10, <1>11 DEF BatchInv
<1>13. /\ combine' \in [Batches -> TrxState \cup {"absent"}]
       /\ finals' \in [Batches -> Seq(FinalObject)]
       /\ aged' \in [Batches -> [signs: BOOLEAN, combine: BOOLEAN, finals: Nat]]
       /\ acquired' \in [Batches \cup Deposits -> AcquiredState]
       /\ chain' \in [Batches -> {"none", "sent", "success", "failed"}]
       /\ \A c \in Batches: c # b =>
            /\ combine'[c] = combine[c] /\ finals'[c] = finals[c] /\ aged'[c] = aged[c]
            /\ acquired'[c] = acquired[c] /\ chain'[c] = chain[c]
  BY <1>1, <1>2, <1>3, <1>7, <1>8 DEF ObjectTypes
<1> QED BY <1>1, <1>2, <1>5, <1>12, <1>13, MoveStep

LEMMA SignFinalKeeps ==
    ASSUME Kept, NEW b \in Batches, SignFinal(b)
    PROVE  ObjectInv' /\ batch[b].state # "canceled"
<1>1. BatchInv(b) /\ ObjectTypes
  BY DEF Kept, ObjectInv
<1>2. /\ flight[b] > 0 /\ combine[b] # "absent"
      /\ flight' = [flight EXCEPT ![b] = @ - 1] /\ ApplyFinal(b, "sign_final")
  BY DEF SignFinal
<1>3. batch[b].state # "canceled" /\ ethlike
  BY <1>1, <1>2, SMTT(30) DEF BatchInv, ObjectsAgree, ObjectTypes
<1>4. /\ flight' \in [Batches -> Nat] /\ flight'[b] <= flight[b]
      /\ \A c \in Batches: c # b => flight'[c] = flight[c]
  <2>1. flight[b] \in Nat /\ flight[b] - 1 \in Nat
    BY <1>1, <1>2 DEF ObjectTypes
  <2> QED BY <2>1, <1>1, <1>2 DEF ObjectTypes
<1> QED BY <1>2, <1>3, <1>4, ApplyFinalKeeps

LEMMA ChangeSignerKeeps ==
    ASSUME Kept, NEW b \in Batches, ChangeSigner(b)
    PROVE  ObjectInv' /\ batch[b].state # "canceled"
<1>1. BatchInv(b) /\ ObjectTypes
  BY DEF Kept, ObjectInv
<1>2. combine[b] = "need_sign" /\ ApplyFinal(b, "change_signer") /\ UNCHANGED flight
  BY DEF ChangeSigner
<1>3. batch[b].state = "need_sign" /\ ethlike
  BY <1>1, <1>2 DEF BatchInv, ObjectsAgree
<1>4. flight' \in [Batches -> Nat] /\ flight'[b] <= flight[b]
  BY <1>1, <1>2 DEF ObjectTypes
<1> QED BY <1>2, <1>3, <1>4, ApplyFinalKeeps

LEMMA ChainExecutesKeeps ==
    ASSUME Kept, NEW b \in Batches, ChainExecutes(b)
    PROVE  ObjectInv'
<1>1. PICK r \in {"success", "failed"}: chain' = [chain EXCEPT ![b] = r]
  BY DEF ChainExecutes
<1>2. chain[b] = "sent" /\ UNCHANGED <<user, batch, sign, signing, acquired>>
  BY DEF ChainExecutes
<1>3. BatchInv(b) /\ ObjectTypes
  BY DEF Kept, ObjectInv
<1>4. ObjectTypes'
  BY <1>1, <1>2, <1>3 DEF ObjectTypes, Kept, signing
<1>5. chain'[b] = r /\ \A c \in Batches: c # b => chain'[c] = chain[c]
  BY <1>1, <1>3 DEF ObjectTypes
<1>6. ObjectsAgree(b)'
  BY <1>2, <1>3, <1>5 DEF BatchInv, ObjectsAgree, ChainAgrees, Kept, signing
<1>7. ChainAgrees(b)'
  BY <1>2, <1>3, <1>5 DEF BatchInv, ChainAgrees, Kept
<1>8. Signed(b)'
  BY <1>2, <1>3, <1>5 DEF BatchInv, Signed, Signers, signing
<1>9. \A c \in Batches: c # b => Frame(c)
  BY <1>2, <1>5 DEF Frame, Kept, signing
<1> QED BY <1>2, <1>4, <1>6, <1>7, <1>8, <1>9, LocalStep DEF BatchInv

LEMMA AcquireRecordKeeps ==
    ASSUME Kept, NEW x \in Batches \cup Deposits, AcquireRecord(x)
    PROVE  ObjectInv'
<1>1. /\ acquired[x] = "absent"
      /\ x \in Batches => chain[x] = "success"
      /\ acquired' = [acquired EXCEPT ![x] = "uncreate"]
      /\ UNCHANGED <<user, batch, sign, signing, chain>>
  BY DEF AcquireRecord
<1>2. ObjectTypes
  BY DEF Kept, ObjectInv
<1>3. acquired' \in [Batches \cup Deposits -> AcquiredState]
  BY <1>1, <1>2 DEF ObjectTypes, AcquiredState
<1>4. \A y \in Batches \cup Deposits: acquired'[y] = IF y = x THEN "uncreate" ELSE acquired[y]
  BY <1>1, <1>2 DEF ObjectTypes
<1>5. CASE x \in Deposits
  <2>1. \A b \in Batches: acquired'[b] = acquired[b]
    BY <1>4, <1>5
  <2> QED BY <2>1, <1>1, <1>3, DepositStep
<1>6. CASE x \in Batches
  <2>1. BatchInv(x)
    BY <1>6 DEF Kept, ObjectInv
  <2>2. ObjectTypes'
    BY <1>1, <1>2, <1>3 DEF ObjectTypes, Kept, signing
  <2>3. ObjectsAgree(x)'
    BY <2>1, <1>1 DEF BatchInv, ObjectsAgree, Kept, signing
  <2>4. ChainAgrees(x)'
    BY <2>1, <1>1, <1>4, <1>6 DEF BatchInv, ChainAgrees, Kept
  <2>5. Signed(x)'
    BY <2>1, <1>1 DEF BatchInv, Signed, Signers, signing
  <2>6. \A c \in Batches: c # x => Frame(c)
    BY <1>1, <1>4 DEF Frame, Kept, signing
  <2> QED BY <2>2, <2>3, <2>4, <2>5, <2>6, <1>1, <1>6, LocalStep DEF BatchInv
<1> QED BY <1>5, <1>6

LEMMA DepositActionsKeep ==
    ASSUME Kept, (\E d \in Deposits: DepositRecord(d) \/ DepositRefused(d)) \/ PendingReset
    PROVE  ObjectInv'
<1>1. ObjectTypes
  BY DEF Kept, ObjectInv
<1>2. ASSUME NEW d \in Deposits, DepositRecord(d) PROVE ObjectInv'
  <2>1. /\ acquired' = [acquired EXCEPT ![d] = "create"]
        /\ UNCHANGED <<user, batch, sign, signing, chain>>
    BY <1>2 DEF DepositRecord
  <2>2. /\ acquired' \in [Batches \cup Deposits -> AcquiredState]
        /\ \A b \in Batches: acquired'[b] = acquired[b]
    BY <2>1, <1>1 DEF ObjectTypes, AcquiredState
  <2> QED BY <2>1, <2>2, DepositStep
<1>3. ASSUME NEW d \in Deposits, DepositRefused(d) PROVE ObjectInv'
  <2>1. /\ acquired' = [acquired EXCEPT ![d] = "failure"]
        /\ UNCHANGED <<user, batch, sign, signing, chain>>
    BY <1>3 DEF DepositRefused
  <2>2. /\ acquired' \in [Batches \cup Deposits -> AcquiredState]
        /\ \A b \in Batches: acquired'[b] = acquired[b]
    BY <2>1, <1>1 DEF ObjectTypes, AcquiredState
  <2> QED BY <2>1, <2>2, DepositStep
<1>4. ASSUME PendingReset PROVE ObjectInv'
  <2>1. /\ acquired' = [x \in DOMAIN acquired |->
                          IF acquired[x] = "failure" THEN "uncreate" ELSE acquired[x]]
        /\ UNCHANGED <<user, batch, sign, signing, chain>>
    BY <1>4 DEF PendingReset
  <2>2. acquired' \in [Batches \cup Deposits -> AcquiredState]
    BY <2>1, <1>1 DEF ObjectTypes, AcquiredState
  <2>3. \A b \in Batches: acquired[b] # "failure"
    BY DEF Kept, ObjectInv, BatchInv, ChainAgrees
  <2>4. \A b \in Batches: acquired'[b] = acquired[b]
    BY <2>1, <2>3, <1>1 DEF ObjectTypes
  <2> QED BY <2>1, <2>2, <2>4, DepositStep
<1> QED BY <1>2, <1>3, <1>4

LEMMA Blocks720Keeps ==
    ASSUME Kept, Blocks720
    PROVE  ObjectInv'
<1>1. /\ aged' = [b \in Batches |->
                    [signs |-> \E g \in Wallfacers: sign[b][g] # "absent",
                     combine |-> combine[b] # "absent",
                     finals |-> Len(finals[b])]]
      /\ flight' = [b \in Batches |-> 0]
      /\ UNCHANGED <<user, batch, sign, combine, finals, acquired, chain>>
  BY DEF Blocks720
<1>2. ObjectTypes
  BY DEF Kept, ObjectInv
<1>3. \A b \in Batches: Len(finals[b]) \in Nat
  BY <1>2 DEF ObjectTypes
<1>4. /\ \A b \in Batches: aged'[b].finals = Len(finals[b]) /\ flight'[b] = 0
      /\ flight' \in [Batches -> Nat]
  BY <1>1
<1>5. aged' \in [Batches -> [signs: BOOLEAN, combine: BOOLEAN, finals: Nat]]
  <2>1. \A b \in Batches: /\ (\E g \in Wallfacers: sign[b][g] # "absent") \in BOOLEAN
                          /\ (combine[b] # "absent") \in BOOLEAN
    OBVIOUS
  <2> QED BY <2>1, <1>1, <1>3, Zenon
<1>6. ObjectTypes'
  BY <1>1, <1>2, <1>4, <1>5 DEF ObjectTypes, Kept
<1>7. ASSUME NEW b \in Batches PROVE BatchInv(b)'
  <2>1. BatchInv(b)
    BY DEF Kept, ObjectInv
  <2>2. ObjectsAgree(b)'
    BY <2>1, <1>1, <1>3, <1>4 DEF BatchInv, ObjectsAgree, Kept
  <2>3. ChainAgrees(b)' /\ Signed(b)'
    BY <2>1, <1>1 DEF BatchInv, ChainAgrees, Signed, Signers, Kept
  <2> QED BY <2>2, <2>3 DEF BatchInv
<1> QED BY <1>1, <1>6, <1>7, SameBatches DEF Kept, ObjectInv

LEMMA ChangeAcquireTrxKeeps ==
    ASSUME Kept, NEW b \in Batches, ChangeAcquireTrx(b)
    PROVE  ObjectInv' /\ ethlike
<1>1. /\ \E i \in 1..aged[b].finals:
            finals[b][i] = [op |-> "sign_final", state |-> "eth_sign"]
      /\ acquired[b] # "absent"
      /\ acquired' = [acquired EXCEPT ![b] = "uncreate"]
      /\ UNCHANGED <<user, batch, sign, signing, chain>>
  BY DEF ChangeAcquireTrx
<1>2. ObjectTypes /\ BatchInv(b)
  BY DEF Kept, ObjectInv
<1>3. ethlike
  <2>1. aged[b].finals > 0 /\ aged[b].finals <= Len(finals[b]) /\ aged[b].finals \in Nat
    BY <1>1, <1>2 DEF ObjectTypes, BatchInv, ObjectsAgree
  <2>2. Len(finals[b]) \in Nat
    BY <1>2 DEF ObjectTypes
  <2>3. finals[b] # <<>>
    BY <2>1, <2>2
  <2> QED BY <2>3, <1>2 DEF ObjectTypes, BatchInv, ObjectsAgree
<1>4. acquired' \in [Batches \cup Deposits -> AcquiredState]
  BY <1>1, <1>2 DEF ObjectTypes, AcquiredState
<1>5. \A y \in Batches: acquired'[y] = IF y = b THEN "uncreate" ELSE acquired[y]
  BY <1>1, <1>2 DEF ObjectTypes
<1>6. ObjectTypes'
  BY <1>1, <1>2, <1>4 DEF ObjectTypes, Kept, signing
<1>7. ObjectsAgree(b)'
  BY <1>1, <1>2 DEF BatchInv, ObjectsAgree, Kept, signing
<1>8. ChainAgrees(b)'
  BY <1>1, <1>2, <1>3, <1>5 DEF BatchInv, ChainAgrees, Kept
<1>9. Signed(b)'
  BY <1>1, <1>2 DEF BatchInv, Signed, Signers, signing
<1>10. \A c \in Batches: c # b => Frame(c)
  BY <1>1, <1>5 DEF Frame, Kept, signing
<1> QED BY <1>1, <1>3, <1>6, <1>7, <1>8, <1>9, <1>10, LocalStep DEF BatchInv

LEMMA WithdrawResultKeeps ==
    ASSUME Kept, NEW b \in Batches, WithdrawResult(b)
    PROVE  ObjectInv' /\ batch[b].state # "canceled"
<1> DEFINE done == {"combine", "eth_sign"}
<1>1. /\ acquired[b] = "uncreate"
      /\ acquired' = [acquired EXCEPT ![b] = "comfirmed"]
      /\ SetBatch(b, "confirm") /\ SetUsers(Users(b), "confirm")
      /\ RelateSigns(b, done, "confirm")
      /\ RelateCombine(b, done, "confirm")
      /\ RelateFinals(b, done, "confirm")
      /\ UNCHANGED <<aged, flight, chain>>
  BY DEF WithdrawResult
<1>2. "confirm" \in TrxState /\ done \in SUBSET TrxState
  BY DEF TrxState
<1>3. BatchInv(b) /\ ObjectTypes
  BY DEF Kept, ObjectInv
<1>4. /\ chain[b] = "success" /\ batch[b].state \in {"combine", "eth_sign", "confirm"}
      /\ combine[b] = batch[b].state
  BY <1>1, <1>3 DEF BatchInv, ObjectsAgree, ChainAgrees
<1>5. batch'[b].state = "confirm" /\ batch'[b].ids = batch[b].ids
  BY <1>1, <1>2, MoveTogether DEF Kept
<1>6. /\ sign' \in [Batches -> [Wallfacers -> TrxState \cup {"absent"}]]
      /\ Signers(b)' = Signers(b)
      /\ \A c \in Batches: c # b => sign'[c] = sign[c]
      /\ \A g \in Wallfacers: sign'[b][g] = IF sign[b][g] \in done THEN "confirm" ELSE sign[b][g]
  <2> HIDE DEF done
  <2> QED BY <1>1, <1>2, <1>3, RelateSignsKeeps
<1>7. /\ finals' \in [Batches -> Seq(FinalObject)]
      /\ \A c \in Batches: c # b => finals'[c] = finals[c]
      /\ Len(finals'[b]) = Len(finals[b])
      /\ finals'[b] = <<>> <=> finals[b] = <<>>
  <2> HIDE DEF done
  <2> QED BY <1>1, <1>2, <1>3, RelateFinalsKeeps
<1>8. /\ combine' = [combine EXCEPT ![b] = IF @ \in done THEN "confirm" ELSE @]
      /\ combine'[b] = "confirm"
  BY <1>1, <1>3, <1>4 DEF RelateCombine, ObjectTypes
<1>9. acquired'[b] = "comfirmed"
  BY <1>1, <1>3 DEF ObjectTypes
<1>10. ObjectsAgree(b)'
  <2>1. \A g \in Wallfacers: sign'[b][g] # "combine"
    BY <1>6
  <2> QED BY <2>1, <1>1, <1>3, <1>5, <1>7, <1>8 DEF BatchInv, ObjectsAgree, Kept
<1>11. ChainAgrees(b)'
  BY <1>1, <1>4, <1>5, <1>9 DEF ChainAgrees, Kept
<1>12. Signed(b)'
  BY <1>3, <1>4, <1>6 DEF BatchInv, Signed
<1>13. BatchInv(b)'
  BY <1>10, <1>11, <1>12 DEF BatchInv
<1>14. /\ combine' \in [Batches -> TrxState \cup {"absent"}]
       /\ aged' \in [Batches -> [signs: BOOLEAN, combine: BOOLEAN, finals: Nat]]
       /\ flight' \in [Batches -> Nat]
       /\ acquired' \in [Batches \cup Deposits -> AcquiredState]
       /\ chain' \in [Batches -> {"none", "sent", "success", "failed"}]
       /\ \A c \in Batches: c # b =>
            /\ combine'[c] = combine[c] /\ aged'[c] = aged[c] /\ flight'[c] = flight[c]
            /\ acquired'[c] = acquired[c] /\ chain'[c] = chain[c]
  BY <1>1, <1>2, <1>3, <1>8 DEF ObjectTypes, AcquiredState
<1>15. ObjectInv'
  <2> HIDE DEF done
  <2> QED BY <1>1, <1>2, <1>6, <1>7, <1>13, <1>14, MoveStep
<1> QED BY <1>15, <1>4

(* The three evaluators that cancel a batch call CancelBatch for a batch   *)
(* that still collects signatures, or whose transaction failed and has no  *)
(* final signature on its way.                                             *)
Cancelable(b) ==
    \/ batch[b].state = "without_sign"
    \/ /\ batch[b].state \in {"combine", "eth_sign"}
       /\ chain[b] = "failed" /\ flight[b] = 0

LEMMA CancelBatchKeeps ==
    ASSUME Kept, NEW b \in Batches, Cancelable(b), CancelBatch(b)
    PROVE  ObjectInv'
<1>1. /\ RelateSigns(b, TrxState, "canceled")
      /\ RelateCombine(b, TrxState, "canceled")
      /\ RelateFinals(b, TrxState, "canceled")
      /\ SetUsers(Users(b), "canceled") /\ SetBatch(b, "canceled")
      /\ UNCHANGED <<aged, flight, acquired, chain>>
  BY DEF CancelBatch
<1>2. "canceled" \in TrxState /\ TrxState \in SUBSET TrxState /\ "absent" \notin TrxState
  BY DEF TrxState
<1>3. BatchInv(b) /\ ObjectTypes
  BY DEF Kept, ObjectInv
<1>4. batch'[b].state = "canceled" /\ batch'[b].ids = batch[b].ids
  BY <1>1, <1>2, MoveTogether DEF Kept
<1>5. /\ sign' \in [Batches -> [Wallfacers -> TrxState \cup {"absent"}]]
      /\ Signers(b)' = Signers(b)
      /\ \A c \in Batches: c # b => sign'[c] = sign[c]
      /\ \A g \in Wallfacers: sign'[b][g] =
           IF sign[b][g] \in TrxState THEN "canceled" ELSE sign[b][g]
  BY <1>1, <1>2, <1>3, RelateSignsKeeps
<1>6. /\ finals' \in [Batches -> Seq(FinalObject)]
      /\ \A c \in Batches: c # b => finals'[c] = finals[c]
      /\ Len(finals'[b]) = Len(finals[b])
      /\ DOMAIN finals'[b] = DOMAIN finals[b]
      /\ finals'[b] = <<>> <=> finals[b] = <<>>
      /\ \A i \in DOMAIN finals[b]: finals'[b][i].state =
           IF finals[b][i].state \in TrxState THEN "canceled" ELSE finals[b][i].state
  BY <1>1, <1>2, <1>3, RelateFinalsKeeps
<1>7. \A i \in DOMAIN finals'[b]: finals'[b][i].state = "canceled"
  <2>1. \A i \in DOMAIN finals[b]: finals[b][i] \in FinalObject
    BY <1>3 DEF ObjectTypes
  <2> QED BY <2>1, <1>6 DEF FinalObject
<1>8. /\ combine' = [combine EXCEPT ![b] = IF @ \in TrxState THEN "canceled" ELSE @]
      /\ combine'[b] = IF combine[b] = "absent" THEN "absent" ELSE "canceled"
  BY <1>1, <1>2, <1>3 DEF RelateCombine, ObjectTypes
<1>9. /\ chain[b] \in {"none", "failed"} /\ acquired[b] = "absent"
      /\ combine[b] = "absent" <=> chain[b] = "none"
      /\ combine[b] = "absent" \/ flight[b] = 0
      /\ batch[b].state # "absent"
  BY <1>3 DEF Cancelable, BatchInv, ObjectsAgree, ChainAgrees
<1>10. ObjectsAgree(b)'
  <2>1. \A g \in Wallfacers: sign'[b][g] # "combine"
    BY <1>5 DEF TrxState
  <2> QED BY <2>1, <1>1, <1>3, <1>4, <1>6, <1>7, <1>8, <1>9 DEF BatchInv, ObjectsAgree, Kept
<1>11. ChainAgrees(b)'
  BY <1>1, <1>4, <1>9 DEF ChainAgrees, Kept
<1>12. Signed(b)'
  BY <1>1, <1>3, <1>5, <1>8, <1>9 DEF BatchInv, Signed
<1>13. BatchInv(b)'
  BY <1>10, <1>11, <1>12 DEF BatchInv
<1>14. /\ combine' \in [Batches -> TrxState \cup {"absent"}]
       /\ aged' \in [Batches -> [signs: BOOLEAN, combine: BOOLEAN, finals: Nat]]
       /\ flight' \in [Batches -> Nat]
       /\ acquired' \in [Batches \cup Deposits -> AcquiredState]
       /\ chain' \in [Batches -> {"none", "sent", "success", "failed"}]
       /\ \A c \in Batches: c # b =>
            /\ combine'[c] = combine[c] /\ aged'[c] = aged[c] /\ flight'[c] = flight[c]
            /\ acquired'[c] = acquired[c] /\ chain'[c] = chain[c]
  BY <1>1, <1>2, <1>3, <1>8 DEF ObjectTypes, AcquiredState
<1> QED BY <1>1, <1>2, <1>5, <1>6, <1>13, <1>14, MoveStep

LEMMA CancelsAreCancelable ==
    ASSUME ObjectInv, NEW b \in Batches,
           RefundCrosschainTrx(b) \/ CancelCombineTrx(b) \/ EthCancelFail(b)
    PROVE  Cancelable(b) /\ CancelBatch(b)
<1>1. BatchInv(b) /\ ObjectTypes
  BY DEF ObjectInv
<1>2. CASE RefundCrosschainTrx(b)
  BY <1>2 DEF RefundCrosschainTrx, Cancelable
<1>3. CASE CancelCombineTrx(b)
  <2>1. /\ combine[b] = "combine" \/ \E g \in Wallfacers: sign[b][g] = "combine"
        /\ chain[b] = "failed" /\ CancelBatch(b)
    BY <1>3 DEF CancelCombineTrx
  <2>2. batch[b].state = "combine" /\ ~ethlike
    BY <2>1, <1>1 DEF BatchInv, ObjectsAgree
  <2> QED BY <2>1, <2>2, <1>1 DEF Cancelable, BatchInv, ObjectsAgree
<1>4. CASE EthCancelFail(b)
  <2>1. PICK i \in 1..aged[b].finals:
           finals[b][i] = [op |-> "sign_final", state |-> "eth_sign"]
    BY <1>4 DEF EthCancelFail
  <2>2. chain[b] = "failed" /\ CancelBatch(b)
    BY <1>4 DEF EthCancelFail
  <2>3. /\ aged[b].finals \in Nat /\ Len(finals[b]) \in Nat
        /\ DOMAIN finals[b] = 1..Len(finals[b])
        /\ aged[b].finals <= Len(finals[b]) /\ i \in Nat
    BY <1>1, <2>1 DEF ObjectTypes, BatchInv, ObjectsAgree
  <2>4. i \in DOMAIN finals[b] /\ aged[b].finals > 0 /\ Len(finals[b]) # 0
    BY <2>1, <2>3
  <2>5. finals[b][i].state = "eth_sign" /\ finals[b] # <<>>
    BY <2>1, <2>4
  <2>6. batch[b].state = "eth_sign" /\ flight[b] = 0
    BY <2>2, <2>4, <2>5, <1>1 DEF BatchInv, ObjectsAgree, ChainAgrees
  <2> QED BY <2>2, <2>6 DEF Cancelable
<1> QED BY <1>2, <1>3, <1>4

LEMMA PassSuccessTrxKeeps ==
    ASSUME Kept, NEW b \in Batches, PassSuccessTrx(b)
    PROVE  ObjectInv' /\ batch[b].state # "canceled"
<1>1. /\ combine[b] = "combine" /\ chain[b] = "success"
      /\ SetBatch(b, "confirm") /\ SetUsers(Users(b), "confirm")
      /\ RelateSigns(b, TrxState, "confirm")
      /\ RelateCombine(b, TrxState, "confirm")
      /\ RelateFinals(b, TrxState, "confirm")
      /\ UNCHANGED <<aged, flight, acquired, chain>>
  BY DEF PassSuccessTrx
<1>2. "confirm" \in TrxState /\ TrxState \in SUBSET TrxState /\ "combine" \in TrxState
  BY DEF TrxState
<1>3. BatchInv(b) /\ ObjectTypes
  BY DEF Kept, ObjectInv
<1>4. batch[b].state = "combine" /\ ~ethlike
  BY <1>1, <1>3 DEF BatchInv, ObjectsAgree
<1>5. batch'[b].state = "confirm" /\ batch'[b].ids = batch[b].ids
  BY <1>1, <1>2, MoveTogether DEF Kept
<1>6. /\ sign' \in [Batches -> [Wallfacers -> TrxState \cup {"absent"}]]
      /\ Signers(b)' = Signers(b)
      /\ \A c \in Batches: c # b => sign'[c] = sign[c]
      /\ \A g \in Wallfacers: sign'[b][g] =
           IF sign[b][g] \in TrxState THEN "confirm" ELSE sign[b][g]
  BY <1>1, <1>2, <1>3, RelateSignsKeeps
<1>7. /\ finals' \in [Batches -> Seq(FinalObject)]
      /\ \A c \in Batches: c # b => finals'[c] = finals[c]
      /\ Len(finals'[b]) = Len(finals[b])
      /\ finals'[b] = <<>> <=> finals[b] = <<>>
  BY <1>1, <1>2, <1>3, RelateFinalsKeeps
<1>8. /\ combine' = [combine EXCEPT ![b] = IF @ \in TrxState THEN "confirm" ELSE @]
      /\ combine'[b] = "confirm"
  BY <1>1, <1>2, <1>3 DEF RelateCombine, ObjectTypes
<1>9. ObjectsAgree(b)'
  <2>1. \A g \in Wallfacers: sign'[b][g] # "combine"
    BY <1>6 DEF TrxState
  <2> QED BY <2>1, <1>1, <1>3, <1>4, <1>5, <1>7, <1>8 DEF BatchInv, ObjectsAgree, Kept
<1>10. ChainAgrees(b)'
  BY <1>1, <1>3, <1>5 DEF BatchInv, ChainAgrees, Kept
<1>11. Signed(b)'
  BY <1>1, <1>3, <1>6 DEF BatchInv, Signed
<1>12. BatchInv(b)'
  BY <1>9, <1>10, <1>11 DEF BatchInv
<1>13. /\ combine' \in [Batches -> TrxState \cup {"absent"}]
       /\ aged' \in [Batches -> [signs: BOOLEAN, combine: BOOLEAN, finals: Nat]]
       /\ flight' \in [Batches -> Nat]
       /\ acquired' \in [Batches \cup Deposits -> AcquiredState]
       /\ chain' \in [Batches -> {"none", "sent", "success", "failed"}]
       /\ \A c \in Batches: c # b =>
            /\ combine'[c] = combine[c] /\ aged'[c] = aged[c] /\ flight'[c] = flight[c]
            /\ acquired'[c] = acquired[c] /\ chain'[c] = chain[c]
  BY <1>1, <1>2, <1>3, <1>8 DEF ObjectTypes, AcquiredState
<1>14. ObjectInv'
  BY <1>1, <1>2, <1>6, <1>7, <1>12, <1>13, MoveStep
<1> QED BY <1>4, <1>14

LEMMA EthCancelUnsignedKeeps ==
    ASSUME Kept, NEW b \in Batches, EthCancelUnsigned(b)
    PROVE  ObjectInv' /\ batch[b].state # "canceled"
<1>1. /\ combine[b] = "need_sign"
      /\ RelateSigns(b, TrxState, "sign")
      /\ RelateFinals(b, TrxState, "sign")
      /\ SetUsers(Users(b), "without_sign") /\ SetBatch(b, "without_sign")
      /\ combine' = [combine EXCEPT ![b] = "absent"]
      /\ flight' = [flight EXCEPT ![b] = 0]
      /\ UNCHANGED <<aged, acquired, chain>>
  BY DEF EthCancelUnsigned
<1>2. "sign" \in TrxState /\ "without_sign" \in TrxState /\ TrxState \in SUBSET TrxState
  BY DEF TrxState
<1>3. BatchInv(b) /\ ObjectTypes
  BY DEF Kept, ObjectInv
<1>4. batch[b].state = "need_sign" /\ ethlike /\ chain[b] = "none" /\ finals[b] = <<>>
  BY <1>1, <1>3 DEF BatchInv, ObjectsAgree, ChainAgrees
<1>5. batch'[b].state = "without_sign" /\ batch'[b].ids = batch[b].ids
  BY <1>1, <1>2, MoveTogether DEF Kept
<1>6. /\ sign' \in [Batches -> [Wallfacers -> TrxState \cup {"absent"}]]
      /\ \A c \in Batches: c # b => sign'[c] = sign[c]
      /\ \A g \in Wallfacers: sign'[b][g] = IF sign[b][g] \in TrxState THEN "sign" ELSE sign[b][g]
  BY <1>1, <1>2, <1>3, RelateSignsKeeps
<1>7. /\ finals' \in [Batches -> Seq(FinalObject)]
      /\ \A c \in Batches: c # b => finals'[c] = finals[c]
      /\ Len(finals'[b]) = Len(finals[b])
      /\ finals'[b] = <<>> <=> finals[b] = <<>>
  BY <1>1, <1>2, <1>3, RelateFinalsKeeps
<1>8. combine'[b] = "absent" /\ flight'[b] = 0
  BY <1>1, <1>3 DEF ObjectTypes
<1>9. ObjectsAgree(b)'
  <2>1. \A g \in Wallfacers: sign'[b][g] # "combine"
    BY <1>6 DEF TrxState
  <2> QED BY <2>1, <1>1, <1>3, <1>4, <1>5, <1>7, <1>8 DEF BatchInv, ObjectsAgree, Kept
<1>10. ChainAgrees(b)'
  BY <1>1, <1>3, <1>4, <1>5 DEF BatchInv, ChainAgrees, Kept
<1>11. Signed(b)'
  BY <1>1, <1>4, <1>8 DEF Signed
<1>12. BatchInv(b)'
  BY <1>9, <1>10, <1>11 DEF BatchInv
<1>13. /\ combine' \in [Batches -> TrxState \cup {"absent"}]
       /\ aged' \in [Batches -> [signs: BOOLEAN, combine: BOOLEAN, finals: Nat]]
       /\ flight' \in [Batches -> Nat]
       /\ acquired' \in [Batches \cup Deposits -> AcquiredState]
       /\ chain' \in [Batches -> {"none", "sent", "success", "failed"}]
       /\ \A c \in Batches: c # b =>
            /\ combine'[c] = combine[c] /\ aged'[c] = aged[c] /\ flight'[c] = flight[c]
            /\ acquired'[c] = acquired[c] /\ chain'[c] = chain[c]
  BY <1>1, <1>3 DEF ObjectTypes
<1>14. ObjectInv'
  BY <1>1, <1>2, <1>4, <1>6, <1>7, <1>12, <1>13, MoveStep
<1> QED BY <1>4, <1>14

(* ObjectInv is kept by every step, whatever happens to the ledger.        *)
LEMMA ObjectInvNext ==
    ASSUME ObjectInv, [Next]_vars
    PROVE  ObjectInv'
<1>1. CASE UNCHANGED vars
  <2>1. \A b \in Batches: BatchInv(b)'
    BY <1>1, FrameKeeps DEF ObjectInv, Frame, vars, signing
  <2>2. ObjectTypes'
    BY <1>1 DEF ObjectInv, ObjectTypes, vars, signing
  <2> QED BY <1>1, <2>1, <2>2, SameBatches DEF ObjectInv, vars
<1>2. ASSUME Kept, Step PROVE ObjectInv'
  <2>1. ASSUME NEW w \in Withdraws, Withdraw(w) PROVE ObjectInv'
    BY <1>2, <2>1, UserStep DEF Withdraw
  <2>2. ASSUME NEW w \in Withdraws, RefundBalance(w) PROVE ObjectInv'
    BY <1>2, <2>2, UserStep DEF RefundBalance
  <2>3. ASSUME NEW b \in Batches,
               RefundCrosschainTrx(b) \/ CancelCombineTrx(b) \/ EthCancelFail(b)
        PROVE  ObjectInv'
    <3>1. Cancelable(b) /\ CancelBatch(b)
      BY <2>3, CancelsAreCancelable
    <3> QED BY <3>1, <1>2, CancelBatchKeeps
  <2> QED BY <1>2, <2>1, <2>2, <2>3, DepositActionsKeep, AcquireRecordKeeps,
             WithoutSignKeeps, WithSignKeeps, CombineSignKeeps, WalletSignFinalKeeps,
             SignFinalKeeps, ChangeSignerKeeps, ChainExecutesKeeps, WithdrawResultKeeps,
             PassSuccessTrxKeeps, EthCancelUnsignedKeeps, ChangeAcquireTrxKeeps,
             Blocks720Keeps
          DEF Step
<1> QED BY <1>1, <1>2 DEF Next, Kept

LEMMA ObjectInvInit ==
    ASSUME Init
    PROVE  ObjectInv
<1>1. ObjectTypes
  <2>1. NoBatch \in [state: TrxState \cup {"absent"}, ids: SUBSET Withdraws, fee: Nat]
    BY DEF NoBatch
  <2>2. [signs |-> FALSE, combine |-> FALSE, finals |-> 0]
           \in [signs: BOOLEAN, combine: BOOLEAN, finals: Nat]
    OBVIOUS
  <2>3. <<>> \in Seq(FinalObject)
    OBVIOUS
  <2> QED BY <2>1, <2>2, <2>3 DEF Init, ObjectTypes, AcquiredState
<1>2. \A b \in Batches: batch[b] = NoBatch /\ NoBatch.state = "absent" /\ NoBatch.ids = {}
  BY DEF Init, NoBatch
<1>3. BatchAgrees
  BY <1>2 DEF BatchAgrees, Users
<1>4. ASSUME NEW b \in Batches PROVE BatchInv(b)
  <2>1. /\ combine[b] = "absent" /\ finals[b] = <<>> /\ aged[b].finals = 0 /\ flight[b] = 0
        /\ acquired[b] = "absent" /\ chain[b] = "none"
        /\ \A g \in Wallfacers: sign[b][g] = "absent"
    BY DEF Init
  <2> QED BY <2>1, <1>2 DEF BatchInv, ObjectsAgree, ChainAgrees, Signed
<1>5. Unbatched
  BY DEF Init, Unbatched
<1>6. OneInProgress
  BY <1>2 DEF OneInProgress
<1> QED BY <1>1, <1>3, <1>4, <1>5, <1>6 DEF ObjectInv

LEMMA ObjectInvariant == Spec => []ObjectInv
<1>1. Init => ObjectInv
  BY ObjectInvInit
<1>2. ObjectInv /\ [Next]_vars => ObjectInv'
  BY ObjectInvNext
<1> QED BY <1>1, <1>2, PTL DEF Spec

-----------------------------------------------------------------------------
(* First theorems.                                                         *)

(* BatchAgrees: the objects of a batch's users follow the batch through    *)
(* every evaluator, and no withdrawal is in two batches.                   *)
THEOREM UsersFollowBatch == Spec => []BatchAgrees
<1>1. ObjectInv => BatchAgrees
  BY DEF ObjectInv
<1> QED BY <1>1, ObjectInvariant, PTL

(* OneInProgress: a BTC-like asset has at most one batch on its way.       *)
THEOREM OneBatchAtATime == Spec => []OneInProgress
<1>1. ObjectInv => OneInProgress
  BY DEF ObjectInv
<1> QED BY <1>1, ObjectInvariant, PTL

(* SignedByQuorum: what was sent has more than two thirds of signatures.   *)
THEOREM SentIsSigned == Spec => []SignedByQuorum
<1>1. ASSUME ObjectInv PROVE SignedByQuorum
  <2> SUFFICES ASSUME NEW b \in Batches, chain[b] # "none"
               PROVE  3 * Cardinality(Signers(b)) > 2 * Cardinality(Wallfacers)
    BY DEF SignedByQuorum, Signers
  <2>1. Cardinality(Signers(b)) >= Quorum
    BY <1>1 DEF ObjectInv, BatchInv, Signed
  <2>2. Cardinality(Wallfacers) \in Nat
    BY FS_CardinalityType
  <2>3. Cardinality(Signers(b)) \in Nat
    BY FS_Subset, FS_CardinalityType DEF Signers
  <2> QED BY <2>1, <2>2, <2>3 DEF Quorum
<1> QED BY <1>1, ObjectInvariant, PTL

-----------------------------------------------------------------------------
(* The ledger.                                                             *)

LEMMA SumsAgree ==
    ASSUME NEW S
    PROVE  /\ Sum(S) = SumOf(Amount, S)
           /\ \A f: Total(f, S) = SumOf(f, S)
           /\ \A a: AmountOf(S, a) = SumOf(Amount, {t \in S: Owner[t] = a})
           /\ \A a: Escrow!AmountOf(S, a) = AmountOf(S, a)
<1>1. Sum(S) = SumOf(Amount, S)
  BY DEF Sum, SumOf
<1>2. ASSUME NEW f PROVE Total(f, S) = SumOf(f, S)
  BY DEF Total, SumOf
<1>3. ASSUME NEW a PROVE AmountOf(S, a) = SumOf(Amount, {t \in S: Owner[t] = a})
  BY DEF AmountOf, Sum, SumOf
<1>4. ASSUME NEW a PROVE Escrow!AmountOf(S, a) = SumOf(Amount, {t \in S: Owner[t] = a})
  BY DEF Escrow!AmountOf, Escrow!MapThenSumSet, Escrow!MapThenFoldSet,
         SumOf, MapThenSumSet, MapThenFoldSet
<1>5. ASSUME NEW a PROVE Escrow!AmountOf(S, a) = AmountOf(S, a)
  BY <1>3, <1>4, Zenon
<1> QED BY <1>1, <1>2, <1>3, <1>5

LEMMA FeesTyped ==
    ASSUME ObjectTypes, NEW B \in SUBSET Batches
    PROVE  /\ IsFiniteSet(B) /\ \A b \in Batches: FeeOf[b] = batch[b].fee /\ FeeOf[b] \in Nat
           /\ SumOf(FeeOf, B) \in Nat
<1>1. IsFiniteSet(B)
  <2>1. IsFiniteSet(1..MaxBatches)
    BY FS_Interval
  <2> QED BY <2>1, FS_Subset
<1>2. \A b \in Batches: FeeOf[b] = batch[b].fee /\ FeeOf[b] \in Nat
  BY DEF ObjectTypes, FeeOf
<1> QED BY <1>1, <1>2, SumNat

(* A step that leaves the amounts alone.                                   *)
LEMMA LedgerSame ==
    ASSUME ObjectInv, LedgerInv, UNCHANGED <<ethlike, ledger>>,
           \A b \in Batches: batch'[b].fee = batch[b].fee,
           \A b \in Batches: batch'[b].state = "canceled" <=> batch[b].state = "canceled",
           ethlike \/ \A b \in Batches: acquired'[b] = "comfirmed" <=> acquired[b] = "comfirmed"
    PROVE  LedgerInv'
<1>1. FeeOf' = FeeOf /\ Outstanding' = Outstanding
  BY DEF FeeOf, Outstanding
<1>2. ~ethlike => Confirmed' = Confirmed
  BY DEF Confirmed
<1>3. LedgerTypes'
  BY DEF LedgerInv, LedgerTypes, ledger
<1> QED BY <1>1, <1>2, <1>3 DEF LedgerInv, ledger

(* A step that changes the balance of one account together with the        *)
(* supply.                                                                 *)
LEMMA LedgerOneAccount ==
    ASSUME ObjectInv, LedgerInv, NEW a \in Accounts, NEW n \in Nat,
           balance' = [balance EXCEPT ![a] = n],
           supply' = supply - balance[a] + n,
           UNCHANGED <<ethlike, collected, batch>>,
           \A b \in Batches: acquired'[b] = acquired[b]
    PROVE  LedgerInv'
<1>1. FeeOf' = FeeOf /\ Outstanding' = Outstanding /\ Confirmed' = Confirmed
  BY DEF FeeOf, Outstanding, Confirmed
<1>2. /\ balance \in [Accounts -> Nat] /\ balance' \in [Accounts -> Nat]
      /\ balance'[a] = n /\ \A x \in Accounts \ {a}: balance[x] = balance'[x]
      /\ supply \in Nat /\ collected \in Nat
  BY DEF LedgerInv, LedgerTypes
<1>3. /\ SumOf(balance', Accounts) = SumOf(balance, Accounts) - balance[a] + n
      /\ SumOf(balance, Accounts) \in Nat /\ SumOf(balance, Accounts) >= balance[a]
  <2>1. \A x \in Accounts: balance[x] \in Nat /\ balance'[x] \in Nat
    BY <1>2
  <2>2. \A x \in Accounts \ {a}: balance[x] = balance'[x]
    BY <1>2
  <2>3. /\ SumOf(balance', Accounts) = SumOf(balance, Accounts) - balance[a] + balance'[a]
        /\ SumOf(balance, Accounts) \in Nat /\ SumOf(balance, Accounts) >= balance[a]
    <3>1. IsFiniteSet(Accounts)
      OBVIOUS
    <3> QED BY ONLY <2>1, <2>2, <3>1, a \in Accounts, SumChange
  <2> QED BY <2>3, <1>2
<1>4. SumOf(FeeOf, Outstanding) \in Nat
  BY FeesTyped DEF ObjectInv, Outstanding
<1>5. balance[a] \in Nat
  BY <1>2
<1>6. supply' \in Nat /\ supply' = SumOf(balance', Accounts) + SumOf(FeeOf, Outstanding)
  BY <1>2, <1>3, <1>4, <1>5 DEF LedgerInv
<1> QED BY <1>1, <1>2, <1>6 DEF LedgerInv, LedgerTypes

LEMMA LedgerWithoutSign ==
    ASSUME ObjectInv, ObjectInv', LedgerInv, ethlike' = ethlike,
           NEW b \in Batches, NEW S \in SUBSET Withdraws, WithoutSign(b, S)
    PROVE  LedgerInv'
<1> DEFINE fee == Cardinality(S) * FeePool - NetFee
<1>1. /\ batch[b].state = "absent"
      /\ batch' = [batch EXCEPT ![b] = [state |-> "without_sign", ids |-> S, fee |-> fee]]
      /\ supply' = supply + fee
      /\ UNCHANGED <<balance, collected, acquired>>
  BY DEF WithoutSign
<1> HIDE DEF fee
<1>2. /\ batch'[b].state = "without_sign" /\ batch'[b].fee = fee
      /\ \A c \in Batches: c # b => batch'[c] = batch[c]
  BY <1>1 DEF ObjectInv, ObjectTypes
<1>3. batch[b].fee = 0 /\ acquired[b] = "absent"
  BY <1>1, SMTT(30) DEF ObjectInv, BatchInv, ObjectsAgree, ChainAgrees, NoBatch
<1>4. Outstanding' = Outstanding /\ b \in Outstanding /\ Confirmed' = Confirmed /\ b \notin Confirmed
  BY <1>1, <1>2, <1>3 DEF Outstanding, Confirmed
<1>5. /\ \A c \in Batches: /\ FeeOf[c] = batch[c].fee /\ FeeOf[c] \in Nat
                           /\ FeeOf'[c] = batch'[c].fee /\ FeeOf'[c] \in Nat
      /\ IsFiniteSet(Outstanding) /\ IsFiniteSet(Confirmed)
      /\ SumOf(FeeOf, Outstanding) \in Nat
  <2>1. ObjectTypes /\ ObjectTypes' /\ Outstanding \in SUBSET Batches /\ Confirmed \in SUBSET Batches
    BY DEF ObjectInv, Outstanding, Confirmed
  <2>2. \A c \in Batches: FeeOf'[c] = batch'[c].fee /\ FeeOf'[c] \in Nat
    BY <2>1 DEF FeeOf, ObjectTypes
  <2> QED BY <2>1, <2>2, FeesTyped
<1>6. SumOf(FeeOf', Outstanding) = SumOf(FeeOf, Outstanding) + fee /\ fee \in Nat
  <2>1. \A c \in Outstanding: FeeOf[c] \in Nat /\ FeeOf'[c] \in Nat
    BY <1>5 DEF Outstanding
  <2>2. \A c \in Outstanding \ {b}: FeeOf[c] = FeeOf'[c]
    BY <1>2, <1>5 DEF Outstanding
  <2>3. FeeOf[b] = 0 /\ FeeOf'[b] = fee /\ fee \in Nat
    BY <1>2, <1>3, <1>5
  <2>4. SumOf(FeeOf', Outstanding) = SumOf(FeeOf, Outstanding) - FeeOf[b] + FeeOf'[b]
    BY <2>1, <2>2, <1>4, <1>5, SumChange
  <2> QED BY <2>3, <2>4, <1>5
<1>7. SumOf(FeeOf', Confirmed) = SumOf(FeeOf, Confirmed)
  <2>1. \A c \in Confirmed: FeeOf'[c] = FeeOf[c]
    BY <1>2, <1>4, <1>5 DEF Confirmed
  <2> QED BY <2>1, <1>5, SumEqual
<1>8. /\ supply \in Nat /\ SumOf(balance, Accounts) \in Nat /\ balance \in [Accounts -> Nat]
      /\ collected \in Nat
  <2>1. balance \in [Accounts -> Nat] /\ supply \in Nat /\ collected \in Nat
    BY DEF LedgerInv, LedgerTypes
  <2> QED BY <2>1, SumNat
<1>9. supply' \in Nat /\ supply' = SumOf(balance, Accounts) + SumOf(FeeOf', Outstanding)
  BY <1>1, <1>5, <1>6, <1>8 DEF LedgerInv
<1> QED BY <1>1, <1>4, <1>7, <1>8, <1>9 DEF LedgerInv, LedgerTypes

(* CancelBatch pays every user of the batch back and takes the fee of the  *)
(* batch out of the supply.                                                *)
LEMMA LedgerCancel ==
    ASSUME ObjectInv, LedgerInv, ethlike' = ethlike,
           NEW b \in Batches, Cancelable(b), CancelBatch(b)
    PROVE  LedgerInv'
<1>1. /\ balance' = [a \in Accounts |-> balance[a] + AmountOf(Users(b), a)]
      /\ supply' = supply + Sum(Users(b)) - batch[b].fee
      /\ SetUsers(Users(b), "canceled") /\ SetBatch(b, "canceled")
      /\ UNCHANGED <<collected, acquired>>
  BY DEF CancelBatch
<1>2. \A c \in Batches: /\ batch'[c].state = IF c = b THEN "canceled" ELSE batch[c].state
                        /\ batch'[c].fee = batch[c].fee
  BY <1>1, MoveTogether DEF TrxState
<1>3. FeeOf' = FeeOf /\ Confirmed' = Confirmed
  BY <1>1, <1>2 DEF FeeOf, Confirmed
<1>4. Outstanding' = Outstanding \ {b} /\ b \in Outstanding
  BY <1>2 DEF Outstanding, Cancelable
<1>5. /\ SumOf(FeeOf, Outstanding) = batch[b].fee + SumOf(FeeOf, Outstanding')
      /\ SumOf(FeeOf, Outstanding') \in Nat /\ batch[b].fee \in Nat
  <2>1. Outstanding \in SUBSET Batches /\ Outstanding' \in SUBSET Batches /\ ObjectTypes
    BY DEF Outstanding, ObjectInv
  <2>2. /\ IsFiniteSet(Outstanding) /\ SumOf(FeeOf, Outstanding') \in Nat
        /\ \A c \in Batches: FeeOf[c] = batch[c].fee /\ FeeOf[c] \in Nat
    BY <2>1, FeesTyped
  <2>3. SumOf(FeeOf, Outstanding) = FeeOf[b] + SumOf(FeeOf, Outstanding \ {b})
    BY <2>1, <2>2, <1>4, SumRemove
  <2> QED BY <2>2, <2>3, <1>4
<1> DEFINE S == Users(b)
           h == ByOwner(Amount, S, Owner, Accounts)
<1>6. /\ S \in SUBSET Withdraws /\ IsFiniteSet(S)
      /\ \A t \in S: Amount[t] \in Nat /\ Owner[t] \in Accounts
  <2>1. S \in SUBSET Withdraws
    BY DEF ObjectInv, ObjectTypes, Users
  <2> HIDE DEF S
  <2> QED BY <2>1, FS_Subset
<1> HIDE DEF S
<1>7. \A a \in Accounts: h[a] \in Nat
  <2>1. ASSUME NEW a \in Accounts PROVE SumOf(Amount, {t \in S: Owner[t] = a}) \in Nat
    <3>1. IsFiniteSet({t \in S: Owner[t] = a})
      BY <1>6, FS_Subset
    <3> QED BY <3>1, <1>6, SumNat
  <2> QED BY <2>1 DEF ByOwner
<1>8. SumOf(h, Accounts) = SumOf(Amount, S)
  BY <1>6, SumByOwner
<1>9. balance \in [Accounts -> Nat] /\ supply \in Nat /\ collected \in Nat
  BY DEF LedgerInv, LedgerTypes
<1>10. \A a \in Accounts: balance'[a] = balance[a] + h[a]
  BY <1>1, SumsAgree DEF S, ByOwner
<1>11. balance' \in [Accounts -> Nat]
  <2>1. \A a \in Accounts: balance[a] + h[a] \in Nat
    BY <1>7, <1>9
  <2>2. balance' = [a \in Accounts |-> balance'[a]]
    BY <1>1
  <2> HIDE DEF h
  <2> QED BY <2>1, <2>2, <1>10
<1>12. SumOf(balance', Accounts) = SumOf(balance, Accounts) + SumOf(Amount, S)
  <2>1. \A a \in Accounts: balance[a] \in Nat /\ h[a] \in Nat /\ balance'[a] = balance[a] + h[a]
    BY <1>7, <1>9, <1>10
  <2> HIDE DEF h
  <2>2. SumOf(balance', Accounts) = SumOf(balance, Accounts) + SumOf(h, Accounts)
    BY <2>1, SumPlus
  <2> QED BY <2>2, <1>8
<1>13. SumOf(balance, Accounts) \in Nat /\ SumOf(Amount, S) \in Nat
  BY <1>6, <1>9, SumNat
<1>14. supply' = supply + SumOf(Amount, S) - batch[b].fee
  BY <1>1, SumsAgree DEF S
<1>15. supply' \in Nat /\ supply' = SumOf(balance', Accounts) + SumOf(FeeOf, Outstanding')
  BY <1>5, <1>9, <1>12, <1>13, <1>14 DEF LedgerInv
<1> QED BY <1>1, <1>3, <1>9, <1>11, <1>15 DEF LedgerInv, LedgerTypes

LEMMA LedgerResult ==
    ASSUME ObjectInv, LedgerInv, ethlike' = ethlike,
           NEW b \in Batches, WithdrawResult(b)
    PROVE  LedgerInv'
<1>1. /\ acquired[b] = "uncreate"
      /\ acquired' = [acquired EXCEPT ![b] = "comfirmed"]
      /\ SetBatch(b, "confirm") /\ SetUsers(Users(b), "confirm")
      /\ collected' = collected + batch[b].fee
      /\ UNCHANGED <<balance, supply>>
  BY DEF WithdrawResult
<1>2. batch[b].state # "canceled"
  BY <1>1 DEF ObjectInv, BatchInv, ChainAgrees
<1>3. \A c \in Batches: /\ batch'[c].state = IF c = b THEN "confirm" ELSE batch[c].state
                        /\ batch'[c].fee = batch[c].fee
  BY <1>1, MoveTogether DEF TrxState
<1>4. FeeOf' = FeeOf /\ Outstanding' = Outstanding
  BY <1>2, <1>3 DEF FeeOf, Outstanding
<1>5. Confirmed' = Confirmed \cup {b} /\ b \notin Confirmed
  BY <1>1 DEF Confirmed, ObjectInv, ObjectTypes
<1>6. /\ SumOf(FeeOf, Confirmed') = batch[b].fee + SumOf(FeeOf, Confirmed)
      /\ batch[b].fee \in Nat /\ SumOf(FeeOf, Confirmed) \in Nat
  <2>1. Confirmed \in SUBSET Batches /\ ObjectTypes
    BY DEF Confirmed, ObjectInv
  <2>2. /\ IsFiniteSet(Confirmed) /\ SumOf(FeeOf, Confirmed) \in Nat
        /\ \A c \in Batches: FeeOf[c] = batch[c].fee /\ FeeOf[c] \in Nat
    BY <2>1, FeesTyped
  <2>3. SumOf(FeeOf, Confirmed \cup {b}) = FeeOf[b] + SumOf(FeeOf, Confirmed)
    BY <2>1, <2>2, <1>5, SumAdd
  <2> QED BY <2>2, <2>3, <1>5
<1>7. LedgerTypes'
  BY <1>1, <1>6 DEF LedgerInv, LedgerTypes
<1>8. ~ethlike => collected' = SumOf(FeeOf, Confirmed')
  BY <1>1, <1>6 DEF LedgerInv
<1> QED BY <1>1, <1>4, <1>7, <1>8 DEF LedgerInv

(* LedgerInv is kept by every step.                                        *)
LEMMA LedgerInvNext ==
    ASSUME ObjectInv, ObjectInv', LedgerInv, [Next]_vars
    PROVE  LedgerInv'
<1> USE DEF ledger, signing
<1>1. CASE UNCHANGED vars
  BY <1>1, LedgerSame DEF vars
<1>2. ASSUME Step, ethlike' = ethlike PROVE LedgerInv'
  <2>0. ObjectTypes /\ Kept
    BY <1>2 DEF ObjectInv, Kept
  <2>1. ASSUME NEW w \in Withdraws, Withdraw(w) PROVE LedgerInv'
    <3>1. /\ balance[Owner[w]] >= Amount[w]
          /\ balance' = [balance EXCEPT ![Owner[w]] = balance[Owner[w]] - Amount[w]]
          /\ supply' = supply - Amount[w] /\ UNCHANGED <<collected, batch, acquired>>
      BY <2>1 DEF Withdraw
    <3>2. /\ Owner[w] \in Accounts /\ Amount[w] \in Nat /\ balance[Owner[w]] \in Nat
          /\ supply \in Nat
      BY DEF LedgerInv, LedgerTypes
    <3>3. /\ balance[Owner[w]] - Amount[w] \in Nat
          /\ supply' = supply - balance[Owner[w]] + (balance[Owner[w]] - Amount[w])
      BY <3>1, <3>2
    <3> QED BY <3>1, <3>2, <3>3, <1>2, LedgerOneAccount
  <2>2. ASSUME NEW w \in Withdraws, RefundBalance(w) PROVE LedgerInv'
    <3>1. /\ balance' = [balance EXCEPT ![Owner[w]] = balance[Owner[w]] + Amount[w]]
          /\ supply' = supply + Amount[w] /\ UNCHANGED <<collected, batch, acquired>>
      BY <2>2 DEF RefundBalance
    <3>2. /\ Owner[w] \in Accounts /\ Amount[w] \in Nat /\ balance[Owner[w]] \in Nat
          /\ supply \in Nat
      BY DEF LedgerInv, LedgerTypes
    <3>3. /\ balance[Owner[w]] + Amount[w] \in Nat
          /\ supply' = supply - balance[Owner[w]] + (balance[Owner[w]] + Amount[w])
      BY <3>1, <3>2
    <3> QED BY <3>1, <3>2, <3>3, <1>2, LedgerOneAccount
  <2>3. ASSUME NEW d \in Deposits, DepositRecord(d) PROVE LedgerInv'
    <3>1. /\ balance' = [balance EXCEPT ![Owner[d]] = balance[Owner[d]] + Amount[d]]
          /\ supply' = supply + Amount[d] /\ UNCHANGED <<collected, batch>>
          /\ acquired' = [acquired EXCEPT ![d] = "create"]
      BY <2>3 DEF DepositRecord
    <3>2. /\ Owner[d] \in Accounts /\ Amount[d] \in Nat /\ balance[Owner[d]] \in Nat
          /\ supply \in Nat
      BY DEF LedgerInv, LedgerTypes
    <3>3. /\ balance[Owner[d]] + Amount[d] \in Nat
          /\ supply' = supply - balance[Owner[d]] + (balance[Owner[d]] + Amount[d])
      BY <3>1, <3>2
    <3>4. \A b \in Batches: acquired'[b] = acquired[b]
      BY <3>1, <2>0 DEF ObjectTypes
    <3> QED BY <3>1, <3>2, <3>3, <3>4, <1>2, LedgerOneAccount
  <2>4. ASSUME NEW d \in Deposits, DepositRefused(d) PROVE LedgerInv'
    BY <2>4, <2>0, <1>2, LedgerSame DEF DepositRefused, ObjectTypes
  <2>5. ASSUME NEW x \in Batches \cup Deposits, AcquireRecord(x) PROVE LedgerInv'
    <3>1. \A b \in Batches: acquired'[b] = "comfirmed" <=> acquired[b] = "comfirmed"
      BY <2>5, <2>0 DEF AcquireRecord, ObjectTypes
    <3> QED BY <3>1, <2>5, <1>2, LedgerSame DEF AcquireRecord
  <2>6. ASSUME PendingReset PROVE LedgerInv'
    <3>1. \A b \in Batches: acquired'[b] = "comfirmed" <=> acquired[b] = "comfirmed"
      BY <2>6, <2>0 DEF PendingReset, ObjectTypes
    <3> QED BY <3>1, <2>6, <1>2, LedgerSame DEF PendingReset
  <2>7. ASSUME NEW b \in Batches, NEW S \in SUBSET Withdraws, WithoutSign(b, S)
        PROVE  LedgerInv'
    BY <2>7, <1>2, LedgerWithoutSign
  <2>8. ASSUME NEW b \in Batches,
               RefundCrosschainTrx(b) \/ CancelCombineTrx(b) \/ EthCancelFail(b)
        PROVE  LedgerInv'
    BY <2>8, <1>2, CancelsAreCancelable, LedgerCancel
  <2>9. ASSUME NEW b \in Batches, WithdrawResult(b) PROVE LedgerInv'
    BY <2>9, <1>2, LedgerResult
  <2>10. ASSUME NEW b \in Batches, NEW st \in TrxState, st # "canceled",
                batch[b].state # "canceled", SetBatch(b, st), SetUsers(Users(b), st),
                UNCHANGED <<ledger, acquired>>
         PROVE  LedgerInv'
    <3>1. \A c \in Batches: /\ batch'[c].state = IF c = b THEN st ELSE batch[c].state
                            /\ batch'[c].fee = batch[c].fee
      BY <2>10, MoveTogether
    <3> QED BY <3>1, <2>10, <1>2, LedgerSame
  <2>11. ASSUME NEW b \in Batches,
                \/ CombineSign(b) \/ SignFinal(b) \/ ChangeSigner(b)
                \/ PassSuccessTrx(b) \/ EthCancelUnsigned(b)
         PROVE  LedgerInv'
    <3>1. \E st \in TrxState: /\ st # "canceled" /\ SetBatch(b, st) /\ SetUsers(Users(b), st)
      BY <2>11 DEF CombineSign, SignFinal, ChangeSigner, ApplyFinal, PassSuccessTrx,
                   EthCancelUnsigned, TrxState
    <3>2. UNCHANGED <<ledger, acquired>>
      BY <2>11 DEF CombineSign, SignFinal, ChangeSigner, ApplyFinal, PassSuccessTrx,
                   EthCancelUnsigned
    <3>3. batch[b].state # "canceled"
      BY <2>11, <2>0, SignFinalKeeps, ChangeSignerKeeps, PassSuccessTrxKeeps,
         EthCancelUnsignedKeeps DEF CombineSign, Combinable
    <3> QED BY <3>1, <3>2, <3>3, <2>10
  <2>12. ASSUME NEW b \in Batches, ChangeAcquireTrx(b) PROVE LedgerInv'
    <3>1. ethlike
      BY <2>12, <2>0, ChangeAcquireTrxKeeps
    <3> QED BY <3>1, <2>12, <1>2, LedgerSame DEF ChangeAcquireTrx
  <2>13. ASSUME UNCHANGED <<ledger, batch, acquired>> PROVE LedgerInv'
    BY <2>13, <1>2, LedgerSame
  <2>14. ASSUME NEW b \in Batches, \/ \E g \in Wallfacers: WithSign(b, g)
                                   \/ WalletSignFinal(b) \/ ChainExecutes(b)
         PROVE  LedgerInv'
    BY <2>13, <2>14 DEF WithSign, WalletSignFinal, ChainExecutes
  <2>15. ASSUME Blocks720 PROVE LedgerInv'
    BY <2>13, <2>15 DEF Blocks720
  <2> QED BY <1>2, <2>1, <2>2, <2>3, <2>4, <2>5, <2>6, <2>7, <2>8, <2>9, <2>11, <2>12,
             <2>14, <2>15 DEF Step
<1> QED BY <1>1, <1>2 DEF Next

LEMMA LedgerInvInit ==
    ASSUME Init
    PROVE  LedgerInv
<1>1. /\ balance \in [Accounts -> Nat] /\ collected = 0
      /\ supply = SumOf(balance, Accounts)
  BY SumsAgree DEF Init
<1>2. SumOf(balance, Accounts) \in Nat
  BY <1>1, SumNat
<1>3. \A B \in SUBSET Batches: SumOf(FeeOf, B) = 0
  <2>1. \A b \in Batches: FeeOf[b] = 0
    BY DEF Init, FeeOf, NoBatch
  <2>2. IsFiniteSet(1..MaxBatches)
    BY FS_Interval
  <2> SUFFICES ASSUME NEW B \in SUBSET Batches PROVE SumOf(FeeOf, B) = 0
    OBVIOUS
  <2>3. IsFiniteSet(B) /\ \A b \in B: FeeOf[b] = 0
    BY <2>1, <2>2, FS_Subset
  <2> QED BY <2>3, SumZero
<1>4. SumOf(FeeOf, Outstanding) = 0
  BY <1>3 DEF Outstanding
<1>5. SumOf(FeeOf, Confirmed) = 0
  BY <1>3 DEF Confirmed
<1> QED BY <1>1, <1>2, <1>4, <1>5 DEF LedgerInv, LedgerTypes

LEMMA LedgerInvariant == Spec => [](ObjectInv /\ LedgerInv)
<1>1. Init => ObjectInv /\ LedgerInv
  BY ObjectInvInit, LedgerInvInit
<1>2. ObjectInv /\ LedgerInv /\ [Next]_vars => (ObjectInv /\ LedgerInv)'
  BY ObjectInvNext, LedgerInvNext
<1> QED BY <1>1, <1>2, PTL DEF Spec

(* TypeOK: in particular no balance and no supply ever goes below zero,    *)
(* whatever is withdrawn, refunded or canceled.                            *)
THEOREM TypeCorrect == Spec => []TypeOK
<1>1. ObjectInv /\ LedgerInv => TypeOK
  BY DEF ObjectInv, ObjectTypes, LedgerInv, LedgerTypes, TypeOK
<1> QED BY <1>1, LedgerInvariant, PTL

(* SupplyBacked: the supply of a BTC-like asset is exactly what accounts   *)
(* own, what was collected, and the fees of the batches on their way.      *)
THEOREM SupplyIsBacked == Spec => []SupplyBacked
<1>1. ASSUME ObjectInv, LedgerInv PROVE SupplyBacked
  <2> DEFINE Rest == {b \in Batches: /\ batch[b].state # "canceled"
                                     /\ acquired[b] # "comfirmed"}
  <2> SUFFICES ASSUME ~ethlike
               PROVE  supply = Total(balance, Accounts) + collected + Fees(Rest)
    BY DEF SupplyBacked
  <2>1. /\ Total(balance, Accounts) = SumOf(balance, Accounts)
        /\ Fees(Rest) = SumOf(FeeOf, Rest)
    <3> HIDE DEF Rest
    <3> QED BY SumsAgree DEF Fees, FeeOf
  <2>2. Outstanding = Confirmed \cup Rest /\ Confirmed \cap Rest = {}
    BY <1>1 DEF ObjectInv, BatchInv, ChainAgrees, Outstanding, Confirmed
  <2>3. ObjectTypes /\ Confirmed \in SUBSET Batches /\ Rest \in SUBSET Batches
    BY <1>1 DEF ObjectInv, Confirmed
  <2> HIDE DEF Rest
  <2>4. /\ IsFiniteSet(Confirmed) /\ SumOf(FeeOf, Confirmed) \in Nat
        /\ IsFiniteSet(Rest) /\ SumOf(FeeOf, Rest) \in Nat
        /\ \A b \in Batches: FeeOf[b] \in Nat
    BY <2>3, FeesTyped
  <2>5. SumOf(FeeOf, Confirmed \cup Rest) = SumOf(FeeOf, Confirmed) + SumOf(FeeOf, Rest)
    BY <2>2, <2>3, <2>4, SumDisjoint
  <2>6. SumOf(balance, Accounts) \in Nat
    BY <1>1, SumNat DEF LedgerInv, LedgerTypes
  <2> QED BY <1>1, <2>1, <2>2, <2>4, <2>5, <2>6 DEF LedgerInv
<1> QED BY <1>1, LedgerInvariant, PTL

-----------------------------------------------------------------------------
(* The gateway implements CrosschainEscrow.                                *)

Paid(w) == \E b \in Batches: w \in Users(b) /\ chain[b] = "success"

LEMMA StatusValues ==
    /\ Status = [t \in Withdraws \cup Deposits |-> Status[t]]
    /\ \A d \in Deposits: Status[d] = IF acquired[d] = "create" THEN "credited" ELSE "none"
    /\ \A w \in Withdraws: Status[w] =
          IF user[w] = "absent" THEN "none"
          ELSE IF user[w] = "canceled" THEN "refunded"
          ELSE IF Paid(w) THEN "paid" ELSE "held"
  BY DEF Status, Paid

LEMMA StatusValuesNext ==
    /\ Status' = [t \in Withdraws \cup Deposits |-> Status'[t]]
    /\ \A d \in Deposits: Status'[d] = IF acquired'[d] = "create" THEN "credited" ELSE "none"
    /\ \A w \in Withdraws: Status'[w] =
          IF user'[w] = "absent" THEN "none"
          ELSE IF user'[w] = "canceled" THEN "refunded"
          ELSE IF Paid(w)' THEN "paid" ELSE "held"
  BY DEF Status, Paid

(* No status moves when users stay on their side of being debited or       *)
(* refunded and what was paid stays paid.                                  *)
LEMMA StatusSame ==
    ASSUME \A d \in Deposits: acquired'[d] = "create" <=> acquired[d] = "create",
           \A w \in Withdraws: /\ user'[w] = "absent" <=> user[w] = "absent"
                               /\ user'[w] = "canceled" <=> user[w] = "canceled"
                               /\ Paid(w)' <=> Paid(w)
    PROVE  Status' = Status
<1>1. \A t \in Withdraws \cup Deposits: Status'[t] = Status[t]
  BY StatusValues, StatusValuesNext
<1> QED BY <1>1, StatusValues, StatusValuesNext

(* A step that moves a batch between states of a withdrawal that is under  *)
(* way.                                                                    *)
LEMMA MoveStutters ==
    ASSUME ObjectInv, NEW b \in Batches, NEW st \in TrxState,
           SetBatch(b, st), SetUsers(Users(b), st),
           batch[b].state \notin {"absent", "canceled"}, st # "canceled",
           \A c \in Batches: chain'[c] = "success" <=> chain[c] = "success",
           \A d \in Deposits: acquired'[d] = acquired[d]
    PROVE  Status' = Status
<1>1. \A c \in Batches: Users(c)' = Users(c)
  BY MoveTogether DEF Users
<1>2. \A w \in Withdraws: Paid(w)' <=> Paid(w)
  BY <1>1 DEF Paid
<1>3. \A w \in Withdraws: user'[w] = IF w \in Users(b) THEN st ELSE user[w]
  BY DEF SetUsers
<1>4. \A w \in Users(b): user[w] \notin {"absent", "canceled"}
  BY DEF ObjectInv, BatchAgrees
<1>5. st # "absent"
  BY DEF TrxState
<1> QED BY <1>2, <1>3, <1>4, <1>5, StatusSame

LEMMA WithdrawDebits ==
    ASSUME ObjectInv, NEW w \in Withdraws, Withdraw(w)
    PROVE  Escrow!Debit(w)
<1>1. /\ user[w] = "absent" /\ balance[Owner[w]] >= Amount[w]
      /\ balance' = [balance EXCEPT ![Owner[w]] = @ - Amount[w]]
      /\ user' = [user EXCEPT ![w] = "uncreate"]
      /\ UNCHANGED <<batch, acquired, chain>>
  BY DEF Withdraw
<1>2. \A v \in Withdraws: Paid(v)' <=> Paid(v)
  BY <1>1 DEF Paid, Users
<1>3. ~ Paid(w)
  BY <1>1, NotInBatch DEF Paid
<1>4. /\ \A v \in Withdraws: user'[v] = IF v = w THEN "uncreate" ELSE user[v]
      /\ w \notin Deposits
  BY <1>1 DEF ObjectInv, ObjectTypes
<1>5. Status[w] = "none" /\ Status'[w] = "held"
  BY <1>1, <1>2, <1>3, <1>4, StatusValues, StatusValuesNext
<1>6. \A t \in (Withdraws \cup Deposits) \ {w}: Status'[t] = Status[t]
  BY <1>1, <1>2, <1>4, StatusValues, StatusValuesNext
<1>7. Status' = [Status EXCEPT ![w] = "held"]
  BY <1>5, <1>6, StatusValues, StatusValuesNext
<1> QED BY <1>1, <1>5, <1>7 DEF Escrow!Debit

LEMMA DepositCredits ==
    ASSUME ObjectInv, NEW d \in Deposits, DepositRecord(d)
    PROVE  Escrow!Credit(d)
<1>1. /\ acquired[d] = "uncreate"
      /\ acquired' = [acquired EXCEPT ![d] = "create"]
      /\ balance' = [balance EXCEPT ![Owner[d]] = @ + Amount[d]]
      /\ UNCHANGED <<user, batch, chain>>
  BY DEF DepositRecord
<1>2. \A v \in Withdraws: Paid(v)' <=> Paid(v)
  BY <1>1 DEF Paid, Users
<1>3. /\ \A e \in Deposits: acquired'[e] = IF e = d THEN "create" ELSE acquired[e]
      /\ d \notin Withdraws
  BY <1>1 DEF ObjectInv, ObjectTypes
<1>4. Status[d] = "none" /\ Status'[d] = "credited"
  BY <1>1, <1>3, StatusValues, StatusValuesNext
<1>5. \A t \in (Withdraws \cup Deposits) \ {d}: Status'[t] = Status[t]
  BY <1>1, <1>2, <1>3, StatusValues, StatusValuesNext
<1>6. Status' = [Status EXCEPT ![d] = "credited"]
  BY <1>4, <1>5, StatusValues, StatusValuesNext
<1> QED BY <1>1, <1>4, <1>6 DEF Escrow!Credit

(* Users that were not paid and are canceled together are refunded.        *)
LEMMA RefundOf ==
    ASSUME NEW S \in SUBSET Withdraws,
           \A w \in S: user[w] \notin {"absent", "canceled"} /\ ~ Paid(w),
           \A w \in Withdraws: user'[w] = IF w \in S THEN "canceled" ELSE user[w],
           \A w \in Withdraws: Paid(w)' <=> Paid(w),
           \A d \in Deposits: acquired'[d] = acquired[d],
           balance' = [a \in Accounts |-> balance[a] + AmountOf(S, a)]
    PROVE  Escrow!Refund(S)
<1>1. \A w \in S: Status[w] = "held" /\ Status'[w] = "refunded"
  BY StatusValues, StatusValuesNext
<1>2. \A t \in (Withdraws \cup Deposits) \ S: Status'[t] = Status[t]
  BY StatusValues, StatusValuesNext
<1>3. DOMAIN Status = Withdraws \cup Deposits
  BY StatusValues
<1>4. Status' = [t \in DOMAIN Status |-> IF t \in S THEN "refunded" ELSE Status[t]]
  BY <1>1, <1>2, <1>3, StatusValuesNext
<1>5. \A a \in Accounts: Escrow!AmountOf(S, a) = AmountOf(S, a)
  BY SumsAgree
<1>6. balance' = [a \in Accounts |-> balance[a] + Escrow!AmountOf(S, a)]
  BY <1>5
<1> QED BY <1>1, <1>4, <1>6 DEF Escrow!Refund

LEMMA RefundBalanceRefunds ==
    ASSUME ObjectInv, LedgerInv, NEW w \in Withdraws, RefundBalance(w)
    PROVE  Escrow!Refund({w})
<1>1. /\ user[w] = "uncreate"
      /\ balance' = [balance EXCEPT ![Owner[w]] = @ + Amount[w]]
      /\ user' = [user EXCEPT ![w] = "canceled"]
      /\ UNCHANGED <<batch, acquired, chain>>
  BY DEF RefundBalance
<1>2. \A v \in Withdraws: Paid(v)' <=> Paid(v)
  BY <1>1 DEF Paid, Users
<1>3. ~ Paid(w)
  BY <1>1, NotInBatch DEF Paid
<1>4. \A v \in Withdraws: user'[v] = IF v \in {w} THEN "canceled" ELSE user[v]
  BY <1>1 DEF ObjectInv, ObjectTypes
<1>5. \A a \in Accounts: AmountOf({w}, a) = IF a = Owner[w] THEN Amount[w] ELSE 0
  <2> SUFFICES ASSUME NEW a \in Accounts
               PROVE  AmountOf({w}, a) = IF a = Owner[w] THEN Amount[w] ELSE 0
    OBVIOUS
  <2>1. CASE a = Owner[w]
    <3>1. {t \in {w}: Owner[t] = a} = {w} /\ {w} \ {w} = {}
      BY <2>1
    <3>2. SumOf(Amount, {w}) = Amount[w] + SumOf(Amount, {w} \ {w}) /\ Amount[w] \in Nat
      <4>1. IsFiniteSet({w}) /\ \A x \in {w}: Amount[x] \in Nat
        BY FS_Singleton
      <4> QED BY <4>1, SumRemove
    <3>3. SumOf(Amount, {w}) = Amount[w]
      BY <3>1, <3>2, SumEmpty
    <3> QED BY <2>1, <3>1, <3>3, SumsAgree
  <2>2. CASE a # Owner[w]
    <3>1. {t \in {w}: Owner[t] = a} = {}
      BY <2>2
    <3> QED BY <2>2, <3>1, SumEmpty, SumsAgree
  <2> QED BY <2>1, <2>2
<1>6. balance' = [a \in Accounts |-> balance[a] + AmountOf({w}, a)]
  <2>1. balance \in [Accounts -> Nat] /\ Owner[w] \in Accounts /\ Amount[w] \in Nat
    BY DEF LedgerInv, LedgerTypes
  <2>2. ASSUME NEW a \in Accounts PROVE balance'[a] = balance[a] + AmountOf({w}, a)
    <3>1. CASE a = Owner[w]
      BY <3>1, <2>1, <1>1, <1>5
    <3>2. CASE a # Owner[w]
      <4>1. balance'[a] = balance[a] /\ balance[a] \in Nat /\ AmountOf({w}, a) = 0
        BY <3>2, <2>1, <1>1, <1>5
      <4> QED BY <4>1
    <3> QED BY <3>1, <3>2
  <2>3. balance' = [a \in Accounts |-> balance'[a]]
    BY <2>1, <1>1
  <2> QED BY <2>2, <2>3
<1> DEFINE S == {w}
<1>7. /\ S \in SUBSET Withdraws
      /\ \A v \in S: user[v] \notin {"absent", "canceled"} /\ ~ Paid(v)
      /\ \A v \in Withdraws: user'[v] = IF v \in S THEN "canceled" ELSE user[v]
      /\ balance' = [a \in Accounts |-> balance[a] + AmountOf(S, a)]
  BY <1>1, <1>3, <1>4, <1>6
<1>8. Escrow!Refund(S)
  <2> HIDE DEF S
  <2> QED BY <1>1, <1>2, <1>7, RefundOf
<1> QED BY <1>8

LEMMA CancelRefunds ==
    ASSUME ObjectInv, NEW b \in Batches, Cancelable(b), CancelBatch(b)
    PROVE  Escrow!Refund(Users(b)) /\ Users(b) \in SUBSET Withdraws /\ Users(b) # {}
<1>1. /\ SetUsers(Users(b), "canceled") /\ SetBatch(b, "canceled")
      /\ balance' = [a \in Accounts |-> balance[a] + AmountOf(Users(b), a)]
      /\ UNCHANGED <<acquired, chain>>
  BY DEF CancelBatch
<1>2. \A c \in Batches: Users(c)' = Users(c)
  BY <1>1, MoveTogether DEF Users, TrxState
<1>3. \A w \in Withdraws: Paid(w)' <=> Paid(w)
  BY <1>1, <1>2 DEF Paid
<1>4. /\ batch[b].state \in {"without_sign", "combine", "eth_sign"}
      /\ chain[b] # "success" /\ Users(b) # {} /\ Users(b) \in SUBSET Withdraws
  BY DEF ObjectInv, BatchInv, ObjectsAgree, ChainAgrees, Cancelable, ObjectTypes, Users
<1>5. \A w \in Users(b): user[w] \notin {"absent", "canceled"} /\ ~ Paid(w)
  <2> SUFFICES ASSUME NEW w \in Users(b)
               PROVE  user[w] \notin {"absent", "canceled"} /\ ~ Paid(w)
    OBVIOUS
  <2>1. user[w] = batch[b].state
    BY DEF ObjectInv, BatchAgrees
  <2>2. \A c \in Batches: c # b => w \notin Users(c)
    BY DEF ObjectInv, BatchAgrees
  <2> QED BY <2>1, <2>2, <1>4 DEF Paid
<1>6. \A w \in Withdraws: user'[w] = IF w \in Users(b) THEN "canceled" ELSE user[w]
  BY <1>1 DEF SetUsers
<1> QED BY <1>1, <1>3, <1>4, <1>5, <1>6, RefundOf

LEMMA ExecutionPays ==
    ASSUME ObjectInv, NEW b \in Batches, ChainExecutes(b)
    PROVE  UNCHANGED balance /\ (\/ Status' = Status
                                 \/ /\ Escrow!PayOut(Users(b))
                                    /\ Users(b) \in SUBSET Withdraws /\ Users(b) # {})
<1>1. PICK r \in {"success", "failed"}: chain' = [chain EXCEPT ![b] = r]
  BY DEF ChainExecutes
<1>2. chain[b] = "sent" /\ UNCHANGED <<balance, user, batch, acquired>>
  BY DEF ChainExecutes, ledger
<1>3. \A c \in Batches: chain'[c] = IF c = b THEN r ELSE chain[c]
  BY <1>1 DEF ObjectInv, ObjectTypes
<1>4. CASE r = "failed"
  <2>1. \A w \in Withdraws: Paid(w)' <=> Paid(w)
    BY <1>2, <1>3, <1>4 DEF Paid, Users
  <2> QED BY <2>1, <1>2, StatusSame
<1>5. CASE r = "success"
  <2>1. /\ batch[b].state \in {"combine", "eth_sign"}
        /\ Users(b) # {} /\ Users(b) \in SUBSET Withdraws
    BY <1>2 DEF ObjectInv, BatchInv, ObjectsAgree, ChainAgrees, ObjectTypes, Users
  <2>2. \A w \in Withdraws: Paid(w)' <=> Paid(w) \/ w \in Users(b)
    BY <1>2, <1>3, <1>5 DEF Paid, Users
  <2>3. \A w \in Users(b): user[w] \notin {"absent", "canceled"} /\ ~ Paid(w)
    <3> SUFFICES ASSUME NEW w \in Users(b)
                 PROVE  user[w] \notin {"absent", "canceled"} /\ ~ Paid(w)
      OBVIOUS
    <3>1. user[w] = batch[b].state
      BY DEF ObjectInv, BatchAgrees
    <3>2. \A c \in Batches: c # b => w \notin Users(c)
      BY DEF ObjectInv, BatchAgrees
    <3> QED BY <3>1, <3>2, <2>1, <1>2 DEF Paid
  <2>4. \A w \in Users(b): Status[w] = "held" /\ Status'[w] = "paid"
    BY <2>1, <2>2, <2>3, <1>2, StatusValues, StatusValuesNext
  <2>5. \A t \in (Withdraws \cup Deposits) \ Users(b): Status'[t] = Status[t]
    BY <2>2, <1>2, StatusValues, StatusValuesNext
  <2>6. DOMAIN Status = Withdraws \cup Deposits
    BY StatusValues
  <2>7. Status' = [t \in DOMAIN Status |-> IF t \in Users(b) THEN "paid" ELSE Status[t]]
    BY <2>1, <2>4, <2>5, <2>6, StatusValuesNext
  <2> QED BY <2>1, <2>4, <2>7, <1>2 DEF Escrow!PayOut
<1> QED BY <1>4, <1>5

LEMMA WithoutSignStutters ==
    ASSUME ObjectInv, NEW b \in Batches, NEW S \in SUBSET Withdraws, WithoutSign(b, S)
    PROVE  UNCHANGED <<balance, Status>>
<1>1. /\ \A w \in S: user[w] = "uncreate"
      /\ batch[b].state = "absent"
      /\ user' = [w \in Withdraws |-> IF w \in S THEN "without_sign" ELSE user[w]]
      /\ UNCHANGED <<balance, acquired, chain>>
  BY DEF WithoutSign, Batched, SetUsers
<1>2. \A c \in Batches: c # b => Users(c)' = Users(c)
  BY DEF WithoutSign, Users, ObjectInv, ObjectTypes
<1>3. chain[b] = "none"
  BY <1>1 DEF ObjectInv, BatchInv, ChainAgrees
<1>4. \A w \in Withdraws: Paid(w)' <=> Paid(w)
  BY <1>1, <1>2, <1>3 DEF Paid
<1> QED BY <1>1, <1>4, StatusSame

LEMMA EscrowStep ==
    ASSUME NEW S \in SUBSET Withdraws, S # {}, Escrow!Refund(S) \/ Escrow!PayOut(S)
    PROVE  Escrow!Next
<1>1. S \in (SUBSET Withdraws) \ {{}}
  OBVIOUS
<1> QED BY <1>1 DEF Escrow!Next

(* Every step of the gateway is a step of the escrow, or invisible to it.  *)
LEMMA EscrowNext ==
    ASSUME ObjectInv, LedgerInv, [Next]_vars
    PROVE  [Escrow!Next]_<<balance, Status>>
<1> USE DEF ledger, signing
<1>0. ObjectTypes
  BY DEF ObjectInv
<1>1. ASSUME UNCHANGED <<balance, user, batch, chain>>,
             \A d \in Deposits: acquired'[d] = "create" <=> acquired[d] = "create"
      PROVE  UNCHANGED <<balance, Status>>
  <2>1. \A w \in Withdraws: Paid(w)' <=> Paid(w)
    BY <1>1 DEF Paid, Users
  <2> QED BY <2>1, <1>1, StatusSame
<1>2. CASE UNCHANGED vars
  BY <1>1, <1>2 DEF vars
<1>3. ASSUME Step, ethlike' = ethlike PROVE [Escrow!Next]_<<balance, Status>>
  <2>0. Kept
    BY <1>3 DEF Kept
  <2>1. ASSUME NEW w \in Withdraws, Withdraw(w) PROVE Escrow!Next
    BY <2>1, WithdrawDebits DEF Escrow!Next
  <2>2. ASSUME NEW w \in Withdraws, RefundBalance(w) PROVE Escrow!Next
    <3>1. Escrow!Refund({w}) /\ {w} \in SUBSET Withdraws /\ {w} # {}
      BY <2>2, RefundBalanceRefunds
    <3> QED BY <3>1, EscrowStep
  <2>3. ASSUME NEW d \in Deposits, DepositRecord(d) PROVE Escrow!Next
    BY <2>3, DepositCredits DEF Escrow!Next
  <2>4. ASSUME NEW d \in Deposits, DepositRefused(d) PROVE UNCHANGED <<balance, Status>>
    BY <2>4, <1>0, <1>1 DEF DepositRefused, ObjectTypes
  <2>5. ASSUME NEW x \in Batches \cup Deposits, AcquireRecord(x)
        PROVE  UNCHANGED <<balance, Status>>
    <3>1. \A d \in Deposits: acquired'[d] = "create" <=> acquired[d] = "create"
      BY <2>5, <1>0 DEF AcquireRecord, ObjectTypes
    <3> QED BY <3>1, <2>5, <1>1 DEF AcquireRecord
  <2>6. ASSUME PendingReset PROVE UNCHANGED <<balance, Status>>
    <3>1. \A d \in Deposits: acquired'[d] = "create" <=> acquired[d] = "create"
      BY <2>6, <1>0 DEF PendingReset, ObjectTypes
    <3> QED BY <3>1, <2>6, <1>1 DEF PendingReset
  <2>7. ASSUME NEW b \in Batches, NEW S \in SUBSET Withdraws, WithoutSign(b, S)
        PROVE  UNCHANGED <<balance, Status>>
    BY <2>7, WithoutSignStutters
  <2>8. ASSUME NEW b \in Batches,
               RefundCrosschainTrx(b) \/ CancelCombineTrx(b) \/ EthCancelFail(b)
        PROVE  Escrow!Next
    <3>1. Escrow!Refund(Users(b)) /\ Users(b) \in SUBSET Withdraws /\ Users(b) # {}
      BY <2>8, CancelsAreCancelable, CancelRefunds
    <3> QED BY <3>1, EscrowStep
  <2>9. ASSUME NEW b \in Batches, ChainExecutes(b)
        PROVE  [Escrow!Next]_<<balance, Status>>
    <3>1. UNCHANGED balance /\ (\/ Status' = Status
                                \/ /\ Escrow!PayOut(Users(b))
                                   /\ Users(b) \in SUBSET Withdraws /\ Users(b) # {})
      BY <2>9, ExecutionPays
    <3> QED BY <3>1, EscrowStep
  <2>10. ASSUME NEW b \in Batches,
                \/ CombineSign(b) \/ SignFinal(b) \/ ChangeSigner(b) \/ WithdrawResult(b)
                \/ PassSuccessTrx(b) \/ EthCancelUnsigned(b)
         PROVE  UNCHANGED <<balance, Status>>
    <3>1. \E st \in TrxState: st # "canceled" /\ SetBatch(b, st) /\ SetUsers(Users(b), st)
      BY <2>10 DEF CombineSign, SignFinal, ChangeSigner, ApplyFinal, WithdrawResult,
                   PassSuccessTrx, EthCancelUnsigned, TrxState
    <3>2. UNCHANGED balance
      BY <2>10 DEF CombineSign, SignFinal, ChangeSigner, ApplyFinal, WithdrawResult,
                   PassSuccessTrx, EthCancelUnsigned
    <3>3. \A d \in Deposits: acquired'[d] = acquired[d]
      BY <2>10, <1>0 DEF CombineSign, SignFinal, ChangeSigner, ApplyFinal, WithdrawResult,
                   PassSuccessTrx, EthCancelUnsigned, ObjectTypes
    <3>4. batch[b].state # "canceled"
      BY <2>10, <2>0, SignFinalKeeps, ChangeSignerKeeps, PassSuccessTrxKeeps,
         EthCancelUnsignedKeeps, WithdrawResultKeeps DEF CombineSign, Combinable
    <3>5. batch[b].state # "absent"
      <4>1. combine[b] # "absent" \/ batch[b].state = "without_sign"
        BY <2>10 DEF CombineSign, Combinable, SignFinal, ChangeSigner, WithdrawResult,
           ResultAccepted, PassSuccessTrx, EthCancelUnsigned
      <4> QED BY <4>1 DEF ObjectInv, BatchInv, ObjectsAgree
    <3>6. \A c \in Batches: chain'[c] = "success" <=> chain[c] = "success"
      <4>1. CASE CombineSign(b)
        <5>1. chain[b] = "none"
          BY <4>1 DEF CombineSign, Combinable, ObjectInv, BatchInv, ChainAgrees
        <5> QED BY <4>1, <5>1, <1>0 DEF CombineSign, ObjectTypes
      <4>2. CASE SignFinal(b) \/ ChangeSigner(b)
        BY <4>2, <1>0, ZenonT(60) DEF SignFinal, ChangeSigner, ApplyFinal, ObjectTypes
      <4>3. CASE WithdrawResult(b) \/ PassSuccessTrx(b) \/ EthCancelUnsigned(b)
        BY <4>3 DEF WithdrawResult, PassSuccessTrx, EthCancelUnsigned
      <4> QED BY <2>10, <4>1, <4>2, <4>3
    <3>7. Status' = Status
      BY <3>1, <3>3, <3>4, <3>5, <3>6, MoveStutters
    <3> QED BY <3>2, <3>7
  <2>11. ASSUME NEW b \in Batches,
                \/ \E g \in Wallfacers: WithSign(b, g)
                \/ WalletSignFinal(b) \/ ChangeAcquireTrx(b)
         PROVE  UNCHANGED <<balance, Status>>
    <3>1. \A d \in Deposits: acquired'[d] = acquired[d]
      BY <2>11, <1>0 DEF WithSign, WalletSignFinal, ChangeAcquireTrx, ObjectTypes
    <3>2. UNCHANGED <<balance, user, batch, chain>>
      BY <2>11 DEF WithSign, WalletSignFinal, ChangeAcquireTrx
    <3> QED BY <3>1, <3>2, <1>1
  <2>12. ASSUME Blocks720 PROVE UNCHANGED <<balance, Status>>
    BY <2>12, <1>1 DEF Blocks720
  <2> QED BY <1>3, <2>1, <2>2, <2>3, <2>4, <2>5, <2>6, <2>7, <2>8, <2>9, <2>10, <2>11,
             <2>12 DEF Step
<1> QED BY <1>2, <1>3 DEF Next

LEMMA EscrowInit ==
    ASSUME Init
    PROVE  Escrow!Init
<1>1. Status = [t \in Withdraws \cup Deposits |-> "none"]
  BY DEF Init, Status
<1> QED BY <1>1 DEF Init, Escrow!Init

(* ImplementsEscrow: whatever signatures, results, cancels and retries     *)
(* meet, a withdrawal is debited once and then paid or refunded, never     *)
(* both and never twice, and a deposit is credited once.                   *)
THEOREM EscrowRefinement == Spec => ImplementsEscrow
<1>1. Init => Escrow!Init
  BY EscrowInit
<1>2. ObjectInv /\ LedgerInv /\ [Next]_vars => [Escrow!Next]_<<balance, Status>>
  BY EscrowNext
<1> QED BY <1>1, <1>2, LedgerInvariant, PTL DEF Spec, ImplementsEscrow, Escrow!Spec
=============================================================================
