-------------------------- MODULE WallfacerElection --------------------------
(***************************************************************************)
(* How the committee of wallfacers is changed: by a proposal on which the  *)
(* wallfacers vote (permanent members), or by a referendum among the       *)
(* miners (external members).  Either is executed when it has its quorum,  *)
(* stays as finished until the multisig accounts of the assets have        *)
(* followed, and is taken back when they have not followed in time.        *)
(*                                                                         *)
(* Times are counted in blocks: an expiration is the number of blocks      *)
(* left.  clear_expired_proposals and determine_referendum_detailes run at *)
(* the end of every block (phases "proposals" and "referenda").  The other *)
(* operations a committee may execute that matter here (a resignation, the *)
(* switch to another multisig account) are executed at any moment: their   *)
(* votes are those of any proposal.                                        *)
(***************************************************************************)
EXTENDS Naturals, Sequences, FiniteSets, FiniteSetsExt, SequencesExt, Functions

CONSTANTS Permanent,        \* the formal wallfacers at the start, by type
          External,
          Candidates,       \* wallfacer members that are not formal
          Assets,           \* assets with a multisig account
          EthAssets,        \* those that the check for referenda skips
          Miners, Weights,  \* miners, and the pledge weights they may have
          Elections,        \* replace queues of the operations a proposal may hold
          Referenda,        \* and those a referendum may hold
          Packing, Voting,  \* XWC_REFERENDUM_PACKING_PERIOD and _VOTING_PERIOD
          Lifetime,         \* maximum_proposal_lifetime
          MinWallfacers,    \* minimum_wallfacer_count
          MaxElections,     \* bound: proposals and referenda created
          MaxPledge,        \* bound: the pledge of a referendum
          MaxPairs,         \* bound: multisig accounts generated
          MaxResigns        \* bound: resignations

Wallfacers == Permanent \cup External \cup Candidates

\* A replace queue: the new wallfacers, and whom each of them replaces.
Queues == UNION {[S -> Wallfacers] : S \in SUBSET Wallfacers}

ASSUME ElectionAssumption ==
    /\ IsFiniteSet(Wallfacers) /\ EthAssets \subseteq Assets
    /\ Permanent \cap External = {} /\ (Permanent \cup External) \cap Candidates = {}
    /\ IsFiniteSet(Miners) /\ Weights \subseteq [Miners -> Nat]
    /\ Packing \in Nat \ {0} /\ Voting \in Nat \ {0} /\ Lifetime \in Nat \ {0}
    /\ MinWallfacers \in Nat /\ MaxElections \in Nat /\ MaxPledge \in Nat
    /\ MaxPairs \in Nat /\ MaxResigns \in Nat
    /\ Elections \cup Referenda \subseteq Seq(Queues) \ {<<>>}

VARIABLES
    formal,     \* wallfacers with the mark formal
    kind,       \* wallfacer_type of each
    proposals,  \* the proposals with a wallfacer_member_update, oldest first
    referenda,  \* the referendum objects, oldest first
    flag,       \* referendum_flag
    wait,       \* blocks until next_vote_time
    weight,     \* pledge_weight of each miner
    members,    \* members of the current multisig account of each asset
    pairs,      \* those of the accounts generated and not yet used
    phase,      \* "txs", or the part of the end of the block being run
    created,    \* counts the proposals and referenda, for the bound on them
    \* For checking only: the committee without the elections that are not
    \* settled, resignations, whether a referendum was voted on before its
    \* packing period, whether a transaction was applied or taken back in part,
    \* and how many times another multisig account came into use.
    settled, resigns, early, torn, switched

committee == <<formal, kind>>
accounts == <<members, pairs, weight, created>>
history == <<settled, resigns, early, torn, switched>>
vars == <<formal, kind, proposals, referenda, flag, wait, weight, members, pairs, phase, created,
          settled, resigns, early, torn, switched>>

Init ==
    /\ formal = Permanent \cup External
    /\ kind = [w \in Wallfacers |-> IF w \in External THEN "EXTERNAL" ELSE "PERMANENT"]
    /\ proposals = <<>> /\ referenda = <<>>
    /\ flag = FALSE /\ wait = 0 /\ weight \in Weights
    /\ members = [a \in Assets |-> formal]
    /\ pairs = [a \in Assets |-> {}]
    /\ phase = "txs"
    /\ created = 0 /\ settled = formal /\ resigns = 0
    /\ early = FALSE /\ torn = FALSE /\ switched = 0
-----------------------------------------------------------------------------
(* The operations of a proposed transaction. *)

\* do_evaluate of wallfacer_member_update and of miner_referendum_wallfacer: a
\* state of the committee in which the replace queue q may be applied.
Replaceable(q, f) == DOMAIN q \cap f = {} /\ Range(q) \subseteq f
UniqueTargets(q) == Cardinality(Range(q)) = Cardinality(DOMAIN q)

evaluate_update(q, f, k) ==
    /\ referenda = <<>>
    /\ Cardinality(DOMAIN q) = 1
    /\ Replaceable(q, f) /\ UniqueTargets(q)
    /\ \A w \in Range(q) : k[w] = "PERMANENT"

evaluate_referendum(q, f, k) ==
    /\ Cardinality(DOMAIN q) \in 1..3
    /\ Replaceable(q, f) /\ UniqueTargets(q)
    /\ \A w \in Range(q) : k[w] # "PERMANENT"

Replaced(f, q) == (f \ Range(q)) \cup DOMAIN q
TakenBack(f, q) == (f \ DOMAIN q) \cup Range(q)

apply_update(s, q) ==
    IF s.ok /\ evaluate_update(q, s.formal, s.kind)
    THEN [ok |-> TRUE, formal |-> Replaced(s.formal, q),
          kind |-> [w \in Wallfacers |->
                       IF w \in DOMAIN q \cup Range(q) THEN "PERMANENT" ELSE s.kind[w]]]
    ELSE [s EXCEPT !.ok = FALSE]

apply_referendum(s, q) ==
    IF s.ok /\ evaluate_referendum(q, s.formal, s.kind)
    THEN [ok |-> TRUE, formal |-> Replaced(s.formal, q),
          kind |-> [w \in Wallfacers |->
                       IF w \in DOMAIN q THEN "EXTERNAL" ELSE s.kind[w]]]
    ELSE [s EXCEPT !.ok = FALSE]

\* The loops of push_proposal and push_referendum: the first operation that
\* fails ends them, and what the operations before it did stays.
Current == [ok |-> TRUE, formal |-> formal, kind |-> kind]
apply_operation(r, s, q) == IF r.by = "miners" THEN apply_referendum(s, q) ELSE apply_update(s, q)
Pushed(r) ==
    LET after[n \in 0 .. Len(r.ops)] ==
            IF n = 0 THEN Current ELSE apply_operation(r, after[n - 1], r.ops[n])
    IN  after
push_operations(r) == Pushed(r)[Len(r.ops)]

TotalWeight(s) == MapThenSumSet(LAMBDA m : weight[m], s)

Mutant_is_authorized_to_execute(r) ==
    IF r.by = "miners"
    THEN TotalWeight(r.approved) >= (TotalWeight(r.required) \div 3) * 2 + 1
    ELSE Cardinality(r.approved) >= (Cardinality(r.required) * 2) \div 3 + 1

is_authorized_to_execute(r) ==
    /\ ~r.finished
    /\ IF r.by = "miners"
       THEN TotalWeight(r.approved) >= (TotalWeight(r.required) \div 3) * 2 + 1
       ELSE Cardinality(r.approved) >= (Cardinality(r.required) * 2) \div 3 + 1

\* The object s[i] once its operations were pushed with the result res: kept
\* as finished, or removed if one of them failed.
Executed(s, i, res) ==
    IF res.ok THEN [s EXCEPT ![i].finished = TRUE, ![i].left = Voting]
              ELSE RemoveAt(s, i)

Push(r) ==
    LET res == push_operations(r) IN
    /\ formal' = res.formal /\ kind' = res.kind
    /\ torn' = (torn \/ (~res.ok /\ res.formal # formal))
    /\ UNCHANGED <<settled, resigns, switched>>

\* all_wallfacers_in, for the current multisig account of every asset in as.
Mutant_Followed(as, f) == \A a \in as : f = members[a]

Followed(as, f) == \A a \in as : f \subseteq members[a]
_need_rollback == ~Followed(Assets, formal)
-----------------------------------------------------------------------------
(* Proposals. *)

NoElection == proposals = <<>>

proposal_create(ops, left, review) ==
    /\ phase = "txs"
    /\ created < MaxElections /\ created' = created + 1
    /\ NoElection
    /\ \E w \in formal : kind[w] = "PERMANENT"
    /\ \A i \in DOMAIN ops : evaluate_update(ops[i], formal, kind)
    /\ proposals' = Append(proposals,
           [by |-> "wallfacers", ops |-> ops, left |-> left, review |-> review,
            required |-> formal, approved |-> {}, voted |-> FALSE, finished |-> FALSE])
    /\ UNCHANGED <<committee, referenda, flag, wait, weight, members, pairs, phase, history>>

\* The approvals and then the withdrawals of one update; only those who were
\* asked count.
Voted(r, add, remove) ==
    [r EXCEPT !.approved = (@ \cup (add \cap r.required)) \ remove]

proposal_update(i, add, remove) ==
    LET r == [Voted(proposals[i], add, remove) EXCEPT !.voted = @ \/ add \cup remove # {}]
        voted == [proposals EXCEPT ![i] = r] IN
    /\ phase = "txs"
    /\ ~proposals[i].finished
    /\ IF ~r.review /\ is_authorized_to_execute(r)
       THEN /\ Push(r)
            /\ proposals' = Executed(voted, i, push_operations(r))
            /\ UNCHANGED early
       ELSE /\ proposals' = voted
            /\ UNCHANGED <<committee, history>>
    /\ UNCHANGED <<referenda, flag, wait, accounts, phase>>

proposal_delete(i) ==
    /\ phase = "txs"
    /\ ~proposals[i].voted
    /\ proposals' = RemoveAt(proposals, i)
    /\ UNCHANGED <<committee, referenda, flag, wait, accounts, phase, history>>
-----------------------------------------------------------------------------
(* Referenda. *)

referendum_create(m, ops, pledge) ==
    /\ phase = "txs"
    /\ created < MaxElections /\ created' = created + 1
    /\ ~flag \/ wait > 0
    /\ NoElection
    /\ \A i \in DOMAIN ops : evaluate_referendum(ops[i], formal, kind)
    /\ referenda' = Append(referenda,
           [by |-> "miners", ops |-> ops, left |-> Packing + Voting,
            pledge |-> pledge, miner_pledge |-> weight[m], required |-> Miners, approved |-> {},
            finished |-> FALSE])
    /\ UNCHANGED <<committee, proposals, flag, wait, weight, members, pairs, phase, history>>

referendum_update(i, add, remove) ==
    LET r == Voted(referenda[i], add, remove)
        voted == [referenda EXCEPT ![i] = r] IN
    /\ phase = "txs"
    /\ wait = 0
    /\ ~referenda[i].finished
    /\ early' = (early \/ ~flag)
    /\ IF is_authorized_to_execute(r)
       THEN /\ Push(r)
            /\ referenda' = Executed(voted, i, push_operations(r))
       ELSE /\ referenda' = voted
            /\ UNCHANGED <<committee, settled, resigns, torn, switched>>
    /\ UNCHANGED <<proposals, flag, wait, accounts, phase>>

referendum_accelerate_pledge(i) ==
    /\ phase = "txs"
    /\ referenda[i].pledge < MaxPledge
    /\ referenda' = [referenda EXCEPT ![i].pledge = @ + 1]
    /\ UNCHANGED <<committee, proposals, flag, wait, accounts, phase, history>>
-----------------------------------------------------------------------------
(* What else changes the committee or the multisig accounts. *)

wallfacer_member_resign(w) ==
    /\ phase \in {"txs", "proposals"}
    /\ resigns < MaxResigns
    /\ Cardinality(formal) > MinWallfacers
    /\ formal' = formal \ {w}
    /\ settled' = IF w \in formal THEN settled \ {w} ELSE settled
    /\ resigns' = resigns + 1
    /\ UNCHANGED <<kind, proposals, referenda, flag, wait, accounts, phase, early, torn, switched>>

\* A miner makes a multisig account from the keys that the formal wallfacers
\* have submitted, all of them.
miner_generate_multi_asset(a) ==
    /\ phase = "txs"
    /\ MapThenSumSet(LAMBDA b : Cardinality(pairs[b]), Assets) + switched < MaxPairs
    /\ pairs' = [pairs EXCEPT ![a] = @ \cup {formal}]
    /\ UNCHANGED <<committee, proposals, referenda, flag, wait, weight, members, phase, created, history>>

\* The account becomes the one with the highest effective_block_num at once.
wallfacer_update_multi_account(a, pair) ==
    /\ phase \in {"txs", "proposals"}
    /\ members' = [members EXCEPT ![a] = pair]
    /\ pairs' = [pairs EXCEPT ![a] = @ \ {pair}]
    /\ switched' = switched + 1
    /\ UNCHANGED <<committee, proposals, referenda, flag, wait, weight, phase, created,
                   settled, resigns, early, torn>>

\* The end of a round recomputes the weights, after balances were locked for
\* miners or released.
change_pledge_weight(w) ==
    /\ phase = "txs"
    /\ weight' = w
    /\ UNCHANGED <<committee, proposals, referenda, flag, wait, members, pairs, phase, created, history>>
-----------------------------------------------------------------------------
(* The end of a block. *)

Older(s) == [i \in DOMAIN s |-> [s[i] EXCEPT !.left = @ - 1]]
Expired(s) == {i \in DOMAIN s : s[i].left = 0}

apply_block ==
    /\ phase = "txs"
    /\ proposals' = Older(proposals)
    /\ referenda' = Older(referenda)
    /\ wait' = IF wait > 0 THEN wait - 1 ELSE 0
    /\ phase' = "proposals"
    /\ UNCHANGED <<committee, flag, accounts, history>>

\* _rollback_votes: only the first update of the transaction is taken back.
Mutant_rollback_votes(r) == formal \cup Range(r.ops[1])

_rollback_votes(r) == TakenBack(formal, r.ops[1])

\* One round of the first loop of clear_expired_proposals: executed at last, or
\* removed and, if it was executed and the accounts did not follow, taken back.
expire_proposal(i) ==
    LET r == proposals[i] IN
    /\ phase = "proposals"
    /\ i \in Expired(proposals)
    /\ IF is_authorized_to_execute(r)
       THEN /\ Push(r)
            /\ proposals' = Executed(proposals, i, push_operations(r))
            /\ UNCHANGED early
       ELSE /\ proposals' = RemoveAt(proposals, i)
            /\ formal' = IF r.finished /\ _need_rollback THEN _rollback_votes(r) ELSE formal
            /\ settled' = IF r.finished /\ ~_need_rollback THEN formal ELSE settled
            /\ torn' = (torn \/ (r.finished /\ _need_rollback /\ Len(r.ops) > 1))
            /\ UNCHANGED <<kind, resigns, early, switched>>
    /\ UNCHANGED <<referenda, flag, wait, accounts, phase>>

\* The rest of it for proposals: one finished election that the accounts have
\* followed is removed.
clear_finished_proposal ==
    LET done == {i \in DOMAIN proposals : proposals[i].finished /\ ~_need_rollback} IN
    /\ phase = "proposals"
    /\ Expired(proposals) = {}
    /\ IF done = {} THEN UNCHANGED <<proposals, settled>>
       ELSE proposals' = RemoveAt(proposals, Min(done)) /\ settled' = formal
    /\ phase' = "referenda"
    /\ UNCHANGED <<committee, referenda, flag, wait, accounts, resigns, early, torn, switched>>

\* The second loop: here the accounts are not asked.
RolledBack(r) ==
    LET back[n \in 0 .. Len(r.ops)] ==
            IF n = 0 THEN formal ELSE TakenBack(back[n - 1], r.ops[n])
    IN  back
rollback_referendum(r) == RolledBack(r)[Len(r.ops)]

expire_referendum(i) ==
    LET r == referenda[i] IN
    /\ phase = "referenda"
    /\ i \in Expired(referenda)
    /\ IF is_authorized_to_execute(r)
       THEN /\ Push(r)
            /\ referenda' = Executed(referenda, i, push_operations(r))
            /\ UNCHANGED early
       ELSE /\ referenda' = RemoveAt(referenda, i)
            /\ formal' = IF r.finished THEN rollback_referendum(r) ELSE formal
            /\ UNCHANGED <<kind, history>>
    /\ UNCHANGED <<proposals, flag, wait, accounts, phase>>

\* The order by_pledge: the last one has the highest pledge, then the heaviest
\* miner, then the lowest id.
Outranks(s, i, j) ==
    \/ s[i].pledge > s[j].pledge
    \/ /\ s[i].pledge = s[j].pledge
       /\ \/ s[i].miner_pledge > s[j].miner_pledge
          \/ s[i].miner_pledge = s[j].miner_pledge /\ i < j
Leading(s) == s[CHOOSE i \in DOMAIN s : \A j \in DOMAIN s \ {i} : Outranks(s, i, j)]

determine_referendum_detailes ==
    LET kept == IF wait = 0 /\ referenda # <<>> THEN <<Leading(referenda)>> ELSE referenda
        open == kept # <<>> /\ ~Leading(kept).finished
        over == flag /\ ~open /\ Followed(Assets \ EthAssets, formal) IN
    /\ phase = "referenda"
    /\ Expired(referenda) = {}
    /\ referenda' = IF over THEN <<>> ELSE IF flag THEN kept ELSE referenda
    /\ settled' = IF over /\ kept # <<>> THEN formal ELSE settled
    /\ flag' = IF flag THEN ~over ELSE referenda # <<>>
    /\ wait' = IF ~flag /\ referenda # <<>> THEN Packing ELSE wait
    /\ phase' = "txs"
    /\ UNCHANGED <<committee, proposals, accounts, resigns, early, torn, switched>>
-----------------------------------------------------------------------------
Transactions ==
    \/ \E ops \in Elections, left \in 1..Lifetime, review \in BOOLEAN :
           proposal_create(ops, left, review)
    \/ \E i \in DOMAIN proposals : \E add, remove \in SUBSET proposals[i].required :
           proposal_update(i, add, remove)
    \/ \E i \in DOMAIN proposals : proposal_delete(i)
    \/ \E m \in Miners, ops \in Referenda, pledge \in 1..MaxPledge :
           referendum_create(m, ops, pledge)
    \/ \E i \in DOMAIN referenda : \E add, remove \in SUBSET referenda[i].required :
           referendum_update(i, add, remove)
    \/ \E i \in DOMAIN referenda : referendum_accelerate_pledge(i)
    \/ \E w \in Wallfacers : wallfacer_member_resign(w)
    \/ \E a \in Assets : miner_generate_multi_asset(a)
    \/ \E a \in Assets : \E pair \in pairs[a] : wallfacer_update_multi_account(a, pair)
    \/ \E w \in Weights \ {weight} : change_pledge_weight(w)

BlockEnd ==
    \/ apply_block
    \/ \E i \in DOMAIN proposals : expire_proposal(i)
    \/ clear_finished_proposal
    \/ \E i \in DOMAIN referenda : expire_referendum(i)
    \/ determine_referendum_detailes

Next == Transactions \/ BlockEnd

\* Blocks go on being made.
Spec == Init /\ [][Next]_vars /\ WF_vars(BlockEnd)
-----------------------------------------------------------------------------
(* Properties. *)

\* The elections whose outcome the multisig accounts have not followed yet.
Unsettled == \E s \in {proposals, referenda} : \E i \in DOMAIN s : s[i].finished

\* However elections by wallfacers and by miners, their rollbacks and
\* resignations follow each other, the committee has the size it started with
\* less the resignations, so that a quorum stays a quorum.
CommitteeSize ==
    ~early => /\ Cardinality(formal) <= Cardinality(Permanent \cup External)
              /\ Cardinality(formal) + resigns >= Cardinality(Permanent \cup External)

\* Once every election is either followed by the accounts or taken back, the
\* committee is the one of the last election that was followed, less those who
\* resigned: nothing of an election that failed stays.
Restored ==
    ~early /\ ~torn /\ ~Unsettled => formal = settled

\* Without any new multisig account, a time of referenda ends: what was elected
\* is taken back and new referenda may be created again.
Reopens ==
    flag ~> (~flag \/ early \/ torn \/ switched > 0)
=============================================================================
