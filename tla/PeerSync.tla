------------------------------- MODULE PeerSync -------------------------------
(***************************************************************************)
(* How a node fetches the blocks it lacks from several peers at once       *)
(* (libraries/net/node.cpp): it asks each peer for the ids of its blocks,  *)
(* spreads the requests for the blocks over the peers, keeps what arrives  *)
(* early, and hands the blocks to the chain in order.                      *)
(*                                                                         *)
(* All peers are on one chain, whose blocks are their numbers, and differ  *)
(* in how much of it they have; forks and blocks in normal operation are   *)
(* left out.  Each handler runs in a fiber and is one action; what it      *)
(* starts with fc::async (the backlog, the calls to the chain) and the     *)
(* fetch loop, which it wakes, are actions of their own.                   *)
(***************************************************************************)
EXTENDS Naturals, Sequences, FiniteSets, FiniteSetsExt, SequencesExt

CONSTANTS Peers,        \* the peers
          Start,        \* blocks the node has at first
          MaxBlock,     \* bound: blocks of the chain
          Limit,        \* ids in one reply (limit of get_block_ids)
          MinPrefetch,  \* GRAPHENE_NET_MIN_BLOCK_IDS_TO_PREFETCH
          PerPeer,      \* _maximum_blocks_per_peer_during_syncing
          MaxHandle,    \* _maximum_number_of_blocks_to_handle_at_one_time
          MaxPrefetch,  \* _maximum_number_of_sync_blocks_to_prefetch
          MaxConnects,  \* bound: connections in all
          MaxRefusals   \* bound: blocks that the chain refuses

ASSUME SyncAssumption ==
    /\ IsFiniteSet(Peers) /\ Start \in Nat /\ MaxBlock \in Nat \ {0}
    /\ Start <= MaxBlock
    /\ Limit \in Nat \ {0, 1} /\ MinPrefetch \in Nat \ {0} /\ PerPeer \in Nat \ {0}
    /\ MaxHandle \in Nat \ {0} /\ MaxPrefetch \in Nat \ {0}
    /\ MaxConnects \in Nat /\ MaxRefusals \in Nat

VARIABLES
    chain,      \* number of the head block of each peer
    peer,       \* peer_connection of each peer, see Connection
    height,     \* number of the node's own head block
    recent,     \* _most_recent_blocks_accepted
    active,     \* _active_sync_requests
    new,        \* _new_received_sync_items
    received,   \* _received_sync_items
    calls,      \* _handle_message_calls_in_progress that are not ready
    suspended,  \* _suspend_fetching_sync_blocks
    fetch,      \* the fetch loop was woken
    backlog,    \* process_backlog_of_sync_blocks is scheduled
    \* Bounds only.
    connects, refusals

vars == <<chain, peer, height, recent, active, new, received, calls, suspended,
          fetch, backlog, connects, refusals>>

Blocks == 1..MaxBlock

(* The connection of a peer.  State "active" is membership in              *)
(* _active_connections, "closing" in the lists of closing and terminating  *)
(* connections; asked holds the synopsis of item_ids_requested_from_peer,  *)
(* if there is one.                                                        *)
Connection ==
    [state : {"none", "active", "closing"},
     toget : Seq(Blocks),              \* ids_of_items_to_get
     being : SUBSET Blocks,            \* ids_of_items_being_processed
     unfetched : Nat,                  \* number_of_unfetched_item_ids
     need : BOOLEAN,                   \* we_need_sync_items_from_peer
     needed : BOOLEAN,                 \* peer_needs_sync_items_from_us
     asked : SUBSET SUBSET Blocks,
     req : SUBSET Blocks,              \* sync_items_requested_from_peer
     last : 0..MaxBlock]               \* last_block_delegate_has_seen

TypeOK ==
    /\ chain \in [Peers -> 0..MaxBlock]
    /\ peer \in [Peers -> Connection]
    /\ height \in 0..MaxBlock /\ recent \subseteq 1..height
    /\ active \subseteq Blocks
    /\ new \in Seq(Blocks) /\ received \in Seq(Blocks)
    /\ calls \in Seq(Blocks) /\ Len(calls) <= MaxHandle
    /\ suspended \in BOOLEAN /\ fetch \in BOOLEAN /\ backlog \in BOOLEAN
    /\ connects \in 0..MaxConnects /\ refusals \in 0..MaxRefusals

Fresh == [state |-> "none", toget |-> <<>>, being |-> {}, unfetched |-> 0,
          need |-> TRUE, needed |-> TRUE, asked |-> {}, req |-> {}, last |-> 0]

Init ==
    /\ chain \in [Peers -> Start..MaxBlock]
    /\ peer = [p \in Peers |-> Fresh]
    /\ height = Start /\ recent = {}
    /\ active = {} /\ new = <<>> /\ received = <<>> /\ calls = <<>>
    /\ suspended = FALSE /\ fetch = FALSE /\ backlog = FALSE
    /\ connects = 0 /\ refusals = 0

Active(p) == peer[p].state = "active"

idle(r) == r.req = {} /\ r.asked = {}

has_item(b) == b <= height

-----------------------------------------------------------------------------
(* Asking for ids.                                                         *)

(* Numbers from low to high in steps that halve the distance.              *)
Halving(low, high) ==
    LET from[n \in low..high] ==
          LET k == n + (high - n + 2) \div 2
          IN {n} \cup IF k <= high THEN from[k] ELSE {}
    IN from[low]

(* create_blockchain_synopsis_for_peer with get_blockchain_synopsis, when  *)
(* the head is h: of the chain up to the reference point, then of the ids  *)
(* the peer has told us.                                                   *)
Synopsis(r, h) ==
    LET top   == IF r.last = 0 THEN h ELSE r.last
        known == IF top = 0 THEN {}
                 ELSE {k \in Halving(1, top + Len(r.toget)): k <= top}
        told  == IF r.toget = <<>> THEN {}
                 ELSE {k \in Halving(1, Last(r.toget)): k >= Head(r.toget)}
    IN known \cup told

fetch_next_batch(r, h) == [r EXCEPT !.asked = {Synopsis(r, h)}]

start_synchronizing(r, h) ==
    fetch_next_batch([r EXCEPT !.toget = <<>>, !.unfetched = 0, !.need = TRUE,
                               !.last = 0], h)

(* new_peer_just_added, after the handshake.                               *)
Connect(p) ==
    /\ peer[p].state = "none" /\ connects < MaxConnects
    /\ connects' = connects + 1
    /\ peer' = [peer EXCEPT ![p] =
                  start_synchronizing([Fresh EXCEPT !.state = "active"], height)]
    /\ UNCHANGED <<chain, height, recent, active, new, received, calls, suspended,
                   fetch, backlog, refusals>>

(* get_block_ids on the peer: what follows the last block of the synopsis  *)
(* that it has, that block included.                                       *)
BlockIds(p, synopsis) ==
    LET first == Max({1} \cup {k \in synopsis: k <= chain[p]})
        last  == Min({chain[p], first + Limit - 1})
    IN [i \in 1..(last + 1 - first) |-> first + i - 1]

(* The peer's list with the new ids added: those in front that the chain   *)
(* has go, unless another peer's list begins with the first of them; a     *)
(* list that is there already is continued where the new one begins.       *)
Extended(p, ids) ==
    LET r     == peer[p]
        other == \E q \in Peers \ {p}: /\ Active(q) /\ peer[q].toget # <<>>
                                       /\ Head(peer[q].toget) = Head(ids)
        seen  == Max({0} \cup {n \in DOMAIN ids: \A i \in 1..n: has_item(ids[i])})
        at    == Max({0} \cup {n \in DOMAIN r.toget: r.toget[n] = Head(ids)})
    IN CASE ids = <<>> -> r
         [] ids # <<>> /\ r.toget = <<>> /\ other -> [r EXCEPT !.toget = ids]
         [] ids # <<>> /\ r.toget = <<>> /\ ~other ->
              [r EXCEPT !.toget = SubSeq(ids, seen + 1, Len(ids)),
                        !.last = IF seen = 0 THEN @ ELSE ids[seen]]
         [] ids # <<>> /\ r.toget # <<>> /\ at = 0 ->
              [r EXCEPT !.toget = Tail(ids), !.last = Head(ids)]
         [] ids # <<>> /\ r.toget # <<>> /\ at # 0 ->
              [r EXCEPT !.toget = SubSeq(@, 1, at - 1) \o ids]

\* Mutant of InSync: however many ids follow the first.
Mutant_InSync(r, ids, remaining) ==
    /\ remaining = 0
    /\ ids = <<>> \/ has_item(Head(ids))
    /\ r.toget = <<>> /\ r.unfetched = 0

(* The peer has nothing that we lack.                                      *)
InSync(r, ids, remaining) ==
    /\ remaining = 0
    /\ ids = <<>> \/ (Len(ids) = 1 /\ has_item(Head(ids)))
    /\ r.toget = <<>> /\ r.unfetched = 0

(* The peer's reply and on_blockchain_item_ids_inventory_message.          *)
on_blockchain_item_ids_inventory(p) ==
    /\ peer[p].state # "none"
    /\ UNCHANGED <<chain, height, recent, active, new, received, calls, suspended,
                   backlog, connects, refusals>>
    /\ \E synopsis \in peer[p].asked:
         LET ids       == BlockIds(p, synopsis)
             remaining == IF ids = <<>> THEN 0 ELSE chain[p] - Last(ids)
             r == [Extended(p, ids) EXCEPT !.unfetched = remaining, !.asked = {}]
             fetchable == IF remaining # 0 THEN Len(r.toget) > MinPrefetch
                                           ELSE r.toget # <<>>
         IN \/ /\ InSync(peer[p], ids, remaining)
               /\ peer' = [peer EXCEPT ![p].need = FALSE, ![p].asked = {}]
               /\ UNCHANGED fetch
            \/ /\ ~InSync(peer[p], ids, remaining) /\ fetchable
               /\ peer' = [peer EXCEPT ![p] = r]
               /\ fetch' = TRUE
            \/ /\ ~InSync(peer[p], ids, remaining) /\ ~fetchable
               /\ peer' = [peer EXCEPT ![p] = fetch_next_batch(r, height)]
               /\ UNCHANGED fetch

(* The peer asks us: on_fetch_blockchain_item_ids_message.  What it knows  *)
(* last is its own head.                                                   *)
on_fetch_blockchain_item_ids(p) ==
    LET r == [peer[p] EXCEPT !.needed =
                height # 0 /\ ~ (chain[p] # 0 /\ height \in Halving(1, chain[p]))]
    IN /\ Active(p)
       /\ peer' = [peer EXCEPT ![p] =
            IF ~r.need /\ ~has_item(chain[p]) THEN start_synchronizing(r, height) ELSE r]
       /\ UNCHANGED <<chain, height, recent, active, new, received, calls, suspended,
                      fetch, backlog, connects, refusals>>

PeerGrows(p) ==
    /\ chain[p] < MaxBlock
    /\ chain' = [chain EXCEPT ![p] = @ + 1]
    /\ UNCHANGED <<peer, height, recent, active, new, received, calls, suspended,
                   fetch, backlog, connects, refusals>>

-----------------------------------------------------------------------------
(* Fetching blocks.                                                        *)

have_already_received(b) == b \in Range(received) \cup Range(new)

\* Mutant of Wanted: blocks requested in an earlier iteration are wanted.
Mutant_Wanted(r, taken) ==
    {b \in Range(r.toget): b \notin taken /\ ~have_already_received(b)}

(* What may be requested from a peer when taken is already being asked for.*)
Wanted(r, taken) ==
    {b \in Range(r.toget): b \notin taken \cup active /\ ~have_already_received(b)}

(* The first of them, in the order of the peer's list.                     *)
FirstWanted(r, taken) ==
    LET want == Wanted(r, taken)
    IN {b \in want: \E i \in DOMAIN r.toget:
          /\ r.toget[i] = b
          /\ Cardinality({r.toget[j]: j \in 1..(i - 1)} \cap want) < PerPeer}

(* One pass over the idle peers gives each what no other is asked for:     *)
(* sync_item_requests_to_send.                                             *)
Requests(order) ==
    LET after[n \in 0..Len(order)] ==
          IF n = 0 THEN [p \in Peers |-> {}]
          ELSE LET p == order[n]
               IN IF Active(p) /\ peer[p].need /\ idle(peer[p])
                    THEN [after[n - 1] EXCEPT ![p] =
                            FirstWanted(peer[p], UNION {after[n - 1][q]: q \in Peers})]
                    ELSE after[n - 1]
    IN after[Len(order)]

fetch_sync_items_loop ==
    /\ fetch /\ fetch' = FALSE
    /\ IF suspended THEN UNCHANGED <<peer, active>>
       ELSE \E order \in SetToSeqs(Peers):
              LET requests == Requests(order)
              IN /\ peer' = [p \in Peers |-> [peer[p] EXCEPT !.req = @ \cup requests[p]]]
                 /\ active' = active \cup UNION {requests[p]: p \in Peers}
    /\ UNCHANGED <<chain, height, recent, new, received, calls, suspended,
                   backlog, connects, refusals>>

(* A block that was asked for arrives: process_block_message and           *)
(* process_block_during_sync.  A peer sends them in the order of the       *)
(* request, also while the connection is closing.                          *)
process_block_message(p) ==
    LET b == Min(peer[p].req)
        r == [peer[p] EXCEPT !.req = @ \ {b}]
        more == r.unfetched > 0 /\ Len(r.toget) < MinPrefetch
    IN /\ peer[p].state # "none" /\ peer[p].req # {}
       /\ active' = active \ {b}
       /\ new' = <<b>> \o new
       /\ backlog' = TRUE
       /\ peer' = [peer EXCEPT ![p] =
                     IF idle(r) /\ more THEN fetch_next_batch(r, height) ELSE r]
       /\ fetch' = (fetch \/ (idle(r) /\ ~more))
       /\ UNCHANGED <<chain, height, recent, received, calls, suspended, connects,
                      refusals>>

-----------------------------------------------------------------------------
(* Handing blocks to the chain.                                            *)

\* Mutant of IsNext: any block that a peer offered.
Mutant_IsNext(r, b) == b \in Range(r.toget)

(* The block is the first that a peer's list still has.                    *)
IsNext(r, b) == r.toget # <<>> /\ Head(r.toget) = b

\* Mutant of Full: one call more than the limit.
Mutant_Full(n) == n > MaxHandle

Full(n) == n >= MaxHandle

(* One iteration of process_backlog_of_sync_blocks: the first block that   *)
(* comes next for some peer leaves the lists, and is handed over unless it *)
(* was accepted already.  Then the block stays where it is, and the loop   *)
(* ends.                                                                   *)
BacklogStep(st) ==
    LET offering(b) == {p \in Peers: Active(p) /\ IsNext(st.peer[p], b)}
        found == {n \in DOMAIN st.received: offering(st.received[n]) # {}}
        i     == IF found = {} THEN 0 ELSE Min(found)
        b     == st.received[i]
        known == b \in recent
        calls2 == IF i = 0 \/ known THEN st.calls ELSE Append(st.calls, b)
        rest   == IF i = 0 \/ known THEN st.received ELSE RemoveAt(st.received, i)
    IN [peer |-> [p \in Peers |->
                    IF i # 0 /\ p \in offering(b)
                      THEN [st.peer[p] EXCEPT !.toget = Tail(@), !.being = @ \cup {b}]
                      ELSE st.peer[p]],
        calls |-> calls2,
        received |-> rest,
        suspended |-> Full(Len(calls2)) /\ Len(rest) >= MaxPrefetch,
        again |-> i # 0 /\ ~known /\ ~Full(Len(calls2))]

process_backlog_of_sync_blocks ==
    /\ backlog /\ backlog' = FALSE
    /\ IF Full(Len(calls))
         THEN UNCHANGED <<peer, calls, new, received, suspended, fetch>>
         ELSE LET all   == Reverse(new) \o received
                  after[n \in 0..(Len(all) + 1)] ==
                    IF n = 0 THEN [peer |-> peer, calls |-> calls, received |-> all,
                                   suspended |-> FALSE, again |-> TRUE]
                    ELSE LET st == after[n - 1]
                         IN IF st.again THEN BacklogStep(st) ELSE st
                  final == after[Len(all) + 1]
              IN /\ peer' = final.peer /\ calls' = final.calls
                 /\ received' = final.received /\ new' = <<>>
                 /\ suspended' = final.suspended
                 /\ fetch' = (fetch \/ ~final.suspended)
    /\ UNCHANGED <<chain, height, recent, active, connects, refusals>>

(* What becomes of a peer's connection when block b was accepted and h is  *)
(* the head.                                                               *)
AfterAccepted(r, b, h) ==
    LET q == [r EXCEPT !.being = @ \ {b}, !.last = b]
    IN CASE r.toget = <<>> /\ r.being = {} ->
              IF ~r.needed /\ ~r.need THEN start_synchronizing(r, h) ELSE r
         [] b \in r.being ->
              IF q.toget = <<>> /\ q.unfetched = 0 /\ q.being = {}
                THEN fetch_next_batch(q, h) ELSE q
         [] OTHER -> r

(* send_sync_block_to_node_delegate: the calls to handle_block end in the  *)
(* order in which they began.  A block that the chain has is accepted once *)
(* more; one that does not link, or is refused, closes the connection to   *)
(* the peers that offered it.                                              *)
send_sync_block_to_node_delegate(accepted) ==
    LET b == Head(calls) IN
    /\ calls # <<>> /\ calls' = Tail(calls)
    /\ \/ /\ accepted /\ b <= height + 1
          /\ height' = Max({height, b})
          /\ recent' = recent \cup {b}
          /\ peer' = [p \in Peers |-> IF Active(p) THEN AfterAccepted(peer[p], b, height')
                                                   ELSE peer[p]]
          /\ UNCHANGED refusals
       \/ /\ ~accepted
          /\ b <= height + 1 => refusals < MaxRefusals
          /\ refusals' = IF b <= height + 1 THEN refusals + 1 ELSE refusals
          /\ peer' = [p \in Peers |-> IF Active(p) /\ b \in peer[p].being
                        THEN [peer[p] EXCEPT !.state = "closing"] ELSE peer[p]]
          /\ UNCHANGED <<height, recent>>
    /\ backlog' = TRUE
    /\ UNCHANGED <<chain, active, new, received, suspended, fetch, connects>>

-----------------------------------------------------------------------------
(* Connections.                                                            *)

(* terminate_inactive_connections_loop: the peer was silent, or did not    *)
(* answer a request in time.                                               *)
Timeout(p) ==
    /\ Active(p)
    /\ peer' = [peer EXCEPT ![p].state = "closing"]
    /\ UNCHANGED <<chain, height, recent, active, new, received, calls, suspended,
                   fetch, backlog, connects, refusals>>

\* Mutant of Released: the requests stay as if another peer had them.
Mutant_Released(p) == active

(* Requests of a closed connection are free to be made again.              *)
Released(p) == active \ peer[p].req

(* The connection is closed, by either side.                               *)
on_connection_closed(p) ==
    /\ peer[p].state # "none"
    /\ peer' = [peer EXCEPT ![p] = Fresh]
    /\ active' = Released(p)
    /\ fetch' = (fetch \/ peer[p].req # {})
    /\ UNCHANGED <<chain, height, recent, new, received, calls, suspended, backlog,
                   connects, refusals>>

Answer(p) == on_blockchain_item_ids_inventory(p) \/ process_block_message(p)

Next == \/ \E p \in Peers: \/ Connect(p) \/ PeerGrows(p)
                           \/ Answer(p)
                           \/ on_fetch_blockchain_item_ids(p)
                           \/ Timeout(p) \/ on_connection_closed(p)
        \/ fetch_sync_items_loop
        \/ process_backlog_of_sync_blocks
        \/ \E accepted \in BOOLEAN: send_sync_block_to_node_delegate(accepted)

(* The node's own tasks run.  A peer that does not answer is disconnected  *)
(* by the timeout, and a closing connection is terminated.  The backlog is *)
(* the only action that resets its flag, and nothing else hinders it.      *)
Fairness ==
    /\ WF_vars(fetch_sync_items_loop)
    /\ WF_backlog(backlog /\ backlog' = FALSE)
    /\ WF_vars(\E accepted \in BOOLEAN: send_sync_block_to_node_delegate(accepted))
    /\ \A p \in Peers: /\ WF_vars(~idle(peer[p]) /\ Active(p) /\ (Timeout(p) \/ Answer(p)))
                       /\ WF_vars(peer[p].state = "closing" /\ on_connection_closed(p))

Spec == Init /\ [][Next]_vars /\ Fairness

-----------------------------------------------------------------------------
(* Properties.                                                             *)

(* Blocks reach the chain in order: whatever arrives first, and from whom, *)
(* a call never asks the chain to take a block whose parent it has neither *)
(* taken nor been given before, unless the chain refused one.              *)
InOrder ==
    refusals = 0 =>
        \A i \in DOMAIN calls: \/ calls[i] <= height + 1
                               \/ \E j \in 1..(i - 1): calls[j] = calls[i] - 1

(* A block is never requested from two peers at a time, though each        *)
(* request may be lost with its connection and made again.                 *)
OneRequest ==
    \A p, q \in Peers: p # q => peer[p].req \cap peer[q].req = {}

(* Synchronisation with a peer ends only when the node has all the blocks  *)
(* the peer has and waits for nothing from it.                             *)
EndsInSync ==
    [][\A p \in Peers: Active(p) /\ peer[p].need /\ ~peer'[p].need =>
         height >= chain[p] /\ peer[p].req = {}]_vars

(* Synchronisation with a peer that stays connected ends, unless a block   *)
(* that was received is kept for ever: no request is forgotten, no task    *)
(* left asleep, the limits of the queues never block for good.             *)
Synced ==
    \A p \in Peers: <>[]Active(p) => <>[](~peer[p].need) \/ <>[](received # <<>>)

(* A peer with which we still need to synchronise has a request of ours,   *)
(* or blocks to be fetched or handed over: when its list is empty it is    *)
(* asked again, to find out whether we are in sync.                        *)
AsksAgain ==
    \A p \in Peers:
        Active(p) /\ peer[p].need =>
            \/ ~idle(peer[p]) \/ peer[p].toget # <<>>
            \/ peer[p].being \cap Range(calls) # {}
=============================================================================
