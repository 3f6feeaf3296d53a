---------------------------- MODULE MinerSchedule ----------------------------
(***************************************************************************)
(* Who may produce a block, and when: the slots that the head block leaves *)
(* to the miners (db_witness_schedule), what a block does to the schedule  *)
(* (_apply_block with update_global_dynamic_data, update_signing_miner,    *)
(* perform_chain_maintenance and update_miner_schedule), and the loop that *)
(* produces blocks (the witness plugin).                                   *)
(*                                                                         *)
(* There is one chain; forks are the subject of ChainDatabase.  Blocks are *)
(* produced by nodes that are up (AlwaysOn), or come late or never from    *)
(* the others.  Weights count in units of 100 (what a block adds).         *)
(***************************************************************************)
EXTENDS Naturals, Sequences, FiniteSets, FiniteSetsExt, SequencesExt

CONSTANTS Miners,               \* ids of the miner objects
          InitialActive,        \* initial_active_miners, in the order of their ids
          AlwaysOn,             \* miners whose node is up and in time
          Locks,                \* what is locked for each miner (lockbalance_total)
          Line,                 \* minimum_pledge_weight_line
          Round,                \* GRAPHENE_PRODUCT_PER_ROUND
          Interval,             \* block_interval, in units of the clock
          Skip,                 \* maintenance_skip_slots
          MaintenanceInterval,  \* in units of the clock
          BonusBlocks,          \* GRAPHENE_BONUS_DISTRIBUTE_BLOCK_NUM
          Window,               \* bits of recent_slots_filled
          Required,             \* bits of it that --required-participation asks for
          Tolerance,            \* how far a block may be ahead of the clock
          Genesis,              \* initial_timestamp
          MaxBlocked,           \* bound: addresses of miners blocked at a time
          MaxTime               \* bound: the clock

ASSUME ScheduleAssumption ==
    /\ Miners \subseteq Nat /\ IsFiniteSet(Miners) /\ AlwaysOn \subseteq Miners
    /\ Round \in Nat \ {0} /\ Cardinality(Miners) >= Round
    /\ InitialActive \in Seq(Miners) /\ IsInjective(InitialActive)
    /\ Len(InitialActive) >= Round
    /\ Locks \in [Miners -> Nat] /\ Line \in Nat \ {0}
    /\ Interval \in Nat \ {0} /\ Skip \in Nat
    /\ MaintenanceInterval \in Nat \ {0} /\ BonusBlocks \in Nat \ {0}
    /\ Window \in Nat \ {0} /\ Required \in 0..Window
    /\ Tolerance \in 0..(Interval - 1)
    /\ Genesis \in Nat \ {0} /\ Genesis % Interval = 0
    /\ MaxBlocked \in Nat /\ MaxTime \in Nat

VARIABLES
    now,        \* the clock, in whole units
    head,       \* head_block_number
    time,       \* dynamic_global_property_object::time
    aslot,      \* current_aslot
    flag,       \* maintenance_flag
    maint,      \* next_maintenance_time
    filled,     \* recent_slots_filled, the lowest bit last
    shuffled,   \* current_shuffled_miners
    active,     \* active_witnesses
    blocked,    \* miners whose address is in the blocked index
    weight,     \* pledge_weight of each miner
    produced,   \* total_produced of each miner
    missed,     \* total_missed of each miner
    \* For checking only: slots that no miner ever had, the slots that a block
    \* filled, the turns of each miner since the last shuffle, and when the
    \* head block arrived.
    skipped, history, turns, arrived

counters == <<produced, missed, skipped, history, turns, arrived>>
chainvars == <<head, time, aslot, flag, maint, filled, shuffled, active,
               blocked, weight, counters>>
vars == <<now, chainvars>>

TypeOK ==
    /\ now \in Nat /\ head \in Nat /\ time \in Nat /\ aslot \in Nat
    /\ flag \in BOOLEAN /\ maint \in Nat
    /\ filled \in Seq({0, 1}) /\ Len(filled) = Window
    /\ shuffled \in Seq(Miners) /\ Len(shuffled) >= Round
    /\ active \subseteq Miners /\ blocked \subseteq Miners
    /\ weight \in [Miners -> Nat \ {0}]
    /\ produced \in [Miners -> Nat] /\ missed \in [Miners -> Nat]
    /\ skipped \in Nat /\ history \subseteq 1..aslot
    /\ turns \in [Miners -> Nat] /\ arrived \in Nat

Init ==
    /\ now = Genesis /\ head = 0 /\ time = Genesis /\ aslot = 0
    /\ flag = FALSE /\ maint = 0
    /\ filled = [i \in 1..Window |-> 1]
    /\ shuffled = InitialActive
    /\ active = Range(InitialActive)
    /\ blocked = {}
    /\ weight = [m \in Miners |-> 1]
    /\ produced = [m \in Miners |-> 0] /\ missed = [m \in Miners |-> 0]
    /\ skipped = 0 /\ history = {}
    /\ turns = [m \in Miners |-> 0] /\ arrived = Genesis

-----------------------------------------------------------------------------
(* Slots.                                                                  *)

\* Mutant of get_scheduled_miner: the slots that were missed do not count.
Mutant_get_scheduled_miner(slot) == shuffled[((head + slot) % Round) + 1]

get_scheduled_miner(slot) == shuffled[((aslot + slot) % Round) + 1]

(* Slots that are left out after a maintenance and after a bonus block.    *)
SkippedSlots == (IF flag THEN Skip ELSE 0)
                + (IF head % BonusBlocks = 0 /\ head > 0 THEN Skip ELSE 0)

\* Mutant of get_slot_time: the time of the head is not rounded down.
Mutant_get_slot_time(slot) == time + (slot + SkippedSlots) * Interval

get_slot_time(slot) ==
    IF head = 0 THEN time + slot * Interval
    ELSE (time \div Interval) * Interval + (slot + SkippedSlots) * Interval

get_slot_at_time(when) ==
    IF when < get_slot_time(1) THEN 0
    ELSE (when - get_slot_time(1)) \div Interval + 1

(* miner_participation_rate, in filled slots.                              *)
Participation == Cardinality({i \in 1..Window: filled[i] = 1})

-----------------------------------------------------------------------------
(* What a block does to the schedule.                                      *)

MissedTurns(m, slot) == Cardinality({i \in 1..slot: get_scheduled_miner(i) = m})

\* Mutant of RecentSlots: missed slots leave the bitmap as it was.
Mutant_RecentSlots(miss) == Append(Tail(filled), 1)

(* ((recent_slots_filled << 1) + 1) << missed, in Window bits.             *)
RecentSlots(miss) ==
    LET bits == filled \o <<1>> \o [i \in 1..miss |-> 0]
    IN SubSeq(bits, Len(bits) - Window + 1, Len(bits))

(* sort_pledge_objects stops after the first miner below the line, but     *)
(* takes a whole round; miners of equal weight come in any order.          *)
ActiveMiners ==
    LET above == {m \in Miners: weight[m] >= Line}
        scan  == Min({Cardinality(above) + 1, Cardinality(Miners)})
        count == Max({scan, Round})
    IN {S \in SUBSET Miners:
          /\ Cardinality(S) = count
          /\ \A m \in S, n \in Miners \ S: weight[m] >= weight[n]}

(* The maintenance time after a block at t.                                *)
NextMaintenance(t) ==
    IF head = 0 THEN (t \div MaintenanceInterval + 1) * MaintenanceInterval
    ELSE maint + ((t - maint) \div MaintenanceInterval + 1) * MaintenanceInterval

(* The weights at the places in I, added up.                               *)
WeightAt(w, I) == MapThenSumSet(LAMBDA i: w[i], I)

(* caluate_slot: the first of count miners whose weights, added up, exceed *)
(* the value.                                                              *)
caluate_slot(w, count, value) ==
    LET hits == {i \in 1..count: WeightAt(w, 1..i) > value}
    IN IF hits = {} THEN count ELSE Min(hits)

Swapped(s, i, j) == [s EXCEPT ![i] = s[j], ![j] = s[i]]

\* Mutant of Draw: the miner that was drawn stays among the candidates.
Mutant_Draw(st, r) ==
    LET last == Len(st.miners) - Len(st.out)
        slot == caluate_slot(st.weights, last, r)
    IN [st EXCEPT !.out = Append(@, st.miners[slot]),
                  !.total = @ - st.weights[slot],
                  !.weights = Swapped(@, slot, last)]

(* One step of the shuffle: a miner is drawn by weight and swapped to the  *)
(* end of the candidates.                                                  *)
Draw(st, r) ==
    LET last == Len(st.miners) - Len(st.out)
        slot == caluate_slot(st.weights, last, r)
    IN [st EXCEPT !.out = Append(@, st.miners[slot]),
                  !.total = @ - st.weights[slot],
                  !.miners = Swapped(@, slot, last),
                  !.weights = Swapped(@, slot, last)]

(* Miners in the order of their ids.                                       *)
ById(S) == CHOOSE s \in [1..Cardinality(S) -> S]:
             \A i, j \in 1..Cardinality(S): i < j => s[i] < s[j]

(* The schedules that Round random numbers can make of the candidates.     *)
(* When the candidates run out r % total_weight divides by zero: there is  *)
(* no schedule, and the block is not applied.                              *)
Shuffles(candidates, w) ==
    LET order == ById(candidates)
        ws    == [i \in DOMAIN order |-> w[order[i]]]
        start == [miners |-> order, weights |-> ws, out |-> <<>>,
                  total |-> WeightAt(ws, DOMAIN ws)]
        drawn[i \in 0..Round] ==
            IF i = 0 THEN {start}
            ELSE UNION {{Draw(st, r): r \in 0..(st.total - 1)}: st \in drawn[i - 1]}
    IN {st.out: st \in drawn[Round]}

(* The weight of the active miners is brought up to date, and the next     *)
(* round drawn.                                                            *)
update_miner_schedule ==
    IF head' % Round = 0
      THEN /\ weight' = [m \in Miners |-> IF m \in active'
                            THEN produced'[m] + 1 + Locks[m] ELSE weight[m]]
           /\ shuffled' \in Shuffles(active' \ blocked', weight')
           /\ turns' = [m \in Miners |-> 0]
      ELSE UNCHANGED <<weight, shuffled>>

\* Mutant of NextAslot: the slot of the block itself is not counted.
Mutant_NextAslot(slot) == aslot + slot - 1

NextAslot(slot) == aslot + slot

update_global_dynamic_data(m, t) ==
    LET slot == get_slot_at_time(t) IN
    /\ missed' = [n \in Miners |->
                    IF n = m THEN missed[n] ELSE missed[n] + MissedTurns(n, slot - 1)]
    /\ head' = head + 1 /\ time' = t /\ aslot' = NextAslot(slot)
    /\ filled' = RecentSlots(slot - 1)
    /\ history' = history \cup {aslot + slot}
    /\ skipped' = skipped + SkippedSlots
    /\ head' % Round # 0 =>
         turns' = [n \in Miners |-> turns[n] + MissedTurns(n, slot)]

(* perform_chain_maintenance, if it is due, and update_maintenance_flag.   *)
perform_chain_maintenance(t) ==
    IF maint <= t
      THEN /\ active' \in ActiveMiners
           /\ maint' = NextMaintenance(t)
           /\ flag' = TRUE
      ELSE /\ flag' = FALSE
           /\ UNCHANGED <<active, maint>>

(* block_address and cancel_address_block operations in the block.         *)
BlockAddresses == /\ blocked' \in SUBSET Miners
                  /\ Cardinality(blocked') <= MaxBlocked

validate_block_header(m, t) ==
    /\ time < t
    /\ get_slot_at_time(t) > 0
    /\ m = get_scheduled_miner(get_slot_at_time(t))

apply_block(m, t) ==
    /\ validate_block_header(m, t)
    /\ BlockAddresses
    /\ update_global_dynamic_data(m, t)
    /\ produced' = [produced EXCEPT ![m] = @ + 1]
    /\ perform_chain_maintenance(t)
    /\ update_miner_schedule
    /\ arrived' = now /\ UNCHANGED now

-----------------------------------------------------------------------------
(* The nodes.                                                              *)

\* Mutant of Turn: being in time is measured by the first slot.
Mutant_Turn(m) ==
    LET slot == get_slot_at_time(now) IN
    /\ slot # 0
    /\ m = get_scheduled_miner(slot)
    /\ Participation >= Required
    /\ get_slot_time(1) = now

(* The conditions of maybe_produce_block on the node of miner m; the lag   *)
(* check leaves the second of the slot.                                    *)
Turn(m) ==
    LET slot == get_slot_at_time(now) IN
    /\ slot # 0
    /\ m = get_scheduled_miner(slot)
    /\ Participation >= Required
    /\ get_slot_time(slot) = now

maybe_produce_block(m) == Turn(m) /\ apply_block(m, now)

(* A block made now leaves enough candidates for the next round.           *)
Makeable ==
    (head + 1) % Round = 0 =>
        \A S \in IF maint <= now THEN ActiveMiners ELSE {active}:
            Cardinality(S \ blocked) >= Round

(* A block from another node, late or stamped anywhere in its slot; only   *)
(* its header is checked, and that it is not too far ahead of the clock.   *)
push_block(m, t) ==
    /\ m \notin AlwaysOn
    /\ t <= now + Tolerance
    /\ apply_block(m, t)

(* The production loop runs at every tick, so that the clock does not go   *)
(* on while a node that is up has a block to make.  One that cannot be     *)
(* made is an exception, and the loop goes on.                             *)
Tick ==
    /\ now < MaxTime
    /\ \A m \in AlwaysOn: ~ (Turn(m) /\ Makeable)
    /\ now' = now + 1
    /\ UNCHANGED chainvars

Next == \/ Tick
        \/ \E m \in Miners: \/ maybe_produce_block(m)
                            \/ \E t \in (time + 1)..(now + Tolerance): push_block(m, t)

Spec == Init /\ [][Next]_vars

-----------------------------------------------------------------------------
(* Properties.                                                             *)

(* The absolute slot number keeps step with the clock: the blocks' times,  *)
(* rounded down, advance by one interval for each slot counted and for     *)
(* each slot left out, so that no two blocks share a slot and a gap after  *)
(* maintenance is never eaten up by later rounding.                        *)
SlotsMatchClock == time \div Interval = Genesis \div Interval + aslot + skipped

(* Within a round, whatever was missed, the turns of the scheduled miners  *)
(* differ by at most one: missing slots does not give anyone more blocks.  *)
EqualTurns ==
    \A i, j \in 1..Round: turns[shuffled[i]] <= turns[shuffled[j]] + 1

(* The weighted shuffle, which swaps what it has drawn to the end of two   *)
(* lists, draws no miner twice.                                            *)
ShuffleDistinct == \A i, j \in 1..Round: shuffled[i] = shuffled[j] => i = j

(* recent_slots_filled puts the bits of missed slots behind the block that *)
(* follows them.  The participation read from it is still that of the last *)
(* Window slots, or one less when the oldest block falls out early.        *)
ParticipationTrue ==
    LET recent == {s \in 1..aslot: s > aslot - Window}
        before == Window - Cardinality(recent)
        true   == Cardinality(recent \cap history) + before
    IN Participation \in {true, true - 1}

(* A block is made within one round of slots after the last one arrived,   *)
(* as long as a miner that is up is in the schedule and no address is      *)
(* blocked: slot times, the gap and the order of the miners leave no slot  *)
(* that its node would not recognise as its own.                           *)
Progress ==
    (\E i \in 1..Round: shuffled[i] \in AlwaysOn) /\ blocked = {} =>
        now <= Max({time, arrived}) + (Round + SkippedSlots) * Interval
=============================================================================
