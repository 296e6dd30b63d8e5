----------------------------- MODULE Validation -----------------------------
(***************************************************************************)
(* --data_validation in host memory: run_iter_bw_dv sends one of three     *)
(* patterns to the slots of a ring, and after the last slot of a chunk adds *)
(* one to the chunk's marker; the validator threads of host_validation.c   *)
(* poll the markers and compare each chunk with the pattern of its round,  *)
(* while the next round may already be overwriting it.                     *)
(*                                                                         *)
(* A slot holds 0 before the first round, a pattern 1..3, or Garbage.  The *)
(* scan of a chunk takes a step for each slot.  A slot has at least five   *)
(* bytes, and arrives as a whole: the comparison of the next four bytes    *)
(* always finds bytes of the same message.                                 *)
(***************************************************************************)
EXTENDS Integers, Sequences

CONSTANTS
  Configs,      \* num_qps, chunks, ops (per chunk), iters, tx_depth, cq_mod, mode, small
                \* (chunks are polled depth first), cores, faults (messages damaged at most)
  SpinCheck,    \* VALIDATOR_SPIN_CHECK_INTERVAL, 1024 in the code
  TailSlots     \* the slots at a chunk's end that are read twice, 2 in the code

ASSUME ValidationAssumption ==
  /\ Configs \subseteq [num_qps : Nat \ {0}, chunks : Nat \ {0}, ops : Nat \ {0}, iters : Nat \ {0},
                        tx_depth : Nat \ {0}, cq_mod : Nat \ {0}, mode : {"READ", "WRITE"},
                        small : BOOLEAN, cores : Nat, faults : Nat]
  /\ SpinCheck \in Nat /\ TailSlots \in Nat \ {0}

VARIABLES
  cfg,          \* one of Configs
  ctx,          \* the sender: for each queue pair scnt, ccnt, recv_off, send_off
  wire,         \* for each queue pair, the operations posted and not yet executed
  cqe,          \* for each queue pair, the slots its unpolled completions stand for
  landed,       \* for each queue pair, the messages that have arrived
  mem,          \* recv_slots: for each queue pair, what its slots hold
  flush,        \* for each queue pair, a message on its way to memory, or none
  tail_markers, \* the counters the atomics add to
  returns,      \* atomic_returns: what the atomics of a READ test fetched
  validators,   \* the threads: where they are and what they know
  last_seen,    \* for each marker, the value its validator handled last
  stats,        \* rounds validated and skipped, races, retries, errors
  stop_flag,
  main,         \* where data_validation_start and _stop_and_report are
  faults,       \* the messages damaged so far
  lapped,       \* an error was found in a slot that three more rounds had passed
  at_stop       \* the markers when the validators were told to stop

client == <<ctx, wire, cqe>>
fabric == <<landed, mem, flush, tail_markers, returns, faults>>
threads == <<validators, last_seen, stats, lapped>>
vars == <<cfg, client, fabric, threads, stop_flag, main, at_stop>>

Garbage == 4
NoMessage == [slot |-> -1, value |-> 0]
Least(x, y) == IF x < y THEN x ELSE y

validation_cycle_to_pattern(cycle) == 1 + (cycle % 3)

-----------------------------------------------------------------------------
(* The ring and the share of each validator.                               *)

Qps == 0..(cfg.num_qps - 1)
Slots == cfg.ops * cfg.chunks
TotalMarkers == cfg.num_qps * cfg.chunks
Markers == 0..(TotalMarkers - 1)
MarkerOf(qp, chunk) == qp * cfg.chunks + chunk
QpOf(marker) == marker \div cfg.chunks
FirstSlot(marker) == (marker % cfg.chunks) * cfg.ops

get_num_validators(c) ==
  LET total == c.num_qps * c.chunks
      per_qp == IF c.mode = "READ" THEN 3 ELSE 2
      wanted == IF c.num_qps * per_qp < 4 THEN 4 ELSE c.num_qps * per_qp
      fits == Least(Least(Least(wanted, c.cores \div 2), 32), total)
  IN IF fits < 1 THEN 1 ELSE fits
Validators == DOMAIN validators

\* Markers are dealt chunk by chunk over all queue pairs, in consecutive shares.
LogicalOrder ==
  [i \in 1..TotalMarkers |-> MarkerOf((i - 1) % cfg.num_qps, (i - 1) \div cfg.num_qps)]
Share(v, n) == TotalMarkers \div n + (IF v < TotalMarkers % n THEN 1 ELSE 0)
Before(v, n) == v * (TotalMarkers \div n) + Least(v, TotalMarkers % n)
Dealt(v, n) == {LogicalOrder[i] : i \in (Before(v, n) + 1)..(Before(v, n) + Share(v, n))}
\* The list of a validator: its markers in ascending order.
distribute_markers(v) ==
  LET n == get_num_validators(cfg)
  IN {list \in [1..Share(v, n) -> Dealt(v, n)] :
        /\ \A m \in Dealt(v, n) : \E i \in 1..Share(v, n) : list[i] = m
        /\ \A i, j \in 1..Share(v, n) : i < j => list[i] < list[j]}

\* A WRITE test's validator watches the counters; a READ test's, what was fetched.
Marker(m) == IF cfg.mode = "READ" THEN returns[m] ELSE tail_markers[m]

-----------------------------------------------------------------------------
(* run_iter_bw_dv, for a number of iterations.                             *)

ChainAtomic(slot) == (slot + 1) % cfg.ops = 0
Signaled(i) == i % cfg.cq_mod = cfg.cq_mod - 1 \/ i = cfg.iters - 1

Post_TwoPatterns(q) ==
  LET me == ctx[q]
      last == me.recv_off + 1 = Slots
      data == [op |-> "data", nr |-> me.scnt, slot |-> me.recv_off,
               value |-> validation_cycle_to_pattern(me.send_off), signaled |-> Signaled(me.scnt)]
      add == [op |-> "add", nr |-> me.scnt, marker |-> MarkerOf(q, me.recv_off \div cfg.ops)]
  IN /\ cfg.mode = "READ" => main = "run"
     /\ me.scnt < cfg.iters
     /\ me.scnt + 1 <= cfg.tx_depth + me.ccnt
     /\ wire' = [wire EXCEPT ![q] = @ \o <<data>>
                                      \o IF ChainAtomic(me.recv_off) THEN <<add>> ELSE <<>>]
     /\ ctx' = [ctx EXCEPT ![q] =
                  [me EXCEPT !.scnt = me.scnt + 1,
                             !.recv_off = IF last THEN 0 ELSE me.recv_off + 1,
                             !.send_off = IF last THEN (me.send_off + 1) % 2 ELSE me.send_off]]
     /\ UNCHANGED <<cfg, cqe, fabric, threads, stop_flag, main, at_stop>>
Post(q) ==
  LET me == ctx[q]
      last == me.recv_off + 1 = Slots
      data == [op |-> "data", nr |-> me.scnt, slot |-> me.recv_off,
               value |-> validation_cycle_to_pattern(me.send_off), signaled |-> Signaled(me.scnt)]
      add == [op |-> "add", nr |-> me.scnt, marker |-> MarkerOf(q, me.recv_off \div cfg.ops)]
  IN /\ cfg.mode = "READ" => main = "run"
     /\ me.scnt < cfg.iters
     /\ me.scnt + 1 <= cfg.tx_depth + me.ccnt
     /\ wire' = [wire EXCEPT ![q] = @ \o <<data>>
                                      \o IF ChainAtomic(me.recv_off) THEN <<add>> ELSE <<>>]
     /\ ctx' = [ctx EXCEPT ![q] =
                  [me EXCEPT !.scnt = me.scnt + 1,
                             !.recv_off = IF last THEN 0 ELSE me.recv_off + 1,
                             !.send_off = IF last THEN (me.send_off + 1) % 3 ELSE me.send_off]]
     /\ UNCHANGED <<cfg, cqe, fabric, threads, stop_flag, main, at_stop>>

Poll(q) ==
  /\ cqe[q] > 0
  /\ cqe' = [cqe EXCEPT ![q] = @ - 1]
  /\ ctx' = [ctx EXCEPT ![q].ccnt = Least(@ + cfg.cq_mod, cfg.iters)]
  /\ UNCHANGED <<cfg, wire, fabric, threads, stop_flag, main, at_stop>>

Sent == \A q \in Qps : ctx[q].scnt = cfg.iters /\ ctx[q].ccnt = cfg.iters

-----------------------------------------------------------------------------
(* The queue pair executes its operations in order.  Memory gets the data   *)
(* of a message before the next message's, but the marker may overtake it.  *)

Arrives(q, value) ==
  LET d == Head(wire[q])
  IN /\ wire[q] # <<>> /\ d.op = "data" /\ flush[q] = NoMessage
     /\ landed' = [landed EXCEPT ![q] = @ + 1]
     /\ cqe' = [cqe EXCEPT ![q] = @ + (IF d.signaled THEN 1 ELSE 0)]
     /\ wire' = [wire EXCEPT ![q] = Tail(@)]
     /\ \/ /\ mem' = [mem EXCEPT ![q][d.slot] = value]
           /\ UNCHANGED flush
        \/ /\ ChainAtomic(d.slot)
           /\ flush' = [flush EXCEPT ![q] = [slot |-> d.slot, value |-> value]]
           /\ UNCHANGED mem
     /\ UNCHANGED <<cfg, ctx, tail_markers, returns, threads, stop_flag, main, at_stop>>

Land(q) == Arrives(q, Head(wire[q]).value) /\ UNCHANGED faults
\* What the tool is there to find: bytes that are not those that were sent, and
\* a message that never reaches memory.
Damage(q) ==
  /\ faults < cfg.faults /\ faults' = faults + 1
  /\ \/ Arrives(q, Garbage)
     \/ Arrives(q, mem[q][Head(wire[q]).slot])
Flushed(q) ==
  /\ flush[q] # NoMessage
  /\ mem' = [mem EXCEPT ![q][flush[q].slot] = flush[q].value]
  /\ flush' = [flush EXCEPT ![q] = NoMessage]
  /\ UNCHANGED <<cfg, client, landed, tail_markers, returns, faults, threads, stop_flag, main,
                 at_stop>>
FetchAndAdd(q) ==
  /\ wire[q] # <<>> /\ Head(wire[q]).op = "add"
  /\ LET m == Head(wire[q]).marker
     IN /\ tail_markers' = [tail_markers EXCEPT ![m] = @ + 1]
        /\ returns' = [returns EXCEPT ![m] = tail_markers[m]]
  /\ wire' = [wire EXCEPT ![q] = Tail(@)]
  /\ UNCHANGED <<cfg, ctx, cqe, landed, mem, flush, faults, threads, stop_flag, main, at_stop>>

\* How often a slot has been written.
Rounds(q, slot) == (landed[q] + Slots - 1 - slot) \div Slots

-----------------------------------------------------------------------------
(* validate_one_marker, for the marker the thread has come to.             *)

Own(v) == validators[v].own_markers[validators[v].at]
Now(v) == mem[QpOf(Own(v))][FirstSlot(Own(v)) + validators[v].k]
Expected(v) == validation_cycle_to_pattern(validators[v].val - 1)
\* chunk_bytes - tail_bytes is unsigned: a chunk shorter than the tail has none.
InTail(v) == cfg.ops >= TailSlots /\ validators[v].k >= cfg.ops - TailSlots

Goto(v, pc) == validators' = [validators EXCEPT ![v].pc = pc]
NextSlot(v) == validators' = [validators EXCEPT ![v].k = @ + 1]

\* Threads that poll small chunks depth first look at the same marker again.
repoll == cfg.mode = "WRITE" /\ cfg.small
Done(v, errors) ==
  LET me == validators[v]
      again == repoll /\ ~ me.draining
  IN /\ validators' = [validators EXCEPT ![v] =
                         [me EXCEPT !.pc = IF again THEN "again" ELSE "look",
                                    !.at = IF again THEN me.at ELSE me.at + 1,
                                    !.val = 0, !.k = 0]]
     /\ last_seen' = [last_seen EXCEPT ![Own(v)] = me.val]
     /\ stats' = [stats EXCEPT !.validated = @ + 1, !.errors = @ + errors]

\* VALIDATE_CHUNK_FN: the first slot that is not the pattern of the round.
Agrees(v) ==
  /\ Now(v) = Expected(v)
  /\ IF validators[v].k + 1 < cfg.ops THEN NextSlot(v) /\ UNCHANGED <<last_seen, stats>>
                                     ELSE Done(v, 0)
Scan(v) ==
  /\ validators[v].pc = "scan"
  /\ \/ /\ Now(v) # Expected(v)
        /\ Goto(v, IF InTail(v) THEN "retry" ELSE "snap") /\ UNCHANGED <<last_seen, stats>>
     \/ Agrees(v)
  /\ UNCHANGED <<cfg, client, fabric, lapped, stop_flag, main, at_stop>>

\* The tail is read a second time, from the mismatch on.  The pause before it is
\* taken to be longer than data lags behind its marker.
Retry(v) ==
  /\ validators[v].pc = "retry"
  /\ flush[QpOf(Own(v))] = NoMessage
  /\ \/ Now(v) # Expected(v) /\ Goto(v, "snap") /\ UNCHANGED <<last_seen, stats>>
     \/ Agrees(v)
  /\ UNCHANGED <<cfg, client, fabric, lapped, stop_flag, main, at_stop>>

\* Another round's pattern is a race with the sender; anything else, corruption.
classify_validation_mismatch_AnyByte(expected, actual) ==
  IF actual # expected THEN "RACE" ELSE "REAL"
classify_validation_mismatch(expected, actual) ==
  IF actual # expected /\ actual \in 1..3 THEN "RACE" ELSE "REAL"
Snap(v) ==
  LET real == classify_validation_mismatch(Expected(v), Now(v)) = "REAL"
      passed == Rounds(QpOf(Own(v)), FirstSlot(Own(v)) + validators[v].k)
  IN /\ validators[v].pc = "snap"
     /\ Done(v, IF real THEN 1 ELSE 0)
     /\ lapped' = (lapped \/ (real /\ passed >= validators[v].val + 3))
     /\ UNCHANGED <<cfg, client, fabric, stop_flag, main, at_stop>>

-----------------------------------------------------------------------------
(* validator_thread_fn.                                                    *)

Begin(v) ==
  /\ validators[v].pc = "created"
  /\ Goto(v, "look")
  /\ UNCHANGED <<cfg, client, fabric, last_seen, stats, lapped, stop_flag, main, at_stop>>

Look(v) ==
  LET me == validators[v]
      val == Marker(Own(v))
      hit == val # last_seen[Own(v)] /\ val # 0
  IN /\ me.pc \in {"look", "again"}
     /\ me.at <= Len(validators[v].own_markers)
     /\ validators' = [validators EXCEPT ![v] =
                         IF hit THEN [me EXCEPT !.pc = "scan", !.val = val, !.found = TRUE]
                                ELSE [me EXCEPT !.pc = "look", !.at = me.at + 1]]
     /\ stats' = [stats EXCEPT !.skipped = IF hit THEN @ + (val - last_seen[Own(v)] - 1) ELSE @]
     /\ UNCHANGED <<cfg, client, fabric, last_seen, lapped, stop_flag, main, at_stop>>

\* stop_flag is read after SpinCheck scans in a row that found nothing.
EndOfScan_NoDrain(v) ==
  LET me == validators[v]
      check == ~ me.found /\ me.spin + 1 >= SpinCheck
      again == [me EXCEPT !.at = 1, !.found = FALSE,
                          !.spin = IF me.found \/ check THEN 0 ELSE me.spin + 1]
  IN /\ me.pc = "look" /\ me.at > Len(validators[v].own_markers)
     /\ validators' = [validators EXCEPT ![v] =
                         IF me.draining \/ (check /\ stop_flag) THEN [me EXCEPT !.pc = "ended"]
                         ELSE again]
     /\ UNCHANGED <<cfg, client, fabric, last_seen, stats, lapped, stop_flag, main, at_stop>>
EndOfScan_StopWhenBusy(v) ==
  LET me == validators[v]
      check == me.found /\ me.spin + 1 >= SpinCheck
      again == [me EXCEPT !.at = 1, !.found = FALSE,
                          !.spin = IF me.found \/ check THEN 0 ELSE me.spin]
  IN /\ me.pc = "look" /\ me.at > Len(validators[v].own_markers)
     /\ validators' = [validators EXCEPT ![v] =
                         IF me.draining THEN [me EXCEPT !.pc = "ended"]
                         ELSE [again EXCEPT !.draining = check /\ stop_flag]]
     /\ UNCHANGED <<cfg, client, fabric, last_seen, stats, lapped, stop_flag, main, at_stop>>
EndOfScan(v) ==
  LET me == validators[v]
      check == ~ me.found /\ me.spin + 1 >= SpinCheck
      again == [me EXCEPT !.at = 1, !.found = FALSE,
                          !.spin = IF me.found \/ check THEN 0 ELSE me.spin + 1]
  IN /\ me.pc = "look" /\ me.at > Len(validators[v].own_markers)
     /\ validators' = [validators EXCEPT ![v] =
                         IF me.draining THEN [me EXCEPT !.pc = "ended"]
                         ELSE [again EXCEPT !.draining = check /\ stop_flag]]
     /\ UNCHANGED <<cfg, client, fabric, last_seen, stats, lapped, stop_flag, main, at_stop>>

Validate(v) == Begin(v) \/ Look(v) \/ EndOfScan(v) \/ Scan(v) \/ Retry(v) \/ Snap(v)

-----------------------------------------------------------------------------
(* host_validation_start, _stop and _destroy, and what calls them.         *)

\* The server of a WRITE test starts its threads on its own; the client of a READ
\* test starts them before it sends.
Created == {v \in Validators : validators[v].pc # "none"}
host_validation_start ==
  /\ main = "starting"
  /\ \E v \in Validators :
       /\ Created = 0..(v - 1)
       /\ Goto(v, "created")
       /\ main' = IF v + 1 = get_num_validators(cfg) THEN "waiting" ELSE main
  /\ UNCHANGED <<cfg, client, fabric, last_seen, stats, lapped, stop_flag, at_stop>>
host_validation_start_fails ==
  /\ main = "starting"
  /\ main' = "failing"
  /\ stop_flag' = TRUE
  /\ UNCHANGED <<cfg, client, fabric, threads, at_stop>>
AllRunning ==
  /\ main = "waiting"
  /\ \A v \in Validators : validators[v].pc # "created"
  /\ main' = "run"
  /\ UNCHANGED <<cfg, client, fabric, threads, stop_flag, at_stop>>

\* The sender's handshake after its last completion comes before the stop.
Stop ==
  /\ main = "run" /\ Sent
  /\ main' = "joining"
  /\ stop_flag' = TRUE
  /\ at_stop' = [m \in Markers |-> Marker(m)]
  /\ UNCHANGED <<cfg, client, fabric, threads>>
\* A handshake that fails takes the program to host_validation_destroy instead.
Abandon ==
  /\ main = "run"
  /\ main' = "destroying"
  /\ stop_flag' = TRUE
  /\ UNCHANGED <<cfg, client, fabric, threads, at_stop>>
Joined ==
  /\ \A v \in Created : validators[v].pc = "ended"
  /\ \/ main = "failing" /\ main' = "failed"
     \/ main = "destroying" /\ main' = "destroyed"
     \/ /\ main = "joining"
        /\ main' = IF stats.errors = 0 /\ stats.validated > 0 THEN "passed" ELSE "not passed"
  /\ UNCHANGED <<cfg, client, fabric, threads, stop_flag, at_stop>>

Over == main \in {"passed", "not passed", "failed", "destroyed"}
Ended == Over /\ UNCHANGED vars

-----------------------------------------------------------------------------
Init ==
  /\ cfg \in Configs
  /\ ctx = [q \in Qps |-> [scnt |-> 0, ccnt |-> 0, recv_off |-> 0, send_off |-> 0]]
  /\ wire = [q \in Qps |-> <<>>]
  /\ cqe = [q \in Qps |-> 0]
  /\ landed = [q \in Qps |-> 0]
  /\ mem = [q \in Qps |-> [s \in 0..(Slots - 1) |-> 0]]
  /\ flush = [q \in Qps |-> NoMessage]
  /\ tail_markers = [m \in Markers |-> IF cfg.mode = "READ" THEN 1 ELSE 0]
  /\ returns = [m \in Markers |-> 0]
  /\ LET Threads == 0..(get_num_validators(cfg) - 1)
     IN \E own \in [Threads -> UNION {distribute_markers(v) : v \in Threads}] :
          /\ \A v \in Threads : own[v] \in distribute_markers(v)
          /\ validators = [v \in Threads |->
                             [pc |-> "none", own_markers |-> own[v], at |-> 1, k |-> 0, val |-> 0,
                              spin |-> 0, found |-> FALSE, draining |-> FALSE]]
  /\ last_seen = [m \in Markers |-> 0]
  /\ stats = [validated |-> 0, skipped |-> 0, errors |-> 0]
  /\ stop_flag = FALSE
  /\ main = "starting"
  /\ faults = 0
  /\ lapped = FALSE
  /\ at_stop = [m \in Markers |-> 0]

Fabric(q) == Land(q) \/ Damage(q) \/ Flushed(q) \/ FetchAndAdd(q)
Main == host_validation_start \/ host_validation_start_fails \/ AllRunning \/ Stop \/ Abandon \/ Joined
Next ==
  \/ \E q \in Qps : Post(q) \/ Poll(q) \/ Fabric(q)
  \/ \E v \in Validators : Validate(v)
  \/ Main
  \/ Ended

\* The configurations have at most two validators.  The sender and the fabric make
\* progress while the connection lives, and every thread is scheduled.
Fairness ==
  /\ WF_vars(\E q \in Qps : Post(q) \/ Poll(q) \/ Land(q) \/ Flushed(q) \/ FetchAndAdd(q))
  /\ \A v \in 0..1 : WF_vars(v \in Validators /\ Validate(v))
  /\ WF_vars(Main)
Spec == Init /\ [][Next]_vars /\ Fairness

-----------------------------------------------------------------------------
(* Properties.                                                             *)

\* The epoch guard and the second look at the tail tell the sender's next rounds
\* and late data from corruption: an error is reported only when a message was
\* damaged.  Two cases are outside its reach.  A slot that three more rounds have
\* passed holds the expected pattern again when it is looked at a second time.
\* A chunk shorter than the tail is never looked at a second time.
NoFalseAlarm == stats.errors > 0 => faults > 0 \/ lapped \/ cfg.ops < TailSlots

\* Every round that had arrived when the validators were told to stop has been
\* validated, or counted as skipped because a later one replaced it, although
\* threads read the flag only now and then and not together with the markers.
AddsUpTo(f, total) ==
  \E sum \in [0..TotalMarkers -> 0..total] :
    /\ sum[0] = 0 /\ sum[TotalMarkers] = total
    /\ \A m \in Markers : sum[m + 1] = sum[m] + f[m]
NothingMissed ==
  main \in {"passed", "not passed"} =>
    /\ \A m \in Markers : last_seen[m] >= at_stop[m]
    /\ AddsUpTo(last_seen, stats.validated + stats.skipped)

\* What the fabric left in a chunk for good is reported: if the last round of a
\* chunk was seen, no later message reached the chunk, and the first wrong slot
\* holds no pattern of another round, then the verdict is not "passed".  A chunk
\* shorter than the tail can be passed before its data is there, and so can one
\* that still shows the pattern of three rounds before, because the messages of
\* two rounds were lost, when its last message comes late and damaged.
ShowsInChunk(m) ==
  LET value(k) == mem[QpOf(m)][FirstSlot(m) + k]
      expected == validation_cycle_to_pattern(last_seen[m] - 1)
  IN \E k \in 0..(cfg.ops - 1) :
       /\ value(k) \notin 1..3
       /\ \A j \in 0..(k - 1) : value(j) = expected
CorruptionReported ==
  main = "passed" /\ cfg.ops >= TailSlots /\ faults < 3 =>
    \A m \in Markers :
      (\A k \in 0..(cfg.ops - 1) : Rounds(QpOf(m), FirstSlot(m) + k) = last_seen[m] /\ last_seen[m] > 0)
        => ~ ShowsInChunk(m)

\* What makes the invariants inductive.
Op == [op : {"data"}, nr : Nat, slot : Nat, value : 1..3, signaled : BOOLEAN]
      \cup [op : {"add"}, nr : Nat, marker : Nat]
Scanning(v) == validators[v].pc \in {"scan", "retry", "snap"}
TypeOK ==
  /\ cfg \in Configs
  /\ ctx \in [Qps -> [scnt : Nat, ccnt : Nat, recv_off : Nat, send_off : Nat]]
  /\ wire \in [Qps -> Seq(Op)]
  /\ cqe \in [Qps -> Int] /\ landed \in [Qps -> Nat]
  /\ mem \in [Qps -> [0..(Slots - 1) -> 0..Garbage]]
  /\ flush \in [Qps -> [slot : Int, value : 0..Garbage]]
  /\ tail_markers \in [Markers -> Nat] /\ returns \in [Markers -> Nat]
  /\ validators \in [0..(get_num_validators(cfg) - 1) ->
       [pc : {"none", "created", "look", "again", "scan", "retry", "snap", "ended"},
        own_markers : Seq(Markers), at : Nat \ {0}, k : Nat, val : Nat, spin : Nat,
        found : BOOLEAN, draining : BOOLEAN]]
  /\ last_seen \in [Markers -> Nat] /\ at_stop \in [Markers -> Nat]
  /\ stats \in [validated : Nat, skipped : Nat, errors : Nat]
  /\ stop_flag \in BOOLEAN /\ lapped \in BOOLEAN /\ faults \in Nat
  /\ main \in {"starting", "waiting", "run", "failing", "destroying", "joining",
               "passed", "not passed", "failed", "destroyed"}

\* Every marker has one place in one list.
OneOwner ==
  /\ \A m \in Markers : \E v \in Validators : \E i \in 1..Len(validators[v].own_markers) :
       validators[v].own_markers[i] = m
  /\ \A v, w \in Validators :
       \A i \in 1..Len(validators[v].own_markers), j \in 1..Len(validators[w].own_markers) :
         validators[v].own_markers[i] = validators[w].own_markers[j] => v = w /\ i = j

\* The operations on the wire are those after the last that was executed, each
\* message with the slot and the pattern of its number.
Closes(n) == ChainAtomic(n % Slots)
Formed(q, w) ==
  IF w.op = "data" THEN w.slot = w.nr % Slots /\ w.value = validation_cycle_to_pattern(w.nr \div Slots)
                   ELSE Closes(w.nr) /\ w.marker = MarkerOf(q, (w.nr % Slots) \div cfg.ops)
Follows(w, x) ==
  IF w.op = "data" /\ Closes(w.nr) THEN x.op = "add" /\ x.nr = w.nr
                                  ELSE x.op = "data" /\ x.nr = w.nr + 1
AddDue(q) == wire[q] # <<>> /\ Head(wire[q]).op = "add"
InSequence(q) ==
  LET ops == wire[q]
      last == ops[Len(ops)]
  IN /\ ctx[q].recv_off = ctx[q].scnt % Slots
     /\ ctx[q].send_off = (ctx[q].scnt \div Slots) % 3
     /\ \A i \in 1..Len(ops) : Formed(q, ops[i])
     /\ \A i \in 1..(Len(ops) - 1) : Follows(ops[i], ops[i + 1])
     /\ IF ops = <<>> THEN landed[q] = ctx[q].scnt
        ELSE /\ ops[1].nr = IF ops[1].op = "add" THEN landed[q] - 1 ELSE landed[q]
             /\ last.nr = ctx[q].scnt - 1
             /\ last.op = "data" => ~ Closes(last.nr)

\* A marker counts the rounds of its chunk that have arrived.
LastSlot(m) == FirstSlot(m) + cfg.ops - 1
Added(m) ==
  Rounds(QpOf(m), LastSlot(m)) - (IF AddDue(QpOf(m)) /\ Head(wire[QpOf(m)]).marker = m THEN 1 ELSE 0)
MarkersCount ==
  \A m \in Markers :
    /\ tail_markers[m] = Added(m) + (IF cfg.mode = "READ" THEN 1 ELSE 0)
    /\ cfg.mode = "READ" => returns[m] = Added(m)

\* As long as no message was damaged, a slot holds the pattern of the last
\* round that reached memory.
Reached(q, slot) == Rounds(q, slot) - (IF flush[q].slot = slot THEN 1 ELSE 0)
Pattern(n) == IF n = 0 THEN 0 ELSE validation_cycle_to_pattern(n - 1)
InMemory(q) ==
  /\ flush[q] # NoMessage =>
       /\ flush[q].slot \in 0..(Slots - 1) /\ ChainAtomic(flush[q].slot)
       /\ Rounds(q, flush[q].slot) > 0
  /\ faults = 0 =>
       /\ \A slot \in 0..(Slots - 1) : mem[q][slot] = Pattern(Reached(q, slot))
       /\ flush[q] # NoMessage => flush[q].value = Pattern(Rounds(q, flush[q].slot))

\* A thread handles a round that has arrived, newer than the one before.  The
\* slot it takes for damaged has been overwritten by a later round.
Looking(v) ==
  /\ ~ Scanning(v) => validators[v].k = 0
  /\ Scanning(v) =>
       /\ validators[v].at <= Len(validators[v].own_markers)
       /\ validators[v].val \in (last_seen[Own(v)] + 1)..Marker(Own(v))
       /\ validators[v].k < cfg.ops
  /\ validators[v].pc = "again" => validators[v].at <= Len(validators[v].own_markers)
  /\ validators[v].pc = "snap" /\ faults = 0 /\ cfg.ops >= TailSlots =>
       Reached(QpOf(Own(v)), FirstSlot(Own(v)) + validators[v].k) > validators[v].val

\* A thread that has seen the flag goes through its list once more.
Draining(v) ==
  /\ validators[v].draining => stop_flag /\ validators[v].pc # "again"
  /\ validators[v].pc = "ended" =>
       validators[v].draining /\ validators[v].at > Len(validators[v].own_markers)
  /\ validators[v].draining =>
       /\ \A i \in 1..Len(validators[v].own_markers) :
            i < validators[v].at =>
              last_seen[validators[v].own_markers[i]] >= at_stop[validators[v].own_markers[i]]
       /\ Scanning(v) => validators[v].val >= at_stop[Own(v)]

\* The rounds of a marker that are counted, as validated or skipped.
Handled(m) == \E v \in Validators : Scanning(v) /\ Own(v) = m
Reader(m) == CHOOSE v \in Validators : Scanning(v) /\ Own(v) = m
Seen == [m \in Markers |-> IF Handled(m) THEN validators[Reader(m)].val - 1 ELSE last_seen[m]]

Started ==
  /\ stop_flag = (main \notin {"starting", "waiting", "run"})
  /\ main = "starting" => \E n \in Validators : Created = 0..(n - 1)
  /\ main \in {"waiting", "run", "joining", "destroying", "passed", "not passed"} => Created = Validators
  /\ main \in {"passed", "not passed"} => \A v \in Validators : validators[v].pc = "ended"

ValidationInv ==
  /\ TypeOK /\ OneOwner /\ MarkersCount /\ Started /\ NoFalseAlarm
  /\ \A q \in Qps : InSequence(q) /\ InMemory(q)
  /\ \A v \in Validators : Looking(v) /\ Draining(v)
  /\ \A m \in Markers : last_seen[m] <= Marker(m) /\ at_stop[m] <= Marker(m)
  /\ AddsUpTo(Seen, stats.validated + stats.skipped)

\* host_validation_stop, _destroy and a failed start return: every thread created
\* sees the flag although it looks only when it is idle.
StopReturns == stop_flag ~> Over
=============================================================================
