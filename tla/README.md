# perftest in TLA+

A verification project for linux-rdma/perftest: the RDMA bandwidth and latency
tests `ib_send_bw`, `ib_write_lat` and their relatives. A client and a server
process read their command lines, meet over a socket or RDMA CM, compare their
settings, set up queue pairs, run a timed loop against their adapters, and
report. The modules here model the programs from the command line to the last
`free`, and the loops, signal handlers and threads in between; TLC checks them
on small instances and TLAPS proves the central facts for every instance.

Paths below are relative to `src/src/` of the repository; "resources.c" is
`perftest_resources.c`, "parameters.c" is `perftest_parameters.c`,
"communication.c" is `perftest_communication.c`.

## 1. The system

| Part | Source | Module | What is hard about it |
|---|---|---|---|
| Command line, rules, negotiation | parameters.c `parser`, `force_dependecies`; `perftest_negotiation.c` | `Settings`, `BwParams` | some seventy rules that read and change what others wrote; two machines that settle the same line differently |
| Test programs | `main` of the twelve programs | `Mains`, `BwTests`, `LatTests`, `RawEthTests`, run by `Programs` | both sides must make the same exchanges; error ladders that free exactly what was set up |
| Resources, memory back ends | resources.c `alloc_ctx` ... `destroy_ctx`; `*_memory.c` | `Context`, `Memory` | partial setup, order of release |
| Out-of-band communication | communication.c | `Comm` | blocking on both sides |
| RDMA CM connections | communication.c, resources.c | `RdmaCm` | events of many connections in any order, retries that keep what is up |
| Unidirectional bandwidth loops | resources.c `run_iter_bw`, `run_iter_bw_server` | `BwStream` | moderated completions against counted ones; credit writes in flight while their source changes; 32-bit wrap; broken connections |
| Bidirectional loop | resources.c `run_iter_bi` | `BwBidir` | credits and messages share a send queue and a CQ |
| Receive watchdog | resources.c `check_alive` | `Watchdog` | handler between any two steps, stale counts across sizes |
| Duration mode | resources.c `catch_alarm` | `BwDuration` (also in the latency modules) | handler between any two steps; self call without margin |
| Latency loops | resources.c `run_iter_lat_write`, `run_iter_lat_send` | `LatWrite`, `LatSend`, abstractly `PingPong` | a byte counter, stale memory, END while waiting |
| Data validation | `host_validation.c`, resources.c `run_iter_bw_dv` | `Validation` | readers that race with the next rounds of the writer |

How they interact: `main` settles the parameters (`Settings`), builds and
connects its resources (`Programs`, `RdmaCm`), then for each size resets the
work requests, shakes hands and runs a loop (the loop modules). In `Programs` a
loop is one step that a failure may end; the loop modules start where the
handshake has put both sides. The settings the loop modules start from are those
`Settings` shows to come out of the rules (`LoopsGetTheirSettings`).

`PROJECT.json` lists every part under "components" and the main hazards, at
their lines, under "hazards".

## 2. Modules

| Module | Models | Abstracts from |
|---|---|---|
| `BwParams` | the rules of `force_dependecies` on depths, `cq_mod`, lists and `fill_count`, in the order of the code | all other options |
| `BwStream` | one run of `run_iter_bw` against `run_iter_bw_server` in iterations mode, with credits, lists, moderation, several QPs, `clean_scq_credit`, and a connection that may break | message contents, addresses, time stamps, rate limiter, events |
| `MCBwStream`, `MCBwBidir` | command lines for TLC, settled by `BwParams` | |
| `BwBidir` | one run of `run_iter_bi` on both machines in iterations mode | the same as `BwStream` |
| `Watchdog` | `check_alive`, the receiving loop that arms, feeds and obeys it, and `main`'s loop over the sizes | QPs, receives |
| `BwDuration`, `MCBwDuration` | duration mode: `catch_alarm` in both processes and the loops it interrupts, with the rules on duration and margin | QPs, lists, credits |
| `PingPong` | what a latency test promises: two sides that send in turn | everything but the counts |
| `LatWrite` | `run_iter_lat_write` on both sides and the loop over the sizes of `write_lat.c` | all of the memory but the polled bytes |
| `LatSend`, `MCLatSend` | `run_iter_lat_send` on both sides and the loop over the sizes of `send_lat.c` | message contents, SRQ, flows, events |
| `Steps` | the notation for `main` and what it calls: a sequence of steps with labels and jumps | |
| `Memory`, `Context`, `Comm`, `Mains` | back ends; contexts; exchanges; what the programs share | arguments and results other than success |
| `BwTests`, `LatTests`, `RawEthTests` | the twelve `main` functions | the loops, printing |
| `Programs`, `MCPrograms` | the machine that executes a server and a client; 53 command lines | |
| `RdmaCm` | `create_rdma_cm_connection` of client and server, retries, disconnection | addresses, private data |
| `Settings`, `MCSettings` | `parser`, `force_dependecies`, version and MTU check, `negotiate_params` | names, addresses, keys, values that no rule reads |
| `Validation`, `MCValidation` | `run_iter_bw_dv` and the validator threads | bytes of a message, vector instructions |
| `BwStreamProofs`, `BwDurationProofs`, `WatchdogProofs`, `LatWriteProofs`, `LatSendProofs`, `ValidationProofs` | theorems about the module of the name (`BwStreamProofs`: also about `BwParams`) | |
| `ValidationLemmas` | the lemmas `ValidationProofs` rests on: the ring, the initial state, the steps of sender and fabric, facts about threads | |
| `ModFacts` | lemmas on remainders and multiples that the proofs share | |

### BwStream

Client and server are processes with a program counter (`cpc`, `spc`); a step
is one pass through the part of the loop between two points at which something
outside can be observed: one post, one polled completion, one reap in a wait.
`index`, `scnt`, `ccnt`, `totscnt`, `totccnt`, `rcnt_for_qp`,
`unused_recv_for_qp`, `posted_per_qp`, `scredit_for_qp`, `tot_scredit`,
`ctrl_buf`, `credit_buf` and `send_cnt` are the variables of the code of the
same name; `wr_signaled` is the signaled flag in `wr[index].send_flags`. The
adapters are external. They deliver the sends of a QP in order, take one
receive each, acknowledge in order, put a completion in the send CQ for a
signaled send, and carry credit writes in two steps: the source buffer is read
when the write starts (`CreditFetch`), not when it was posted, and the value
lands later (`CreditPlace`). `retired` is history: what the polled completions
really stand for. `up` holds the parameters of the run, chosen in `Init`, so
one TLC run covers many command lines.

### BwBidir

Like `BwStream`, with both roles in each process: `loop[s]` holds the locals of
`run_iter_bi` on machine `s` (`before_first_rx`, the totals, `tot_scredit`) and
`qps[s][q]` the counters of a queue pair. A posted request is an entry of `sq`,
a message or a credit write; the adapter executes the entries of a queue pair in
order, so that a credit waits behind a message that waits for a receive.
The `entries` of a queue pair and `free` are history: entries of the send queue
taken, and given back by polled completions. After a break the CQs hold error completions for
what is unfinished, behind those of what is finished. A post that fails
(`ibv_post_send` and `ibv_post_recv` returning an error) is not modelled; it
takes the same exit as an error completion.

### Watchdog

One alarm period is one step of `check_alive`, which may come between any two
steps of the server, also between two sizes (nothing cancels the alarm).
`current_totrcnt` survives from one size to the next as in the code, while
`last_totrcnt` is reset. `heard` is history.

### BwDuration

`Signal(s)` delivers a pending alarm to one process; `catch_alarm` follows the
switch of the code, with the self call of `SAMPLE_STATE` for margin 0.
`wire` is history: what the adapter finished between the two time stamps.

### LatWrite, LatSend and PingPong

`LatWrite` keeps of the memory the last byte of every size, the only bytes
anyone looks at. The adapter reads the source of a WRITE when it starts it,
places it later and completes it after that. The sizes follow each other
without a handshake, so one side may be a size ahead. `LatSend` keeps the
receives posted, the signaled flag with `poll`, and the handshake before each
size; a receive completion is handled in two steps (`Recv`, `Count`), because
`catch_alarm` may change the state between the test for END and the test for
SAMPLE. Both map to `PingPong` by the number of messages sent and noticed over
all sizes: `LatWrite` implements its `Spec` in a sweep, `LatSend` in a sweep and
for a time. The liveness of both is `Termination`; that of `LatWrite` also says
that a sweep ends with every message of every size sent and noticed. A side that is past `scnt++` and has not posted yet
(`LatSend`), or past `rcnt++` and still polling (`LatWrite`), does not count as
having sent or noticed that message.

`Answered` in `LatSend` is an assumption about time: the timer of the server,
which its first message starts and which runs for seconds, does not expire
before the server has answered that message. Without it the client would never
start its own timer and would poll forever.

### Steps, Memory, Context, Comm, Mains, the tests and Programs

A `main` is written down as the source is: a flat sequence of steps in source
order, with the C labels as markers. A step acquires resources, releases them,
tests a flag, writes to or reads from the connection, or runs the measurement;
it names the label it jumps to when it fails, or that nobody looks. `Memory`
gives the sequences of the back ends, `Context` those of `alloc_ctx`, `ctx_init`,
`destroy_ctx`, `Comm` the exchanges, `Mains` what the programs share, and
`BwTests`, `LatTests` and `RawEthTests` put the twelve programs together. A
function that is called from many places is called by name (`Do`) and put in by
`Linked`; `text` is the resulting program of each side.
`Programs` executes one on each side: `held` is what a process owns, `stale` what
it has freed and may still point to, `chan` what is on its way to it, `bad` what
went wrong. Any call that the source checks may fail, once per run. Steps that
only touch their own process commute with those of the other side and are taken
first.

Slips of the source that the properties would report are named next to the
properties (`DanglingSlips`, `OutrightSlips`, `OrderSlips`, the exceptions of
`NothingLeftBehind`), so that everything else has to hold.

### RdmaCm

A client id and the server id made for its request are one connection and share
a number. The library is external: what it still has to report is a set (`due`)
from which events reach the channel in any order (those of one established
connection excepted), resolving an address or a route may fail, and a client
that gives up an attempt leaves behind what the server has seen of it: destroying
an id drops the client's own events, while the server is still told of the end of
a connection that it had accepted.

### Settings

A line is a sequence of options; `Option` is `parser`'s switch, `force_dependecies`
the chain of rules in source order, each a function from settings to settings
that may refuse. The server parses first, then the client; then versions and the
MTU are compared, and `negotiate_params` compares settings as the older of the
two versions would.

### Validation

The sender writes one of three patterns into the slots of a ring and, after the
last slot of a chunk, adds one to the chunk's marker. The fabric executes the
operations of a queue pair in order, but data may become visible after the
marker that follows it (`Flushed`), and a message may be damaged or lost. A
validator reads a chunk in one step per slot; between two steps the next round
may overwrite the chunk. `lapped` is history: an error was found in a slot that
three more rounds had passed; so is `nr`, the number an operation carries from
the post to its execution. The list of a thread, which the code sorts, is the one
ascending sequence of the markers dealt to it. `AddsUpTo` states a sum over the
markers as a sequence of partial sums, so that it can be proved about.
A slot arrives as a whole and has at least five bytes.
The pause before the second look at a tail is taken to be longer than data lags
behind its marker, which is what the code has it for.

## 3. Runs

| Run | Question | Result |
|---|---|---|
| `stream` | Do counts, flags, fill, queues and credits agree for every small combination of run length, depth, moderation and lists, across the counter wrap; is nothing left over; does every run end, also when the connection breaks? | holds (after a break for the client without credits) |
| `list_credits` | Does a message find its receive also with receives in lists? | violated, see findings |
| `bidir` | Do messages and credits fit the queue they share; does a loop that returns leave nothing over; do both return? | holds, with the exceptions below |
| `watchdog_all` | Does the watchdog give up only a run that is silent; is silence always noticed in the first size? | holds |
| `watchdog_sweep` | Is silence noticed in every size of a sweep? | violated |
| `duration` | Do the reported iterations measure the sample; do the timers end both sides and stop? | holds |
| `lat_write` | Can a stale or wrapped byte pass for a message; does a sweep implement `PingPong`; do both sides return wherever END finds them? | holds |
| `lat_send` | Does every message find a receive, do the sides send in turn, and do both return, in a sweep and for a time? | holds |
| `programs` | Whichever call fails on either side: is nothing used after it is freed, is everything released, and in order; do the exchanges meet; do both programs end? | holds outside the named slips |
| `cm` | Do counters, nodes and ids stay right over events in any order and a retry; are the connections the same on both sides? | holds outside two named slips |
| `settings` | Are the settled parameters stable under the rules; do the loops get what they are modelled with; do machines that agree expect the same traffic? | holds outside the named options |
| `validation` | Is there no false alarm, is every round accounted for, is lasting damage reported, do the threads end? | holds outside the named cases |

Bounds.

* `stream`: 5 to 7 messages, depths 1 to 4, moderation 1 to 4, so that a run
  ends on, before and after a completion boundary and queues are shorter and
  longer than the moderation; lists of 2 and 3 sends; windows of 4 and 6, server
  queues of one and two entries (so the wait for room happens), and 10 messages
  with counters modulo 8, so that `credit_buf` and `swindow` wrap.
* `bidir`: up to four messages a side; a window of three that closes, over a
  send queue of one entry, so that every credit waits for room; lists; two
  queue pairs with one completion for two messages. Breaks at any point.
* `watchdog_all`: three sizes of three messages: a count may be left over from
  the first, seen in the second and dropped in the third.
* `duration`: four sends through queues of one and two, margins of 0 (the
  default for durations below 4) and 1, and a margin of half the duration, which
  is refused.
* `lat_write`: three sizes of three messages with numbers cut modulo 2, the
  smallest modulus and the hardest: every second number repeats. `lat_send`:
  three sizes of four messages, receive depths 1 to 4, moderation 1 to 3. In
  duration mode a side sends at most four messages.
* `programs`: every program over the transports, connection managers, memory
  types and options that change the path through `main`; two rounds of a sweep,
  two queue pairs where the code treats the second differently; one failure.
  The `VIEW` of `MCPrograms` leaves out `text`, which follows from `up`.
* `cm`: two queue pairs and two attempts, so that one connection may be up and
  kept while the other is tried again.
* `settings`: every pair of options, with values on both sides of the limits the
  rules compare them with; an option on one machine only; older versions and a
  smaller MTU; and every combination of the six numbers the SEND loops read.
* `validation`: one queue pair, rings of one to three chunks, up to four and a
  half rounds, so that the pattern comes round again and a validator can be
  lapped; one or two threads; one damaged message.

`Runnable` in `MCBwStream` leaves out command lines that `force_dependecies`
accepts and the loops do not survive: lists larger than their queue, and credit
windows smaller than 3 or smaller than a list plus the credit interval. They
are in the hazard list.

Deadlock is not checked in the runs whose processes stop (`cm`, `programs`,
`settings`); what may never stop there is stated as liveness.

Fairness. The processes and threads of the code spin or block in calls that
return, so weak fairness of each says that it is scheduled. Weak fairness of the
adapters says that a posted request is worked on while the connection is up. The
client's error completion after a break has strong fairness in `BwStream`: the
client alternates between posting and polling, and an adapter that has lost its
connection flushes what is posted, so polls do not come back empty forever. A
pending alarm goes off (weak fairness of the handler). The RDMA CM library
reports what is due. Nothing makes a connection break, a peer fall silent or a
call fail.

## 4. Proofs

`BwStreamProofs`, for every number of QPs, every set of settled command lines
and every width of the credit counters that holds a window:

* `TypeCorrect`: `Spec => []TypeOK`, one step per action, in the four groups of
  `TypeOK`.
* `CreditSafety`: if receives are posted one by one wherever credits are used,
  `Spec => []ArrivalHasBuffer`. `ArrivalHasBuffer` alone is not inductive: it
  says nothing about the credits on their way. `CreditInv` adds that messages
  are received, delivered and posted in order (`InOrder`), that credit values
  rise from `credit_buf` over the writes in flight to `ctrl_buf` and the
  server's count (`CreditsRise`), that the client is less than `rx_depth` ahead
  of the credit it has (`WindowKept`), and that the server has `rx_depth`
  receives ahead of its count until all are posted (`ReceivesAhead`). The
  modular part is the lemma that a difference smaller than the modulus is
  recovered from its residues (`ModShift`, `ModDiff`).

In the same module, for the same constants, and also across a connection that
breaks: `CountsAgree` (`CountsWhatCompleted`), `NoQueueOverflows` (`QueuesFit`),
`ClockRight` (`ClockStopsAfterLast`) and `CleanEnd` (`NothingOutlivesRun`), all
from one inductive invariant, `StreamInv`. None of the four is inductive: each
speaks of counters, and what a counter becomes depends on which completions
are on their way. `StreamInv` says

* where the completions are. Call a number of sends a boundary when `cq_mod`
  divides it or it is the length of the run. `ccnt` is at a boundary
  (`Counted`); the adapter holds a flag for exactly the boundaries posted and
  not acknowledged, and the flag in `wr[index]` is right for the next post
  (`Marked`); the send CQ holds, in order, exactly the boundaries acknowledged
  and not counted (`Queued`). So the next completion is for the next boundary,
  which is `cq_mod` ahead or, with `fill_count`, the end of the run;
* that receives posted and receives waiting to be posted again add up
  (`Supplied`), and that the credit writes under way are those
  `scredit_for_qp` counts, until `clean_scq_credit` stops counting them
  (`Written`);
* that the totals over the QPs are the sums of the counters of each
  (`Totals`). The loops end on the totals and the properties are about each
  QP. A sum is stated as a sequence of partial sums (`SumsTo`), so that no
  recursive definition has to be reasoned about; lemmas say how it changes
  when one QP's counter does, and that a sum of zero has only zeros;
* what holds at the exits of the loops (`Ends`).

`SettledFits` closes the gap to the command line: what `force_dependecies`
makes of any request it does not reject satisfies `Moderated`, `DepthFits` and
`ListsDivide`, which is what `ConfigsAssumption` assumes of a configuration
apart from the window that fits in the credit counter.

`BwDurationProofs`, for every duration, margin, depth and moderation that the
rules accept, and any bound on the sends: `SampleIsRight`
(`SampleMeasuresWire`) and `AlarmsEnd` (`NoStrayAlarm`), from `DurationInv`.
`iters` and what the adapter finishes advance at different times, so the
property, which speaks of the end of the sample, needs a bound on the difference
at every point: at most a queue is finished and not polled (`Groups`,
`InOrder`), when the sample begins, while it lasts and when it ends
(`Sampling`). A handler that runs between the read of `state` and the increment
of `iters` is one of the steps.

`WatchdogProofs`, for every number of sizes and messages:

* `NeverGivesUpALiveRun`: `Spec => GivesUpOnlyAfterSilence`, from
  `WatchdogInv`: in a run the count the handler sees is that of the run or a
  complete one left by the size before, and a count of this run the handler has
  kept is behind as soon as a message is counted.

`LatWriteProofs`, for every number of sizes and iterations and every modulus of
the number in the polled byte from 2 on: `NoticesForReal` (`NoticedForReal`),
and `PlaysPingPong` (`ImplementsPingPong`, the initial states and one step per
action of the refinement), from `LatWriteInv`. A side decides by a residue
that the next message is there. That this is right needs the content of both
buffers for every size, in the source, in flight and in the peer's memory
(`Carried`), that a side has at most one WRITE it has not polled
(`OneAtATime`), and how far apart the two sides can be (`InTurn`): less than the
modulus, so equal residues are equal numbers. The same invariant gives
`MeasuresRoundTrips` (`Spec => []PP!RoundTrip`, in iterations mode): a side sends
only when its peer has noticed all its earlier messages. The guard of a send
looks at what the side itself has received; `OwnLead` is the chain of
inequalities between the two sides.

`LatSendProofs`, for every number of sizes and iterations and every settled
depth and moderation: `ArrivalsHaveReceives` (`ArrivalHasReceive`) and
`PlaysPingPong` (`ImplementsPingPong`), from `LatSendInv`: whose turn it is at
every point of the loop (`InTurn`); that both sides are in the same size or
one has not begun the next (`SameSize`); and that the receives posted, those in the
CQ and those spent on messages END made a side drop cover what its peer may
still send (`Kept`). `MeasuresRoundTrips` is proved here as well, and holds in
duration mode too.

`ValidationProofs`, for every number of queue pairs, chunks, slots of a chunk,
messages, damaged messages and cores, in READ and WRITE tests: `NoFalseAlarms`
(`NoFalseAlarm`) and `AllAccountedFor` (`NothingMissed`), from `ValidationInv`
(`InvHolds`). The lemmas on the ring, the initial state and the sender's steps
are in `ValidationLemmas`. Neither property is inductive. An error is counted when a slot does
not hold the pattern of a round whose marker was read many steps before, so
whether it is a false alarm depends on everything the sender and the fabric did
since; and what was missed shows only after the last thread is joined.
`ValidationInv` has two halves.

* The ring. The operations on the wire are the consecutive ones after the last
  that was executed, each message with the slot and the pattern of its number
  (`InSequence`). So a marker counts the rounds of its chunk that have arrived
  (`MarkersCount`; in a READ test the counters start at 1 and what the atomics
  fetch is one behind them), and, as long as nothing is damaged, a slot holds
  the pattern of the last round that reached memory (`InMemory`). The arithmetic
  is in lemmas on quotients: a message counts for the slot of its number only
  (`RoundsNext`), and slots are written in order (`RoundsFall`), so that no slot of
  a chunk is behind the chunk's marker.
* The threads. Every marker has one place in one list (`OneOwner`; the lemmas
  `SharesFollow` and `SharesCover` say so of what `distribute_markers` deals for
  any number of threads). A thread handles a round that has arrived and is newer
  than the last it handled, and the slot it takes for damaged has been overwritten
  by a later round (`Looking`). That is the argument for `NoFalseAlarm`: a slot a
  later round has overwritten holds another of the three patterns, unless three
  more rounds have passed. A thread that has seen `stop_flag` has, up to where it
  is in its list, handled everything that had arrived at the stop (`Draining`).
  Validated and skipped rounds add up to what the threads have handled, counting
  for a marker that is being scanned the rounds skipped to get there
  (`AddsUpTo(Seen, ...)`): `stats.skipped` rises before the scan and
  `stats.validated` after it.

Assumptions: the named `ASSUME`s of the modules. `ConfigsAssumption`: what
`SettledFits` proves of the command line, and a window that fits in the credit
counter. `DurationAssumption` and `LatSendAssumption`: positive depths and a
moderation of at most `tx_depth`. `LatWriteAssumption`: at least one size and one
iteration, and a byte that holds more than one number. `ValidationAssumption`: a
ring of at least one queue pair, chunk and slot, and a tail of at least one slot
(2 in the code). TLC evaluates each on the
runs of its module. Each inductive invariant was model-checked on the instances of
section 3 before it was proved.

Only model-checked: everything under fairness (`Termination`, `BothEnd` and the
like), since TLAPS does not reason about it; `CorruptionReported` of
`Validation`, which is about damaged messages, of which `ValidationInv` says only
that they were counted; and the properties of `BwBidir`, `Programs`, `RdmaCm` and
`Settings`. For `BwBidir` and `RdmaCm` no inductive invariant has been worked
out: the first would be that of `BwStream` twice, with the send queue shared by
messages and credits, the second has to relate the events still to be reported to the
ids of both sides. What `Programs` and `Settings` check is about concrete sequences
of steps and rules: there is no parameter to generalise over but the command line. In `LatWrite` the refinement
is of the iterations mode, in the proof as in the run: END makes a side send out
of turn.

## 5. Findings

Each has a run that shows it.

1. With `--recv_post_list` above 1 a credit reports messages whose receives are
   not posted again yet (resources.c:5235 against 5192): the client may send a
   message that finds no receive, which is what the credits are there to
   prevent (`list_credits`).
2. In a sweep over the sizes, a server whose peer goes silent before the first
   message of a later size is never told: `check_alive` takes the old
   `current_totrcnt` for progress, then for neither progress nor a stall, and
   sets no alarm (`watchdog_sweep`).

The other disagreements met while modelling are the named exceptions of the
properties:

* `run_iter_bi` counts `cq_mod` messages for a completion it reaps while it waits
  for room, also for the shorter last one (resources.c:5938). With a moderation
  that does not divide the run, `ccnt` passes `iters`, a credit is posted into a
  full queue, and with several queue pairs the loop may end early (`Even`).
* `--dont_xchg_versions` ends every program (communication.c:2025).
* After a watchdog exit only the server leaves `send_bw`'s sweep
  (`send_bw.c:496`).
* Releases of what was never made: flows with raw multicast
  (`raw_ethernet_send_bw.c:360`), the one touching thread of two opencl buffers
  (`opencl_memory.c:213`), credit MRs after a failure nobody looks at
  (`send_bw.c:320`), the contexts of back ends whose init failed
  (`mlu_memory.c:115`). Things left behind: the device with RDMA CM, null MRs,
  the first of two device memories (`dm_memory.c:128`).
* RDMA CM: a queue pair of a destroyed id after a failing `rdma_connect`
  (communication.c:2592), and UD connections made out of order and retried
  (communication.c:2448).
* Rules that come too late for earlier ones (XRC, DC, multicast, infinite runs;
  parameters.c:1653), options the machines do not compare
  (`perftest_negotiation.c:364`), `-c RawEth` in the other programs
  (parameters.c:4429).
* Validation: no second look at the tail of a chunk shorter than the tail, since
  the unsigned difference wraps (`host_validation.c:622`); after three more rounds
  the second look finds the expected pattern again, and reports what it took for
  a race as corruption.

Read from the code and not the subject of a property: the watchdog's message
says "120 Seconds" (resources.c:6934) while one `alarm(60)` period without a
message is enough for it to give up, and its comment promises a report that the
failing loop makes `main` skip (6942 against 5281); per-port counts of a timed
bidirectional run are taken from the wrong array (6018).

## 6. Not modelled

* Infinite mode: it never ends, and its second thread only prints counters.
* CQ events (`ctx_notify_events`) and adaptive polling: the first depends on what
  an armed CQ of a provider reports, the second changes batch sizes, which the
  loop modules leave open.
* `run_iter_lat` (a side that waits for its own completions only),
  `run_iter_lat_write_imm` and the burst and forwarding loops.
* SRQ, flows and the rate limiter in the loops; duration mode of the
  bidirectional loop.
* Reports: the search for the peak and percentiles over floating point.
* CUDA validation kernels and the vector instructions of the host validator.
* Packet and message formats, address cycling, GID and source address selection,
  the subnet manager exchange of multicast, clock calibration, sysfs counters.
