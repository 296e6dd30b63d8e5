----------------------------- MODULE BwDuration -----------------------------
(***************************************************************************)
(* The SEND bandwidth test in duration mode (-D): run_iter_bw of the       *)
(* client, run_iter_bw_server of the server, and in each process the       *)
(* SIGALRM handler catch_alarm that moves user_param.state along           *)
(*                                                                         *)
(*     START --margin--> SAMPLE --duration-2*margin--> STOP_SAMPLE         *)
(*           --margin--> END                                               *)
(*                                                                         *)
(* The handler runs between any two steps of its process.  The client      *)
(* starts its timer on entry, the server with the first message.  Both     *)
(* count what they poll into user_param.iters while the state is SAMPLE,   *)
(* and leave their loop at END with work outstanding.                      *)
(*                                                                         *)
(* One queue pair, lists of one and no credits: BwStream has those.  The   *)
(* test would run on; MaxSends bounds what the client posts.               *)
(***************************************************************************)
EXTENDS Integers

CONSTANTS Requests,        \* command lines: [duration, margin, tx_depth, rx_depth, cq_mod]
          DEF_INIT_MARGIN, \* -1: no margin was asked for
          MaxSends         \* bound: sends the client posts

Side == {"client", "server"}
State == {"START", "SAMPLE", "STOP_SAMPLE", "END"}

OFF == 0
ON  == 1

ASSUME DurationAssumption ==
    /\ MaxSends \in Nat
    /\ DEF_INIT_MARGIN \in Int
    /\ Requests \subseteq [duration : Nat \ {0}, margin : Nat \cup {DEF_INIT_MARGIN},
                           tx_depth : Nat \ {0}, rx_depth : Nat \ {0}, cq_mod : Nat \ {0}]
    /\ \A r \in Requests : r.cq_mod <= r.tx_depth

-----------------------------------------------------------------------------
(* The rules of force_dependecies on the times.                            *)

DefaultMargin(r) ==
    IF r.margin = DEF_INIT_MARGIN THEN [r EXCEPT !.margin = r.duration \div 4] ELSE r

LongEnough_OrEqual(r) == r.duration >= 2 * r.margin

\* "please check that DURATION > 2*MARGIN", else exit(1).
LongEnough(r) == r.duration > 2 * r.margin

Settled == {p \in {DefaultMargin(r) : r \in Requests} : LongEnough(p)}

-----------------------------------------------------------------------------

VARIABLES
    up,            \* duration, margin and depths of user_param
    state,         \* per side: user_param.state
    alarm,         \* per side: whether an alarm is pending
    iters,         \* per side: user_param.iters
    stray,         \* sides whose handler found no state to leave
    cpc, scnt, ccnt, wr_signaled,          \* client
    spc, firstRx, batch, rcnt,             \* server; batch: polled, not counted
    room,          \* receives posted that no message has taken
    delivered,     \* messages placed in a receive buffer
    acked,         \* sends acknowledged to the client
    signals,       \* posted, unacknowledged sends that are signaled
    scq,           \* completions in the client's send CQ
    wire           \* per side: messages its adapter finished between the time
                   \* stamps; minus what it had finished at the first one
                   \* until the second is taken (history)

clientVars == <<cpc, scnt, ccnt, wr_signaled>>
serverVars == <<spc, firstRx, batch, rcnt, room>>
wireVars   == <<delivered, acked, signals, scq>>
timerVars  == <<state, alarm, stray, wire>>
vars == <<up, clientVars, serverVars, wireVars, timerVars, iters>>

\* What a side's adapter has finished: acknowledged sends, or messages placed.
Finished(s) == IF s = "client" THEN acked ELSE delivered

TypeOK ==
    /\ up \in Settled
    /\ state \in [Side -> State]
    /\ alarm \in [Side -> {OFF, ON}]
    /\ iters \in [Side -> Nat]
    /\ stray \subseteq Side
    /\ cpc \in {"start", "check", "post", "poll", "done", "failed"}
    /\ scnt \in Nat /\ ccnt \in Nat
    /\ wr_signaled \in {OFF, ON}
    /\ spc \in {"poll", "count", "done"}
    /\ firstRx \in {OFF, ON}
    /\ batch \in Nat /\ rcnt \in Nat /\ room \in Nat
    /\ acked \in Nat /\ delivered \in Nat
    /\ signals \subseteq Nat
    /\ scq \in Nat
    /\ wire \in [Side -> Int]

-----------------------------------------------------------------------------
(* catch_alarm.                                                            *)

\* alarm(n): a pending alarm, none when n is 0.
Alarm(n) == IF n > 0 THEN ON ELSE OFF

\* START: the sample begins.
ToSample(s) ==
    /\ state' = [state EXCEPT ![s] = "SAMPLE"]
    /\ alarm' = [alarm EXCEPT ![s] = Alarm(up.duration - 2 * up.margin)]
    /\ wire' = [wire EXCEPT ![s] = -Finished(s)]
    /\ UNCHANGED stray

\* SAMPLE: the sample ends; without a margin the handler calls itself.
ToStop(s) ==
    /\ state' = [state EXCEPT ![s] = IF up.margin > 0 THEN "STOP_SAMPLE" ELSE "END"]
    /\ alarm' = [alarm EXCEPT ![s] = Alarm(up.margin)]
    /\ wire' = [wire EXCEPT ![s] = @ + Finished(s)]
    /\ UNCHANGED stray

ToEnd_Again(s) ==
    /\ state' = [state EXCEPT ![s] = "END"]
    /\ alarm' = alarm
    /\ UNCHANGED <<stray, wire>>

ToEnd(s) ==
    /\ state' = [state EXCEPT ![s] = "END"]
    /\ alarm' = [alarm EXCEPT ![s] = OFF]
    /\ UNCHANGED <<stray, wire>>

\* "unknown state".
Unknown(s) ==
    /\ stray' = stray \cup {s}
    /\ alarm' = [alarm EXCEPT ![s] = OFF]
    /\ UNCHANGED <<state, wire>>

catch_alarm(s) ==
    \/ state[s] = "START" /\ ToSample(s)
    \/ state[s] = "SAMPLE" /\ ToStop(s)
    \/ state[s] = "STOP_SAMPLE" /\ ToEnd(s)
    \/ state[s] = "END" /\ Unknown(s)

\* The signal, in a process that has not left its loop.
Signal(s) ==
    /\ alarm[s] = ON
    /\ s = "client" => cpc \notin {"done", "failed"}
    /\ s = "server" => spc # "done"
    /\ catch_alarm(s)
    /\ UNCHANGED <<up, iters, clientVars, serverVars, wireVars>>

\* state = START_STATE, then alarm(margin), or catch_alarm(0) without one.
StartTimer(s) ==
    IF up.margin > 0
    THEN /\ state' = [state EXCEPT ![s] = "START"]
         /\ alarm' = [alarm EXCEPT ![s] = Alarm(up.margin)]
         /\ UNCHANGED <<stray, wire>>
    ELSE ToSample(s)

Sample_Late(s) == state[s] \in {"SAMPLE", "STOP_SAMPLE"}

\* Whether a polled completion belongs to the sample.
Sample(s) == state[s] = "SAMPLE"

-----------------------------------------------------------------------------
(* Client: run_iter_bw.                                                    *)

ClientStart ==
    /\ cpc = "start"
    /\ StartTimer("client")
    /\ iters' = [iters EXCEPT !["client"] = 0]
    /\ cpc' = "check"
    /\ UNCHANGED <<up, scnt, ccnt, wr_signaled, serverVars, wireVars>>

\* "margin is not long enough (taking samples before warmup ends)".
ClientCheck ==
    /\ cpc = "check"
    /\ cpc' = IF state["client"] # "START" /\ up.margin > 0 THEN "failed" ELSE "post"
    /\ UNCHANGED <<up, scnt, ccnt, wr_signaled, serverVars, wireVars, timerVars, iters>>

\* Room for one more send; past MaxSends the client is taken to be slow.
Window == scnt + 1 <= up.tx_depth + ccnt

FlagAtPost == IF scnt % up.cq_mod = 0 /\ up.cq_mod > 1 THEN OFF ELSE wr_signaled

ClientPost ==
    /\ cpc = "post"
    /\ state["client"] # "END"
    /\ Window
    /\ scnt < MaxSends
    /\ scnt' = scnt + 1
    /\ signals' = IF FlagAtPost = ON THEN signals \cup {scnt} ELSE signals
    /\ wr_signaled' = IF (scnt + 1) % up.cq_mod = up.cq_mod - 1 THEN ON ELSE FlagAtPost
    /\ UNCHANGED <<up, cpc, ccnt, serverVars, delivered, acked, scq, timerVars, iters>>

\* The window is full, or the END came while posting (the flag is already
\* changed then, and nothing more is posted): poll if a send is unfinished.
ClientFull ==
    /\ cpc = "post"
    /\ ~Window \/ scnt = MaxSends \/ state["client"] = "END"
    /\ cpc' = IF ccnt < scnt THEN "poll"
              ELSE IF state["client"] = "END" THEN "done" ELSE "post"
    /\ UNCHANGED <<up, scnt, ccnt, wr_signaled, serverVars, wireVars, timerVars, iters>>

\* One completion of the batch; the batch may end with it.
ClientPoll ==
    /\ cpc = "poll"
    /\ scq > 0
    /\ scq' = scq - 1
    /\ ccnt' = ccnt + up.cq_mod
    /\ iters' = IF Sample("client")
                THEN [iters EXCEPT !["client"] = @ + up.cq_mod] ELSE iters
    /\ cpc' \in {"poll", "post"}
    /\ UNCHANGED <<up, scnt, wr_signaled, serverVars, delivered, acked, signals, timerVars>>

\* Nothing more to poll: the loop test.
ClientTop ==
    /\ cpc = "poll"
    /\ scq = 0
    /\ cpc' = IF state["client"] = "END" THEN "done" ELSE "post"
    /\ UNCHANGED <<up, scnt, ccnt, wr_signaled, serverVars, wireVars, timerVars, iters>>

-----------------------------------------------------------------------------
(* Server: run_iter_bw_server.                                             *)

\* A poll finds a batch; the first one starts the timer.
ServerPoll ==
    /\ spc = "poll"
    /\ state["server"] # "END"
    /\ rcnt < delivered
    /\ batch' \in 1..(delivered - rcnt)
    /\ IF firstRx = ON
       THEN /\ StartTimer("server")
            /\ firstRx' = OFF
            /\ iters' = [iters EXCEPT !["server"] = 0]
       ELSE UNCHANGED <<timerVars, firstRx, iters>>
    /\ spc' = "count"
    /\ UNCHANGED <<up, clientVars, rcnt, room, wireVars>>

\* One message of the batch: counted, and its receive posted again.
ServerCount ==
    /\ spc = "count"
    /\ batch > 0
    /\ batch' = batch - 1
    /\ rcnt' = rcnt + 1
    /\ room' = room + 1
    /\ iters' = IF Sample("server") THEN [iters EXCEPT !["server"] = @ + 1] ELSE iters
    /\ UNCHANGED <<up, clientVars, spc, firstRx, wireVars, timerVars>>

ServerNext ==
    /\ spc = "count"
    /\ batch = 0
    /\ spc' = "poll"
    /\ UNCHANGED <<up, clientVars, firstRx, batch, rcnt, room, wireVars, timerVars, iters>>

ServerEnd ==
    /\ spc = "poll"
    /\ state["server"] = "END"
    /\ spc' = "done"
    /\ UNCHANGED <<up, clientVars, firstRx, batch, rcnt, room, wireVars, timerVars, iters>>

\* The poll comes back empty.
ServerIdle ==
    /\ spc = "poll"
    /\ state["server"] # "END"
    /\ rcnt = delivered
    /\ UNCHANGED vars

-----------------------------------------------------------------------------
(* Adapters.                                                               *)

Deliver ==
    /\ delivered < scnt
    /\ room > 0
    /\ delivered' = delivered + 1
    /\ room' = room - 1
    /\ UNCHANGED <<up, clientVars, spc, firstRx, batch, rcnt, acked, signals, scq,
                   timerVars, iters>>

Ack ==
    /\ acked < delivered
    /\ acked' = acked + 1
    /\ scq' = IF acked \in signals THEN scq + 1 ELSE scq
    /\ signals' = signals \ {acked}
    /\ UNCHANGED <<up, clientVars, serverVars, delivered, timerVars, iters>>

-----------------------------------------------------------------------------

Init ==
    /\ up \in Settled
    /\ state = [s \in Side |-> "START"]
    /\ alarm = [s \in Side |-> OFF]
    /\ iters = [s \in Side |-> 0]
    /\ stray = {}
    /\ cpc = "start"
    /\ scnt = 0
    /\ ccnt = 0
    /\ wr_signaled = IF up.cq_mod = 1 THEN ON ELSE OFF
    /\ spc = "poll"
    /\ firstRx = ON
    /\ batch = 0
    /\ rcnt = 0
    /\ room = up.rx_depth
    /\ delivered = 0
    /\ acked = 0
    /\ signals = {}
    /\ scq = 0
    /\ wire = [s \in Side |-> 0]

Client == ClientStart \/ ClientCheck \/ ClientPost \/ ClientFull \/ ClientPoll \/ ClientTop
Server == ServerPoll \/ ServerCount \/ ServerNext \/ ServerEnd \/ ServerIdle
Ended == cpc \in {"done", "failed"} /\ spc = "done" /\ UNCHANGED vars

Next == Client \/ Server \/ Deliver \/ Ack \/ Ended \/ \E s \in Side : Signal(s)

(***************************************************************************)
(* Both processes spin and are scheduled, the adapters work, and a pending *)
(* alarm goes off.                                                         *)
(***************************************************************************)
Spec == /\ Init /\ [][Next]_vars
        /\ WF_vars(Client) /\ WF_vars(Server) /\ WF_vars(Deliver) /\ WF_vars(Ack)
        /\ \A s \in Side : WF_vars(Signal(s))

-----------------------------------------------------------------------------
(* Properties.                                                             *)

\* How far the sample of a side may be off: what can be finished and not
\* polled, which is a full queue.
Slack(s) == IF s = "client" THEN up.tx_depth ELSE up.rx_depth

\* The reported iterations are those the adapter finished between the two
\* time stamps, up to one queue: sends finished before the sample began and
\* polled in it, or finished in it and polled after it.
SampleMeasuresWire ==
    \A s \in Side : state[s] \in {"STOP_SAMPLE", "END"} =>
        iters[s] - wire[s] \in (-Slack(s))..Slack(s)

\* No alarm outlives the state machine: the handler never prints "unknown
\* state", with and without a margin.
NoStrayAlarm == stray = {}

\* What makes the two inductive.  The flags are on the last send of every
\* group of cq_mod, so that what is counted and the completions not polled
\* stand for the acknowledged sends, up to the last whole group; and the
\* receives on both sides of a poll fill the queue.
Groups ==
    /\ FlagAtPost = ON <=> (scnt + 1) % up.cq_mod = 0
    /\ signals = {k \in acked..(scnt - 1) : (k + 1) % up.cq_mod = 0}
    /\ ccnt + up.cq_mod * scq = acked - (acked % up.cq_mod)
    /\ scnt <= up.tx_depth + ccnt

InOrder ==
    /\ acked <= delivered /\ delivered <= scnt
    /\ rcnt + batch <= delivered
    /\ room + (delivered - rcnt) = up.rx_depth

Polled(s) == IF s = "client" THEN ccnt ELSE rcnt

\* During the sample iters is what was polled since it began, when no more
\* than a queue was finished and not polled; an alarm is for a state to leave.
Sampling(s) ==
    /\ state[s] = "START" => iters[s] = 0
    /\ state[s] = "SAMPLE" => (-wire[s]) - (Polled(s) - iters[s]) \in 0..Slack(s)
    /\ state[s] \in {"STOP_SAMPLE", "END"} => iters[s] - wire[s] \in (-Slack(s))..Slack(s)
    /\ alarm[s] = ON => state[s] # "END"

DurationInv == /\ TypeOK /\ Groups /\ InOrder /\ NoStrayAlarm
               /\ \A s \in Side : Sampling(s)

\* The client always returns, because its alarms bring it to END, and the
\* server returns once a message has arrived, however many follow.
BothEnd == /\ <>(cpc \in {"done", "failed"})
           /\ (delivered > 0) ~> (spc = "done")
=============================================================================
