------------------------------ MODULE LatSend -------------------------------
(***************************************************************************)
(* The SEND latency test: run_iter_lat_send on both sides                  *)
(* (perftest_resources.c) and the loop over the sizes in main              *)
(* (send_lat.c), which posts the receives of a size and shakes hands       *)
(* before it runs it.  The client sends first; each side answers a receive *)
(* completion with a send, asks for a completion every cq_mod sends and on *)
(* the last one, and posts a used receive again while the size needs it.   *)
(*                                                                         *)
(* In duration mode the first message a side receives starts its timer,    *)
(* and catch_alarm takes it through SAMPLE and STOP_SAMPLE to END.         *)
(* MaxSends bounds the messages then.                                      *)
(*                                                                         *)
(* The adapters are external: they deliver in order, take a receive for    *)
(* each message, and complete a signaled send after its delivery.          *)
(* A definition whose name ends in _ and a word is the one before the _    *)
(* with a slip in it; no action uses it.                                   *)
(***************************************************************************)
EXTENDS Integers, Sequences

CONSTANTS Sizes,      \* message sizes of a sweep, in iterations mode
          Iters,      \* messages of a size, ITERATIONS
          Configs,    \* user_param: test_type, tx_depth, rx_depth, cq_mod, margin
          MaxSends    \* bound on the messages of a side in duration mode

SERVER == "server"
CLIENT == "client"
Side == {SERVER, CLIENT}
Peer(s) == IF s = SERVER THEN CLIENT ELSE SERVER
State == {"START", "SAMPLE", "STOP_SAMPLE", "END"}

OFF == 0
ON  == 1

ASSUME LatSendAssumption ==
    /\ Sizes \in Nat \ {0} /\ Iters \in Nat \ {0} /\ MaxSends \in Nat
    /\ \A p \in Configs :
           /\ p.test_type \in {"ITERATIONS", "DURATION"}
           /\ p.margin \in 0..1
           /\ p.rx_depth \in Nat \ {0} /\ p.tx_depth \in Nat \ {0}
           /\ p.cq_mod \in 1..p.tx_depth

VARIABLES
    up,              \* user_param, equal on both sides
    state, alarm,    \* per side: user_param.state, whether an alarm is pending
    iters,           \* per side: user_param.iters
    pc, size,
    scnt, rcnt,
    firstRx,
    poll,            \* per side: poll, and IBV_SEND_SIGNALED in send_flags
    recvq,           \* per side: receives posted and not taken
    rcq,             \* per side: completions in the receive CQ
    wire,            \* per side: sends on their way, with their signaled flag
    acks,            \* per side: delivered signaled sends without completion
    scq,             \* per side: completions in the send CQ
    posted,          \* per side: sends posted, over all sizes (history)
    retired          \* per side: those known to be complete (history)

timeVars == <<state, alarm>>
loopVars == <<pc, size, scnt, rcnt, firstRx, poll>>
wireVars == <<recvq, rcq, wire, acks, scq>>
histVars == <<posted, retired>>
vars == <<up, timeVars, iters, loopVars, wireVars, histVars>>

Duration == up.test_type = "DURATION"
Ended(s) == Duration /\ state[s] = "END"

\* "Duration mode currently doesn't support running on all sizes."
LastSize == IF Duration THEN 1 ELSE Sizes

-----------------------------------------------------------------------------
(* run_iter_lat_send.                                                      *)

More(s) == scnt[s] < iters[s] \/ rcnt[s] < iters[s] \/ (Duration /\ state[s] # "END")

Expects_AnySide(s) == (rcnt[s] < iters[s] \/ Duration) /\ scnt[s] >= 1

\* "make sure that the client won't enter here until he sends his first
\* packet".
Expects(s) == /\ rcnt[s] < iters[s] \/ Duration
              /\ ~(scnt[s] < 1 /\ s = CLIENT)

Top(s) ==
    /\ pc[s] = "top"
    /\ pc' = [pc EXCEPT ![s] = IF ~More(s) THEN "report"
                               ELSE IF Expects(s) THEN "recv" ELSE "send"]
    /\ UNCHANGED <<up, timeVars, iters, size, scnt, rcnt, firstRx, poll, wireVars, histVars>>

\* set_on_first_rx_packet: the timer, which without a margin goes straight
\* to SAMPLE, and the count of the sampled messages from 0.
set_on_first_rx_packet(s) ==
    IF Duration
    THEN /\ state' = [state EXCEPT ![s] = IF up.margin > 0 THEN "START" ELSE "SAMPLE"]
         /\ alarm' = [alarm EXCEPT ![s] = ON]
         /\ iters' = [iters EXCEPT ![s] = 0]
    ELSE UNCHANGED <<timeVars, iters>>

\* One receive completion.
Recv(s) ==
    /\ pc[s] = "recv"
    /\ rcq[s] > 0
    /\ ~Ended(s)
    /\ rcq' = [rcq EXCEPT ![s] = @ - 1]
    /\ IF firstRx[s] = ON THEN set_on_first_rx_packet(s) ELSE UNCHANGED <<timeVars, iters>>
    /\ firstRx' = [firstRx EXCEPT ![s] = OFF]
    /\ rcnt' = [rcnt EXCEPT ![s] = @ + 1]
    /\ pc' = [pc EXCEPT ![s] = "count"]
    /\ UNCHANGED <<up, size, scnt, poll, recvq, wire, acks, scq, histVars>>

Reposts_OneLess(s) == Duration \/ rcnt[s] + up.rx_depth < iters[s]

\* "if we're in duration mode or there is enough space in the rx_depth".
Reposts(s) == Duration \/ rcnt[s] + up.rx_depth <= iters[s]

Count(s) ==
    /\ pc[s] = "count"
    /\ iters' = IF Duration /\ state[s] = "SAMPLE" THEN [iters EXCEPT ![s] = @ + 1] ELSE iters
    /\ recvq' = IF Reposts(s) THEN [recvq EXCEPT ![s] = @ + 1] ELSE recvq
    /\ pc' = [pc EXCEPT ![s] = "send"]
    /\ UNCHANGED <<up, timeVars, size, scnt, rcnt, firstRx, poll, rcq, wire, acks, scq, histVars>>

RecvEnds_AfterMessage(s) ==
    /\ pc[s] = "recv"
    /\ Ended(s)
    /\ rcq[s] > 0
    /\ rcq' = [rcq EXCEPT ![s] = @ - 1]
    /\ pc' = [pc EXCEPT ![s] = "send"]
    /\ UNCHANGED <<up, timeVars, iters, size, scnt, rcnt, firstRx, poll, recvq, wire,
                   acks, scq, histVars>>

\* The time is over: what the poll returned, if anything, is not counted.
RecvEnds(s) ==
    /\ pc[s] = "recv"
    /\ Ended(s)
    /\ rcq' = [rcq EXCEPT ![s] = IF @ > 0 THEN @ - 1 ELSE 0]
    /\ pc' = [pc EXCEPT ![s] = "send"]
    /\ UNCHANGED <<up, timeVars, iters, size, scnt, rcnt, firstRx, poll, recvq, wire,
                   acks, scq, histVars>>

Asks_LastOnly(s) == ~Duration /\ scnt[s] + 1 = iters[s]

\* Whether the next send is signaled and waited for.
Asks(s) == \/ (scnt[s] + 1) % up.cq_mod = 0
           \/ ~Duration /\ scnt[s] + 1 = iters[s]

Send(s) ==
    /\ pc[s] = "send"
    /\ Duration => scnt[s] < MaxSends \/ state[s] = "END"
    /\ IF scnt[s] < iters[s] \/ (Duration /\ state[s] # "END")
       THEN /\ scnt' = [scnt EXCEPT ![s] = @ + 1]
            /\ poll' = IF Asks(s) THEN [poll EXCEPT ![s] = ON] ELSE poll
            /\ pc' = [pc EXCEPT ![s] = "post"]
       ELSE /\ pc' = [pc EXCEPT ![s] = "top"]
            /\ UNCHANGED <<scnt, poll>>
    /\ UNCHANGED <<up, timeVars, iters, size, rcnt, firstRx, wireVars, histVars>>

AfterPost(s) == IF poll[s] = ON THEN "spoll" ELSE "top"

\* The break at END, or the post.
Post(s) ==
    /\ pc[s] = "post"
    /\ IF Ended(s)
       THEN pc' = [pc EXCEPT ![s] = "report"] /\ UNCHANGED <<wire, posted>>
       ELSE /\ wire' = [wire EXCEPT ![s] = Append(@, poll[s])]
            /\ posted' = [posted EXCEPT ![s] = @ + 1]
            /\ pc' = [pc EXCEPT ![s] = AfterPost(s)]
    /\ UNCHANGED <<up, timeVars, iters, size, scnt, rcnt, firstRx, poll, recvq, rcq,
                   acks, scq, retired>>

\* "wait until you get a cq for the last packet".
SendPoll(s) ==
    /\ pc[s] = "spoll"
    /\ scq[s] > 0
    /\ scq' = [scq EXCEPT ![s] = @ - 1]
    /\ retired' = [retired EXCEPT ![s] = posted[s]]
    /\ poll' = [poll EXCEPT ![s] = OFF]
    /\ pc' = [pc EXCEPT ![s] = "top"]
    /\ UNCHANGED <<up, timeVars, iters, size, scnt, rcnt, firstRx, recvq, rcq, wire, acks,
                   posted>>

\* main prints the report and posts the receives of the next size.
Report(s) ==
    /\ pc[s] = "report"
    /\ IF size[s] < LastSize
       THEN /\ size' = [size EXCEPT ![s] = @ + 1]
            /\ recvq' = [recvq EXCEPT ![s] = @ + up.rx_depth]
            /\ pc' = [pc EXCEPT ![s] = "ready"]
       ELSE pc' = [pc EXCEPT ![s] = "done"] /\ UNCHANGED <<size, recvq>>
    /\ UNCHANGED <<up, timeVars, iters, scnt, rcnt, firstRx, poll, rcq, wire, acks, scq, histVars>>

\* ctx_hand_shake of both sides; the counters of the loop begin at 0.
HandShake ==
    /\ \A s \in Side : pc[s] = "ready"
    /\ pc' = [s \in Side |-> "top"]
    /\ scnt' = [s \in Side |-> 0]
    /\ rcnt' = [s \in Side |-> 0]
    /\ poll' = [s \in Side |-> OFF]
    /\ firstRx' = [s \in Side |-> ON]
    /\ UNCHANGED <<up, timeVars, iters, size, wireVars, histVars>>

\* The timer runs for seconds: a side has answered the message that started
\* it before it runs out.
Answered(s) == s = CLIENT \/ scnt[s] > 1 \/ (scnt[s] = 1 /\ pc[s] # "post")

\* SIGALRM.
catch_alarm(s) ==
    /\ alarm[s] = ON
    /\ pc[s] # "done"
    /\ \/ /\ state[s] = "START"
          /\ state' = [state EXCEPT ![s] = "SAMPLE"] /\ UNCHANGED alarm
       \/ /\ state[s] = "SAMPLE" /\ up.margin > 0
          /\ state' = [state EXCEPT ![s] = "STOP_SAMPLE"] /\ UNCHANGED alarm
       \/ /\ \/ state[s] = "SAMPLE" /\ up.margin = 0
             \/ state[s] = "STOP_SAMPLE"
          /\ Answered(s)
          /\ state' = [state EXCEPT ![s] = "END"]
          /\ alarm' = [alarm EXCEPT ![s] = OFF]
    /\ UNCHANGED <<up, iters, loopVars, wireVars, histVars>>

-----------------------------------------------------------------------------
(* Adapters.                                                               *)

Deliver(s) ==
    /\ wire[s] # <<>>
    /\ recvq[Peer(s)] > 0
    /\ wire' = [wire EXCEPT ![s] = Tail(@)]
    /\ recvq' = [recvq EXCEPT ![Peer(s)] = @ - 1]
    /\ rcq' = [rcq EXCEPT ![Peer(s)] = @ + 1]
    /\ acks' = [acks EXCEPT ![s] = @ + Head(wire[s])]
    /\ UNCHANGED <<up, timeVars, iters, loopVars, scq, histVars>>

Complete(s) ==
    /\ acks[s] > 0
    /\ acks' = [acks EXCEPT ![s] = @ - 1]
    /\ scq' = [scq EXCEPT ![s] = @ + 1]
    /\ UNCHANGED <<up, timeVars, iters, loopVars, recvq, rcq, wire, histVars>>

-----------------------------------------------------------------------------

Init ==
    /\ up \in Configs
    /\ state = [s \in Side |-> "START"]
    /\ alarm = [s \in Side |-> OFF]
    /\ iters = [s \in Side |-> IF Duration THEN 0 ELSE Iters]
    /\ pc = [s \in Side |-> "ready"]
    /\ size = [s \in Side |-> 1]
    /\ scnt = [s \in Side |-> 0]
    /\ rcnt = [s \in Side |-> 0]
    /\ firstRx = [s \in Side |-> ON]
    /\ poll = [s \in Side |-> OFF]
    /\ recvq = [s \in Side |-> up.rx_depth]
    /\ rcq = [s \in Side |-> 0]
    /\ wire = [s \in Side |-> <<>>]
    /\ acks = [s \in Side |-> 0]
    /\ scq = [s \in Side |-> 0]
    /\ posted = [s \in Side |-> 0]
    /\ retired = [s \in Side |-> 0]

Loop(s) == \/ Top(s) \/ Recv(s) \/ Count(s) \/ RecvEnds(s) \/ Send(s) \/ Post(s)
           \/ SendPoll(s) \/ Report(s)
Adapter(s) == Deliver(s) \/ Complete(s)
Finished == (\A s \in Side : pc[s] = "done") /\ UNCHANGED vars

Next == \/ \E s \in Side : Loop(s) \/ catch_alarm(s) \/ Adapter(s)
        \/ HandShake \/ Finished

(***************************************************************************)
(* Both processes spin and are scheduled, the adapters work on what is     *)
(* posted, and a pending alarm goes off.                                   *)
(***************************************************************************)
Spec == /\ Init /\ [][Next]_vars /\ WF_vars(HandShake)
        /\ \A s \in Side : /\ WF_vars(Loop(s)) /\ WF_vars(catch_alarm(s))
                           /\ WF_vars(Deliver(s)) /\ WF_vars(Complete(s))

-----------------------------------------------------------------------------
(* Properties.                                                             *)

\* The type of every variable.
TypeOK ==
    /\ up \in Configs
    /\ state \in [Side -> State]
    /\ alarm \in [Side -> {OFF, ON}]
    /\ iters \in [Side -> Nat]
    /\ pc \in [Side -> {"ready", "top", "recv", "count", "send", "post", "spoll", "report", "done"}]
    /\ size \in [Side -> 1..Sizes]
    /\ scnt \in [Side -> Nat]
    /\ rcnt \in [Side -> Nat]
    /\ firstRx \in [Side -> {OFF, ON}]
    /\ poll \in [Side -> {OFF, ON}]
    /\ recvq \in [Side -> Nat]
    /\ rcq \in [Side -> Nat]
    /\ wire \in [Side -> Seq({OFF, ON})]
    /\ acks \in [Side -> Nat]
    /\ scq \in [Side -> Nat]
    /\ posted \in [Side -> Nat]
    /\ retired \in [Side -> Nat]

\* Messages of all sizes a side has received.
Noticed(s) == LET n == (size[s] - 1) * Iters
              IN  IF pc[s] = "ready" THEN n ELSE n + rcnt[s]

\* A message always finds a receive posted, so that none is lost on an
\* unreliable transport ("in UC/UD it will result in a deadlock").
ArrivalHasReceive == \A s \in Side : wire[s] # <<>> => recvq[Peer(s)] > 0

\* What makes it inductive, for each side s.  A side that waits for a message
\* has answered all it has received, the client being one message ahead;
\* between a message and its answer it is one short of that.  END freezes
\* what a side has sent and received.
Ahead(s) == IF s = CLIENT THEN 1 ELSE 0
InTurn(s) ==
    /\ posted[s] - Noticed(s) \in (Ahead(s) - 1)..Ahead(s)
    /\ pc[s] = "ready" => posted[s] = Noticed(s)
    /\ pc[s] = "count" => posted[s] = Noticed(s) + Ahead(s) - 1
    /\ ~Ended(s) =>
           /\ pc[s] \in {"recv", "spoll"} => posted[s] = Noticed(s) + Ahead(s)
           /\ pc[s] \in {"send", "post"} => posted[s] = Noticed(s) + Ahead(s) - 1
           /\ pc[s] = "top" =>
                  \/ posted[s] = Noticed(s) + Ahead(s)
                  \/ /\ s = CLIENT /\ posted[s] = Noticed(s)
                     /\ scnt[s] = 0 \/ (~Duration /\ scnt[s] = Iters)
           /\ pc[s] # "ready" =>
                  posted[s] = (size[s] - 1) * Iters + scnt[s] - (IF pc[s] = "post" THEN 1 ELSE 0)
    /\ IF Duration
       THEN size[s] = 1 /\ (pc[s] = "post" /\ ~Ended(s) => scnt[s] <= MaxSends)
       ELSE /\ iters[s] = Iters /\ scnt[s] <= Iters /\ rcnt[s] <= Iters
            /\ pc[s] = "recv" => rcnt[s] < Iters
            /\ pc[s] \in {"report", "done"} => scnt[s] = Iters /\ rcnt[s] = Iters

\* The two sides are in the same size, or one has finished it.
Begun(s) == IF pc[s] = "ready" THEN size[s] - 1 ELSE size[s]
SameSize == Begun(SERVER) = Begun(CLIENT)

\* Messages to s that it will never count, because END came first, and the
\* receives the rest of the size may still use.
Lost(s) == posted[Peer(s)] - Noticed(s) - rcq[s] - Len(wire[Peer(s)])
Needed(s) == IF pc[s] = "ready" \/ rcnt[s] + up.rx_depth <= Iters
             THEN up.rx_depth ELSE Iters - rcnt[s]
Kept(s) ==
    /\ Lost(s) \in Nat
    /\ Lost(s) > 0 => Ended(s)
    /\ IF Duration
       THEN recvq[s] + rcq[s] + Lost(s) + (IF pc[s] = "count" THEN 1 ELSE 0) = up.rx_depth
       ELSE recvq[s] + rcq[s] + (IF pc[s] = "count" /\ Reposts(s) THEN 1 ELSE 0) >= Needed(s)

LatSendInv == TypeOK /\ SameSize /\ \A s \in Side : InTurn(s) /\ Kept(s)

\* The two sides alternate through all messages of all sizes, and for as
\* long as the time lasts: END never makes a side send out of turn.  Total
\* bounds the messages of both modes.
PP == INSTANCE PingPong WITH
          First <- CLIENT, Total <- IF MaxSends > Sizes * Iters THEN MaxSends ELSE Sizes * Iters,
          sent <- posted, rcvd <- [s \in Side |-> Noticed(s)]

ImplementsPingPong == PP!Spec

\* Both sides return, also when END finds one of them waiting for a message
\* its peer has not sent.
Termination == <>(\A s \in Side : pc[s] = "done")
=============================================================================
