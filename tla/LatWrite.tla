------------------------------ MODULE LatWrite ------------------------------
(***************************************************************************)
(* The RDMA WRITE latency test: run_iter_lat_write on both sides           *)
(* (perftest_resources.c) and the loop over the sizes in main              *)
(* (write_lat.c), which runs the sizes without a handshake in between.     *)
(*                                                                         *)
(* A side writes the number of its message, cut to a byte, into the last   *)
(* byte of its buffer, posts the WRITE, waits for its completion, and      *)
(* polls the last byte of its receive buffer for the number it expects.    *)
(* No receive completion tells it that a message has come.  The server     *)
(* sends first.                                                            *)
(*                                                                         *)
(* Of the memory only the last byte of every size is kept: the sizes grow, *)
(* and a message of size z carries the last bytes of all sizes up to z.    *)
(* The adapter is external: it reads the source of a WRITE when it starts  *)
(* it, places it later in one step (the byte polled is the last one        *)
(* placed), and completes it after that.                                   *)
(*                                                                         *)
(* In duration mode catch_alarm takes each side through START, SAMPLE,     *)
(* STOP_SAMPLE and END at any time; MaxSends bounds the messages then.     *)
(* A definition whose name ends in _ and a word is the one before the _    *)
(* with a slip in it; no action uses it.                                   *)
(***************************************************************************)
EXTENDS Integers, Sequences

CONSTANTS Sizes,      \* message sizes of the sweep
          Iters,      \* messages per size and side in iterations mode
          ByteMod,    \* 256: numbers are cut to a char
          TestTypes,  \* test_type: subset of {"ITERATIONS", "DURATION"}
          MaxSends    \* bound on the messages of a side in duration mode

SERVER == "server"
CLIENT == "client"
Side == {SERVER, CLIENT}
Peer(s) == IF s = SERVER THEN CLIENT ELSE SERVER
Size == 1..Sizes
Byte == 0..(ByteMod - 1)
Message == UNION {[1..z -> Byte] : z \in Size}   \* last bytes, by size
State == {"START", "SAMPLE", "STOP_SAMPLE", "END"}

ASSUME LatWriteAssumption ==
    /\ Sizes \in Nat \ {0}
    /\ Iters \in Nat \ {0}
    /\ ByteMod \in Nat \ {0, 1}
    /\ TestTypes \subseteq {"ITERATIONS", "DURATION"}
    /\ MaxSends \in Nat

VARIABLES
    test_type, margin,   \* of user_param, equal on both sides
    state, iters,        \* of user_param, per side
    pc,                  \* where a side is in its loop
    size,                \* the size it runs
    scnt, ccnt, rcnt,
    buf,                 \* per side: last bytes of the send buffer, by size
    mem,                 \* per side: last bytes of the receive buffer, by size
    wq,                  \* per side: sizes of the WRITEs posted, not started
    flight,              \* per side: WRITEs on their way
    unacked,             \* per side: WRITEs placed and not completed
    cq,                  \* per side: completions in the send CQ
    got                  \* per side: messages placed in its memory (history)

userVars == <<test_type, margin>>
loopVars == <<pc, size, scnt, ccnt, rcnt, buf>>
wireVars == <<mem, wq, flight, unacked, cq, got>>
vars == <<userVars, state, iters, loopVars, wireVars>>

Duration == test_type = "DURATION"
Ended(s) == Duration /\ state[s] = "END"

-----------------------------------------------------------------------------
(* run_iter_lat_write.                                                     *)

InitialByte_Random == 1

\* initialize_buffer_content clears the buffers of a WRITE latency test.
InitialByte == 0

More(s) == \/ scnt[s] < iters[s] \/ ccnt[s] < iters[s] \/ rcnt[s] < iters[s]
           \/ Duration /\ state[s] # "END"

Expects_AnySide(s) == (rcnt[s] < iters[s] \/ Duration) /\ scnt[s] >= 1

\* A side waits for a message first, except the server before its first one.
Expects(s) == /\ rcnt[s] < iters[s] \/ Duration
              /\ ~(scnt[s] < 1 /\ s = SERVER)

Top(s) ==
    /\ pc[s] = "top"
    /\ IF ~More(s)
       THEN pc' = [pc EXCEPT ![s] = "report"] /\ UNCHANGED rcnt
       ELSE IF Expects(s)
       THEN pc' = [pc EXCEPT ![s] = "wait"] /\ rcnt' = [rcnt EXCEPT ![s] = @ + 1]
       ELSE pc' = [pc EXCEPT ![s] = "send"] /\ UNCHANGED rcnt
    /\ UNCHANGED <<userVars, state, iters, size, scnt, ccnt, buf, wireVars>>

Released_ByMessage(s) == mem[s][size[s]] = rcnt[s] % ByteMod

\* *poll_buf holds the number expected, or the time is over.
Released(s) == mem[s][size[s]] = rcnt[s] % ByteMod \/ state[s] = "END"

Wait(s) ==
    /\ pc[s] = "wait"
    /\ Released(s)
    /\ pc' = [pc EXCEPT ![s] = "send"]
    /\ UNCHANGED <<userVars, state, iters, size, scnt, ccnt, rcnt, buf, wireVars>>

\* What *post_buf holds for the next message.
Number(s) == (scnt[s] + 1) % ByteMod

MoreSends(s) == scnt[s] < iters[s] \/ Duration

Send(s) ==
    /\ pc[s] = "send"
    /\ Duration => scnt[s] < MaxSends \/ state[s] = "END"
    /\ IF MoreSends(s)
       THEN /\ scnt' = [scnt EXCEPT ![s] = @ + 1]
            /\ buf' = [buf EXCEPT ![s][size[s]] = Number(s)]
            /\ wq' = [wq EXCEPT ![s] = Append(@, size[s])]
       ELSE UNCHANGED <<scnt, buf, wq>>
    /\ pc' = [pc EXCEPT ![s] = "sent"]
    /\ UNCHANGED <<userVars, state, iters, size, ccnt, rcnt, mem, flight, unacked, cq, got>>

\* The break at END, and whether a completion is still due.
Sent(s) ==
    /\ pc[s] = "sent"
    /\ pc' = [pc EXCEPT ![s] = IF Ended(s) THEN "report"
                               ELSE IF ccnt[s] < iters[s] \/ Duration THEN "poll"
                               ELSE "top"]
    /\ UNCHANGED <<userVars, state, iters, size, scnt, ccnt, rcnt, buf, wireVars>>

Poll(s) ==
    /\ pc[s] = "poll"
    /\ cq[s] > 0
    /\ cq' = [cq EXCEPT ![s] = @ - 1]
    /\ ccnt' = [ccnt EXCEPT ![s] = @ + 1]
    /\ iters' = IF Duration /\ state[s] = "SAMPLE"
                THEN [iters EXCEPT ![s] = @ + 1] ELSE iters
    /\ pc' = [pc EXCEPT ![s] = "top"]
    /\ UNCHANGED <<userVars, state, size, scnt, rcnt, buf, mem, wq, flight, unacked, got>>

\* The wait for a completion ends without one when the time is over.
PollEnds(s) ==
    /\ pc[s] = "poll"
    /\ cq[s] = 0
    /\ Ended(s)
    /\ pc' = [pc EXCEPT ![s] = "top"]
    /\ UNCHANGED <<userVars, state, iters, size, scnt, ccnt, rcnt, buf, wireVars>>

\* "Duration mode currently doesn't support running on all sizes."
LastSize == IF Duration THEN 1 ELSE Sizes

FirstOfSize(s) == /\ scnt' = [scnt EXCEPT ![s] = 0]
                  /\ ccnt' = [ccnt EXCEPT ![s] = 0]
                  /\ rcnt' = [rcnt EXCEPT ![s] = 0]

\* main prints the report and begins the next size.
Report(s) ==
    /\ pc[s] = "report"
    /\ IF size[s] < LastSize
       THEN /\ size' = [size EXCEPT ![s] = @ + 1]
            /\ FirstOfSize(s)
            /\ pc' = [pc EXCEPT ![s] = "top"]
       ELSE /\ pc' = [pc EXCEPT ![s] = "done"]
            /\ UNCHANGED <<size, scnt, ccnt, rcnt>>
    /\ UNCHANGED <<userVars, state, iters, buf, wireVars>>

\* SIGALRM: catch_alarm, which passes STOP_SAMPLE at once without a margin.
catch_alarm(s) ==
    /\ Duration
    /\ pc[s] # "done"
    /\ \/ state[s] = "START"  /\ state' = [state EXCEPT ![s] = "SAMPLE"]
       \/ state[s] = "SAMPLE"
          /\ state' = [state EXCEPT ![s] = IF margin > 0 THEN "STOP_SAMPLE" ELSE "END"]
       \/ state[s] = "STOP_SAMPLE" /\ state' = [state EXCEPT ![s] = "END"]
    /\ UNCHANGED <<userVars, iters, loopVars, wireVars>>

-----------------------------------------------------------------------------
(* Adapters.                                                               *)

Start(s) ==
    /\ wq[s] # <<>>
    /\ wq' = [wq EXCEPT ![s] = Tail(@)]
    /\ flight' = [flight EXCEPT ![s] =
                    Append(@, [z \in 1..Head(wq[s]) |-> buf[s][z]])]
    /\ UNCHANGED <<userVars, state, iters, loopVars, mem, unacked, cq, got>>

Place(s) ==
    /\ flight[s] # <<>>
    /\ LET w == Head(flight[s])
       IN  mem' = [mem EXCEPT ![Peer(s)] = [z \in Size |-> IF z \in DOMAIN w THEN w[z] ELSE @[z]]]
    /\ flight' = [flight EXCEPT ![s] = Tail(@)]
    /\ unacked' = [unacked EXCEPT ![s] = @ + 1]
    /\ got' = [got EXCEPT ![Peer(s)] = @ + 1]
    /\ UNCHANGED <<userVars, state, iters, loopVars, wq, cq>>

Complete(s) ==
    /\ unacked[s] > 0
    /\ unacked' = [unacked EXCEPT ![s] = @ - 1]
    /\ cq' = [cq EXCEPT ![s] = @ + 1]
    /\ UNCHANGED <<userVars, state, iters, loopVars, mem, wq, flight, got>>

-----------------------------------------------------------------------------

Init ==
    /\ test_type \in TestTypes
    /\ margin \in 0..1
    /\ state = [s \in Side |-> IF Duration /\ margin = 0 THEN "SAMPLE" ELSE "START"]
    /\ iters = [s \in Side |-> IF Duration THEN 0 ELSE Iters]
    /\ pc = [s \in Side |-> "top"]
    /\ size = [s \in Side |-> 1]
    /\ scnt = [s \in Side |-> 0]
    /\ ccnt = [s \in Side |-> 0]
    /\ rcnt = [s \in Side |-> 0]
    /\ buf = [s \in Side |-> [z \in Size |-> InitialByte]]
    /\ mem = [s \in Side |-> [z \in Size |-> InitialByte]]
    /\ wq = [s \in Side |-> <<>>]
    /\ flight = [s \in Side |-> <<>>]
    /\ unacked = [s \in Side |-> 0]
    /\ cq = [s \in Side |-> 0]
    /\ got = [s \in Side |-> 0]

Loop(s) == Top(s) \/ Wait(s) \/ Send(s) \/ Sent(s) \/ Poll(s) \/ PollEnds(s) \/ Report(s)
Adapter(s) == Start(s) \/ Place(s) \/ Complete(s)
Finished == (\A s \in Side : pc[s] = "done") /\ UNCHANGED vars

Next == (\E s \in Side : Loop(s) \/ catch_alarm(s) \/ Adapter(s)) \/ Finished

(***************************************************************************)
(* Both processes spin and are scheduled, the adapters work on what is     *)
(* posted, and the alarms go off.                                          *)
(***************************************************************************)
Spec == /\ Init /\ [][Next]_vars
        /\ \A s \in Side : /\ WF_vars(Loop(s)) /\ WF_vars(catch_alarm(s))
                           /\ WF_vars(Start(s)) /\ WF_vars(Place(s)) /\ WF_vars(Complete(s))

-----------------------------------------------------------------------------
(* Properties.                                                             *)

\* The type of every variable; what is in memory and on the wire is a byte.
TypeOK ==
    /\ test_type \in TestTypes
    /\ margin \in 0..1
    /\ state \in [Side -> State]
    /\ iters \in [Side -> Nat]
    /\ pc \in [Side -> {"top", "wait", "send", "sent", "poll", "report", "done"}]
    /\ size \in [Side -> Size]
    /\ scnt \in [Side -> Nat]
    /\ ccnt \in [Side -> Nat]
    /\ rcnt \in [Side -> Nat]
    /\ buf \in [Side -> [Size -> Byte]]
    /\ mem \in [Side -> [Size -> Byte]]
    /\ wq \in [Side -> Seq(Size)]
    /\ flight \in [Side -> Seq(Message)]
    /\ unacked \in [Side -> Nat]
    /\ cq \in [Side -> Nat]
    /\ got \in [Side -> Nat]

\* Messages of all sizes a side has sent, and those it has noticed.
SentAll(s)  == (size[s] - 1) * Iters + scnt[s]
Noticed(s) == (size[s] - 1) * Iters + IF pc[s] = "wait" THEN rcnt[s] - 1 ELSE rcnt[s]

\* A side that goes on because of the byte it polls has really been sent the
\* message of that number: a number cut to a byte, a byte left by an earlier
\* size or by an earlier message never stands for one that is yet to come.
NoticedForReal ==
    \A s \in Side : state[s] # "END" => Noticed(s) <= got[s]

\* What makes NoticedForReal inductive, for each side s.  A side sends and
\* expects in turn, and its counters say whose turn it is; only END lets it
\* go back to the top of the loop with a completion outstanding, and then
\* the loop is over.
Answers(s) == IF s = CLIENT THEN 1 ELSE 0
SentLast(s) == ~Duration /\ s = SERVER /\ scnt[s] = Iters /\ rcnt[s] = Iters
InTurn(s) ==
    /\ pc[s] = "top" => \/ rcnt[s] + 1 = scnt[s] + Answers(s)
                        \/ s = SERVER /\ scnt[s] = 0 /\ rcnt[s] = 0
                        \/ SentLast(s)
    /\ pc[s] \in {"wait", "send"} => rcnt[s] = scnt[s] + Answers(s)
    /\ pc[s] = "wait" => rcnt[s] > 0
    /\ pc[s] = "sent" => rcnt[s] + 1 = scnt[s] + Answers(s) \/ SentLast(s)
    /\ pc[s] = "poll" => rcnt[s] + 1 = scnt[s] + Answers(s)
    /\ IF Duration
       THEN size[s] = 1 /\ iters[s] <= ccnt[s]
       ELSE /\ state[s] = "START" /\ iters[s] = Iters
            /\ scnt[s] <= Iters /\ rcnt[s] <= Iters
            /\ pc[s] \in {"report", "done"} => scnt[s] = Iters /\ ccnt[s] = Iters /\ rcnt[s] = Iters

\* A side has at most one WRITE whose completion it has not polled.
Pending(s) == Len(wq[s]) + Len(flight[s])
Due(s) == Pending(s) + unacked[s] + cq[s]
OneAtATime(s) ==
    /\ Due(s) = scnt[s] - ccnt[s]
    /\ Due(s) <= 1
    /\ pc[s] = "top" => Due(s) = 0 \/ (Ended(s) /\ ~More(s))
    /\ pc[s] \in {"wait", "send"} => Due(s) = 0
    /\ pc[s] = "sent" => Due(s) = IF SentLast(s) THEN 0 ELSE 1
    /\ pc[s] = "poll" => Due(s) = 1

\* The buffer holds the last number of every size begun, and the peer's memory
\* the same but for the WRITE on its way, which carries what the buffer holds.
Carried(s) ==
    /\ \A z \in Size :
           /\ buf[s][z] = IF z < size[s] THEN Iters % ByteMod
                          ELSE IF z = size[s] THEN scnt[s] % ByteMod ELSE 0
           /\ mem[Peer(s)][z] = IF z = size[s] THEN (scnt[s] - Pending(s)) % ByteMod
                                ELSE buf[s][z]
    /\ wq[s] # <<>> => Head(wq[s]) = size[s]
    /\ flight[s] # <<>> => Head(flight[s]) = [z \in 1..size[s] |-> buf[s][z]]
    /\ got[Peer(s)] = SentAll(s) - Pending(s)

Turns == \A s \in Side : InTurn(s) /\ OneAtATime(s)
LatWriteInv == TypeOK /\ Turns /\ (\A s \in Side : Carried(s)) /\ NoticedForReal

\* In iterations mode both sides alternate through all sizes, though nothing
\* but the messages themselves synchronises them: the test implements
\* PingPong.  (END makes a side send out of turn.)
Played(f) == IF Duration THEN [s \in Side |-> 0] ELSE f
PP == INSTANCE PingPong WITH
          First <- SERVER, Total <- Sizes * Iters,
          sent <- Played([s \in Side |-> SentAll(s)]),
          rcvd <- Played([s \in Side |-> Noticed(s)])

ImplementsPingPong == PP!Spec

\* Both sides return, in iterations mode with every message of every size sent
\* and noticed, in duration mode also when END finds them waiting for a
\* message or for a completion.
Termination ==
    <>(\A s \in Side : /\ pc[s] = "done"
                       /\ Duration \/ (SentAll(s) = Sizes * Iters /\ Noticed(s) = Sizes * Iters))
=============================================================================
