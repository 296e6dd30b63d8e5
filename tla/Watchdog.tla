------------------------------ MODULE Watchdog ------------------------------
(***************************************************************************)
(* The 60 second watchdog of a receiving side in iterations mode: the      *)
(* SIGALRM handler check_alive, the places where run_iter_bw_server (and,  *)
(* with the same lines, run_iter_bi) arms it, feeds it and obeys it, and   *)
(* the loop over the message sizes in main (send_bw.c) that runs them.     *)
(*                                                                         *)
(* One period is the time from alarm(60) to the signal.  The handler may   *)
(* run between any two steps of the loop, and also between two sizes:      *)
(* nothing cancels the alarm.  The peer sends the messages of a run one by *)
(* one and may fall silent for good (it died, or the messages of an        *)
(* unreliable transport are lost).                                         *)
(***************************************************************************)
EXTENDS Integers

CONSTANTS Sizes,      \* message sizes main runs: 1, or all of them (RUN_ALL)
          TotIters,   \* messages of one run, over all QPs
          UseEvent    \* the values of use_event to consider

OFF == 0
ON  == 1

ASSUME WatchdogAssumption == /\ Sizes \in Nat \ {0}
                             /\ TotIters \in Nat \ {0}
                             /\ UseEvent \subseteq {OFF, ON}

VARIABLES
    pc,               \* "between" sizes, in the "loop", or how it ended
    size,             \* sizes begun so far
    use_event,
    arrived,          \* messages of this run in the receive CQ so far
    rcnt,             \* messages counted in this run
    current_totrcnt, last_totrcnt, g_total_iters, to_exit,  \* check_alive_data
    alarm,            \* whether an alarm is pending
    talking,          \* whether the peer still sends
    reported,         \* sizes print_report_bw was called for
    heard             \* a message was counted since alarm(60) (history)

vars == <<pc, size, use_event, arrived, rcnt, current_totrcnt, last_totrcnt,
          g_total_iters, to_exit, alarm, talking, reported, heard>>

TypeOK ==
    /\ pc \in {"between", "loop", "failed", "exited", "done"}
    /\ size \in 0..Sizes
    /\ use_event \in UseEvent
    /\ arrived \in 0..TotIters
    /\ rcnt \in 0..arrived
    /\ current_totrcnt \in 0..TotIters
    /\ last_totrcnt \in 0..TotIters
    /\ g_total_iters \in {0, TotIters}
    /\ to_exit \in {OFF, ON}
    /\ alarm \in {OFF, ON}
    /\ talking \in {OFF, ON}
    /\ reported \in 0..size
    /\ heard \in {OFF, ON}

Running == pc \in {"between", "loop"}

-----------------------------------------------------------------------------

Init ==
    /\ pc = "between"
    /\ size = 0
    /\ use_event \in UseEvent
    /\ arrived = 0
    /\ rcnt = 0
    /\ current_totrcnt = 0
    /\ last_totrcnt = 0
    /\ g_total_iters = 0
    /\ to_exit = OFF
    /\ alarm = OFF
    /\ talking = ON
    /\ reported = 0
    /\ heard = OFF

FreshCounters == arrived' = 0 /\ rcnt' = 0

\* The handshake before a size succeeds and run_iter_bw_server begins: its
\* counters are fresh, check_alive_data keeps what the last run left in it.
BeginRun ==
    /\ pc = "between"
    /\ size < Sizes
    /\ talking = ON
    /\ pc' = "loop"
    /\ size' = size + 1
    /\ FreshCounters
    /\ alarm' = ON
    /\ g_total_iters' = TotIters
    /\ heard' = OFF
    /\ UNCHANGED <<use_event, current_totrcnt, last_totrcnt, to_exit, talking, reported>>

\* All sizes are done: main leaves.
AllDone ==
    /\ pc = "between"
    /\ size = Sizes
    /\ pc' = "done"
    /\ UNCHANGED <<size, use_event, arrived, rcnt, current_totrcnt, last_totrcnt,
                   g_total_iters, to_exit, alarm, talking, reported, heard>>

\* The handshake fails when the peer is gone.
HandshakeFails ==
    /\ pc = "between"
    /\ size < Sizes
    /\ talking = OFF
    /\ pc' = "failed"
    /\ UNCHANGED <<size, use_event, arrived, rcnt, current_totrcnt, last_totrcnt,
                   g_total_iters, to_exit, alarm, talking, reported, heard>>

\* One receive completion.
Receive ==
    /\ pc = "loop"
    /\ rcnt < arrived
    /\ rcnt' = rcnt + 1
    /\ current_totrcnt' = rcnt + 1
    /\ heard' = ON
    /\ UNCHANGED <<pc, size, use_event, arrived, last_totrcnt, g_total_iters, to_exit,
                   alarm, talking, reported>>

\* The CQ is empty (ne = 0) and the watchdog has asked to leave: the run
\* fails and main goes to its cleanup without a report.
ObeyWatchdog ==
    /\ pc = "loop"
    /\ rcnt = arrived
    /\ to_exit = ON
    /\ pc' = "failed"
    /\ last_totrcnt' = 0
    /\ UNCHANGED <<size, use_event, arrived, rcnt, current_totrcnt, g_total_iters,
                   to_exit, alarm, talking, reported, heard>>

\* The CQ is empty and all messages are counted: the run succeeds and main
\* reports it.
EndRun ==
    /\ pc = "loop"
    /\ rcnt = arrived
    /\ to_exit = OFF
    /\ rcnt >= TotIters
    /\ pc' = "between"
    /\ last_totrcnt' = 0
    /\ reported' = reported + 1
    /\ UNCHANGED <<size, use_event, arrived, rcnt, current_totrcnt, g_total_iters,
                   to_exit, alarm, talking, heard>>

\* The CQ is empty, messages are missing and nobody asked to leave: once
\* more around the loop.
PollAgain ==
    /\ pc = "loop"
    /\ rcnt = arrived
    /\ to_exit = OFF
    /\ rcnt < TotIters
    /\ UNCHANGED vars

-----------------------------------------------------------------------------

Progressed_OrEqual == current_totrcnt >= last_totrcnt

Progressed == current_totrcnt > last_totrcnt

Stalled_Complete == current_totrcnt = last_totrcnt

\* The branch of the handler that gives up.
Stalled == current_totrcnt = last_totrcnt /\ current_totrcnt < g_total_iters

\* SIGALRM: check_alive.  Without progress and without a stall the handler
\* returns and leaves no alarm behind.
check_alive ==
    /\ Running
    /\ alarm = ON
    /\ heard' = OFF
    /\ IF Progressed
       THEN last_totrcnt' = current_totrcnt /\ alarm' = ON
       ELSE last_totrcnt' = last_totrcnt /\ alarm' = OFF
    /\ IF ~Progressed /\ Stalled
       THEN IF use_event = ON
            THEN pc' = "exited" /\ to_exit' = to_exit
            ELSE pc' = pc /\ to_exit' = ON
       ELSE pc' = pc /\ to_exit' = to_exit
    /\ UNCHANGED <<size, use_event, arrived, rcnt, current_totrcnt, g_total_iters,
                   talking, reported>>

\* A message reaches the receive CQ.
Arrive ==
    /\ pc = "loop"
    /\ talking = ON
    /\ arrived < TotIters
    /\ arrived' = arrived + 1
    /\ UNCHANGED <<pc, size, use_event, rcnt, current_totrcnt, last_totrcnt,
                   g_total_iters, to_exit, alarm, talking, reported, heard>>

FallSilent ==
    /\ Running
    /\ talking = ON
    /\ talking' = OFF
    /\ UNCHANGED <<pc, size, use_event, arrived, rcnt, current_totrcnt, last_totrcnt,
                   g_total_iters, to_exit, alarm, reported, heard>>

\* The process has ended.
Ended == ~Running /\ UNCHANGED vars

Server == \/ BeginRun \/ AllDone \/ HandshakeFails
          \/ Receive \/ ObeyWatchdog \/ EndRun \/ PollAgain
Next == Server \/ check_alive \/ Arrive \/ FallSilent \/ Ended

(***************************************************************************)
(* The server spins and is scheduled, and a pending alarm goes off.        *)
(***************************************************************************)
Spec == Init /\ [][Next]_vars /\ WF_vars(Server) /\ WF_vars(check_alive)

-----------------------------------------------------------------------------
(* Properties.                                                             *)

GivesUp == to_exit' # to_exit \/ (pc # "exited" /\ pc' = "exited")

\* The watchdog asks the loop to leave, or ends the process, only in a run
\* that misses messages and counted none since the alarm was set: neither a
\* signal between two sizes nor a count left by an earlier size makes it
\* give up a run that is alive.
GivesUpOnlyAfterSilence ==
    [][GivesUp => pc = "loop" /\ rcnt < TotIters /\ heard = OFF]_vars

\* Why: between two sizes the counts are complete, or untouched; in a run the
\* count the handler sees is that of the run, or a complete one left by the
\* size before; and a count of this run it has kept is behind as soon as a
\* message is counted.
WatchdogInv ==
    /\ TypeOK
    /\ pc = "between" => /\ current_totrcnt = g_total_iters
                         /\ last_totrcnt \in {0, TotIters}
    /\ pc = "loop" =>
           /\ reported < size
           /\ g_total_iters = TotIters
           /\ \/ current_totrcnt = rcnt
              \/ current_totrcnt = TotIters /\ rcnt = 0 /\ heard = OFF
           /\ last_totrcnt < TotIters =>
                  /\ last_totrcnt <= rcnt
                  /\ heard = ON => last_totrcnt < rcnt

\* A server whose peer has fallen silent leaves its loop.
SilenceNoticed == (pc = "loop" /\ talking = OFF) ~> pc # "loop"

\* The same for the first size, which is the whole test without RUN_ALL.
SilenceNoticedAtFirst == (pc = "loop" /\ size = 1 /\ talking = OFF) ~> pc # "loop"
=============================================================================
