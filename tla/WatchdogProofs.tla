--------------------------- MODULE WatchdogProofs ---------------------------
(***************************************************************************)
(* The watchdog of check_alive never gives up a live run, for every number *)
(* of sizes and every length of a run.                                     *)
(***************************************************************************)
EXTENDS Watchdog, TLAPS

LEMMA WatchdogInit == Init => WatchdogInv
  BY WatchdogAssumption DEF Init, WatchdogInv, TypeOK, OFF, ON

LEMMA WatchdogStep == WatchdogInv /\ [Next]_vars => WatchdogInv'
<1> SUFFICES ASSUME WatchdogInv, [Next]_vars PROVE WatchdogInv'
  OBVIOUS
<1> USE WatchdogAssumption DEF WatchdogInv, TypeOK, OFF, ON
<1>1. CASE BeginRun
  BY <1>1 DEF BeginRun, FreshCounters
<1>2. CASE AllDone \/ HandshakeFails
  BY <1>2 DEF AllDone, HandshakeFails
<1>3. CASE Receive
  BY <1>3 DEF Receive
<1>4. CASE ObeyWatchdog
  BY <1>4 DEF ObeyWatchdog
<1>5. CASE EndRun
  BY <1>5 DEF EndRun
<1>6. CASE check_alive
  BY <1>6 DEF check_alive, Running, Progressed, Stalled
<1>7. CASE Arrive
  BY <1>7 DEF Arrive
<1>8. CASE FallSilent
  BY <1>8 DEF FallSilent, Running
<1>9. CASE UNCHANGED vars
  BY <1>9 DEF vars
<1> QED
  BY <1>1, <1>2, <1>3, <1>4, <1>5, <1>6, <1>7, <1>8, <1>9
     DEF Next, Server, PollAgain, Ended

(* Only the handler gives up, and only in the branch whose counts say that
   the run misses messages and has counted none since the alarm was set. *)
LEMMA GivesUpStep ==
    ASSUME WatchdogInv, Next, GivesUp
    PROVE  pc = "loop" /\ rcnt < TotIters /\ heard = OFF
<1>1. check_alive
  BY DEF GivesUp, Next, Server, BeginRun, AllDone, HandshakeFails, Receive,
         ObeyWatchdog, EndRun, PollAgain, Arrive, FallSilent, Ended, vars
<1>2. Running /\ ~Progressed /\ Stalled
  BY <1>1 DEF check_alive, GivesUp
<1> QED
  BY <1>2, WatchdogAssumption
     DEF WatchdogInv, TypeOK, Running, Stalled, OFF, ON

(* check_alive ends a run, or the process, only in a run that misses messages
   and has counted none since the alarm was set. *)
THEOREM NeverGivesUpALiveRun == Spec => GivesUpOnlyAfterSilence
<1>1. Init => WatchdogInv
  BY WatchdogInit
<1>2. WatchdogInv /\ [Next]_vars => WatchdogInv'
  BY WatchdogStep
<1>3. WatchdogInv /\ [Next]_vars
         => [GivesUp => pc = "loop" /\ rcnt < TotIters /\ heard = OFF]_vars
  BY GivesUpStep
<1> QED  BY <1>1, <1>2, <1>3, PTL DEF Spec, GivesUpOnlyAfterSilence
=============================================================================
