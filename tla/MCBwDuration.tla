---------------------------- MODULE MCBwDuration ----------------------------
(* Times around the rules of force_dependecies, small queues.               *)
EXTENDS BwDuration

NoMargin == -1

Ask(d, m, tx, rx, mod) ==
    [duration |-> d, margin |-> m, tx_depth |-> tx, rx_depth |-> rx, cq_mod |-> mod]

\* The default margin of a long and of a short test, and a margin of exactly
\* half the test, which is refused.
MCRequests == {Ask(4, NoMargin, 2, 2, 2), Ask(1, NoMargin, 2, 1, 1), Ask(2, 1, 1, 2, 1)}
=============================================================================
