----------------------------- MODULE MCBwBidir -----------------------------
(* Command lines for the bidirectional loop.                                *)
EXTENDS BwBidir, BwParams, TLC

Ask(iters, tx, rx, mod, pl, rpl, credit) ==
  [iters |-> iters, tx_depth |-> tx, rx_depth |-> rx, cq_mod |-> mod, req_cq_mod |-> TRUE,
   post_list |-> pl, recv_post_list |-> rpl, large_size |-> FALSE, run_all |-> TRUE,
   use_event |-> FALSE, send_rcredit |-> credit]
With(n, asked) == {p @@ [num_of_qps |-> n] : p \in Settled(asked)}

\* The connection may break at any point: moderation that ends inside an
\* interval, lists of receives, two queue pairs on the same CQs, and a window
\* of three messages that closes over a send queue of one entry.
MCBreaking ==
  With(1, {Ask(3, 2, 2, 2, 1, 1, OFF), Ask(4, 3, 4, 2, 1, 2, OFF), Ask(3, 1, 3, 1, 1, 1, ON)})
  \cup With(2, {Ask(1, 1, 1, 1, 1, 1, OFF)})

\* Lists of sends, and two moderated queue pairs.
MCConfigs ==
  MCBreaking \cup With(1, {Ask(4, 2, 4, 1, 2, 1, OFF)})
             \cup With(2, {Ask(2, 2, 2, 2, 1, 1, OFF)})
=============================================================================
