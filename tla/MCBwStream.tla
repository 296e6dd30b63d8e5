----------------------------- MODULE MCBwStream -----------------------------
(* Command lines for the model checker: small depths and lists around the   *)
(* lengths of the run at which moderation, lists and credits change.        *)
EXTENDS BwStream, BwParams

Ask(iters, tx, rx, mod, req, pl, rpl, credit) ==
    [iters |-> iters, tx_depth |-> tx, rx_depth |-> rx, cq_mod |-> mod,
     req_cq_mod |-> req, post_list |-> pl, recv_post_list |-> rpl,
     large_size |-> FALSE, run_all |-> FALSE, use_event |-> FALSE,
     send_rcredit |-> credit]

\* What the loops need beyond what force_dependecies enforces: lists that
\* fit their queues, and a credit interval shorter than the window.
Runnable(p) ==
    /\ p.post_list <= p.tx_depth
    /\ p.recv_post_list <= p.rx_depth
    /\ p.send_rcredit = ON => /\ p.rx_depth >= 3
                              /\ p.post_list + p.rx_depth \div 3 <= p.rx_depth

\* Moderation: runs that end on, before and after a completion boundary,
\* queues shorter and longer than the moderation, receives in lists.
ModerationConfigs ==
    {p \in Settled({Ask(n, tx, 3, mod, TRUE, 1, rpl, OFF) :
           n \in 5..7, tx \in 1..4, mod \in 1..4, rpl \in 1..2}) : Runnable(p)}

\* Lists of sends, with the moderation the list brings or a requested one.
ListConfigs ==
    {p \in Settled({Ask(6, tx, 2, mod, req, pl, 1, OFF) :
           tx \in 3..6, mod \in 1..3, req \in BOOLEAN, pl \in 2..3}) : Runnable(p)}

StreamConfigs == ModerationConfigs \cup ListConfigs

\* Credits: windows of 4 and 6 messages, server send queues of one and two
\* entries, and a run long enough for credit_buf to wrap (CreditMod is 8).
CreditConfigs ==
    {p \in Settled({Ask(6, tx, rx, 1, TRUE, pl, 1, ON) :
                        tx \in 1..2, rx \in {4, 6}, pl \in 1..2}
                   \cup {Ask(10, 2, 4, 1, TRUE, 1, 1, ON)}) : Runnable(p)}

\* A break at every point of short runs with and without credits.
BreakConfigs ==
    {p \in Settled({Ask(4, tx, 4, 2, TRUE, 1, 1, c) :
           tx \in 1..2, c \in Switch}) : Runnable(p)}

OneQpConfigs == StreamConfigs \cup CreditConfigs \cup BreakConfigs

\* Receives in lists of three under a window of six.
ListCreditConfigs ==
    {p \in Settled({Ask(12, 6, 6, 1, TRUE, 1, 3, ON)}) : Runnable(p)}
=============================================================================
