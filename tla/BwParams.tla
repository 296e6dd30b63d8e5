------------------------------ MODULE BwParams ------------------------------
(***************************************************************************)
(* The part of force_dependecies (perftest_parameters.c) that settles the  *)
(* queue depths, the CQ moderation and the list sizes of a SEND bandwidth  *)
(* test on RC queue pairs, in iterations mode.  A request is what parser   *)
(* has stored in user_param; Settle(r) is user_param when parser returns,  *)
(* and Rejected(r) says that parser ends the process with exit(1).  The    *)
(* rules are applied in the order of the code: each reads what the earlier *)
(* ones have written.                                                      *)
(***************************************************************************)
EXTENDS Integers

CONSTANTS DISABLED_CQ_MOD_VALUE   \* 1 in perftest_parameters.h

ASSUME DisabledAssumption == DISABLED_CQ_MOD_VALUE \in Nat \ {0}

\* What the options leave in user_param.  parser refuses a zero for -n, -t,
\* -r and -Q; a list size is 1 unless given, and none below 1 is considered.
Request == [iters : Nat \ {0}, tx_depth : Nat \ {0}, rx_depth : Nat \ {0},
            cq_mod : Nat \ {0}, req_cq_mod : BOOLEAN,
            post_list : Nat \ {0}, recv_post_list : Nat \ {0},
            large_size : BOOLEAN, run_all : BOOLEAN, use_event : BOOLEAN,
            send_rcredit : {0, 1}]

Smaller(a, b) == IF a <= b THEN a ELSE b

\* A queue is never deeper than the number of messages of the run.
ClampDepths(r) ==
    [r EXCEPT !.tx_depth = Smaller(@, r.iters), !.rx_depth = Smaller(@, r.iters)]

\* Large messages run without CQ moderation unless the user asked for it,
\* all sizes are run, or events are used; then cq_mod is cut to tx_depth.
ModerationRule(r) ==
    LET disabled == r.large_size /\ ~r.run_all /\ ~r.use_event /\ ~r.req_cq_mod
        asked    == IF disabled THEN DISABLED_CQ_MOD_VALUE ELSE r.cq_mod
    IN  [r EXCEPT !.cq_mod = Smaller(asked, r.tx_depth)]

\* A send list carries its own moderation unless the user asked for one.
PostListRule(r) ==
    IF r.post_list > 1 /\ ~r.req_cq_mod
    THEN [r EXCEPT !.cq_mod = r.post_list]
    ELSE r

\* "WA for a bug when rx_depth is odd in SEND"
EvenRxDepth(r) ==
    IF r.rx_depth % 2 = 1 /\ ~r.run_all
    THEN [r EXCEPT !.rx_depth = @ + 1]
    ELSE r

\* Whether the last completion of a QP stands for fewer than cq_mod sends.
FillCount(r) ==
    \/ r.cq_mod >= r.tx_depth /\ r.iters % r.tx_depth # 0
    \/ r.cq_mod <  r.tx_depth /\ r.iters % r.cq_mod # 0

BeforeLists(r) == ModerationRule(ClampDepths(r))

\* The exits of the list rules: sizes that do not divide the iterations, and
\* a requested moderation that does not divide the send list.
Rejected(r) ==
    LET b == BeforeLists(r)
    IN  \/ b.post_list > 1 /\ b.iters % b.post_list # 0
        \/ b.post_list > 1 /\ b.req_cq_mod /\ b.post_list % b.cq_mod # 0
        \/ b.recv_post_list > 1 /\ b.iters % b.recv_post_list # 0

\* The fields of user_param and ctx that the bandwidth loops read.
Settle(r) ==
    LET s == EvenRxDepth(PostListRule(BeforeLists(r)))
    IN  [iters          |-> s.iters,
         tx_depth       |-> s.tx_depth,
         rx_depth       |-> s.rx_depth,
         cq_mod         |-> s.cq_mod,
         post_list      |-> s.post_list,
         recv_post_list |-> s.recv_post_list,
         fill_count     |-> IF FillCount(s) THEN 1 ELSE 0,
         send_rcredit   |-> s.send_rcredit]

\* The configurations the program starts a run with, for a set of requests.
Settled(Requests) == {Settle(r) : r \in {q \in Requests : ~Rejected(q)}}
=============================================================================
