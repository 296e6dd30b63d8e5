------------------------------ MODULE BwBidir ------------------------------
(***************************************************************************)
(* One run of the bidirectional SEND bandwidth test in iterations mode:    *)
(* run_iter_bi on both machines (perftest_resources.c).  Each loop sends,  *)
(* receives and, on iWARP, writes credits for what it received through     *)
(* the send queue its own messages use, and polls both kinds of            *)
(* completions from one send CQ.                                           *)
(*                                                                         *)
(* A posted request is an entry of sq: a message, or a credit write whose   *)
(* value the adapter reads when it starts the write.  The adapter executes *)
(* the requests of a queue pair in order, a message only into a posted     *)
(* receive, and puts a completion in the CQ for a signaled one.  An entry  *)
(* of the queue is free again when a completion of it or of a later one    *)
(* has been polled.  The connection may break; a peer that goes silent is  *)
(* the business of check_alive (module Watchdog).                          *)
(***************************************************************************)
EXTENDS Integers, Sequences, FiniteSets

CONSTANTS Configs,    \* settled parameters of a run
          Breaking,   \* those of Configs in which the connection may break
          CreditMod   \* 2^32 in the code: credits and swindow are uint32_t

VARIABLES up,      \* the parameters, one of Configs
          loop,    \* for each machine: the locals of run_iter_bi
          qps,     \* for each machine and queue pair: the counters
          sq,      \* for each machine and queue pair: requests not yet executed
          cq,      \* for each machine and queue pair: completions in the send CQ
          free,    \* for each machine and queue pair: the entries and the messages that
                   \* the polled completions stand for (history)
          arrived, \* for each machine and queue pair: messages received by the adapter
          credit_buf, \* for each machine and queue pair: what the peer's credits wrote
          conn

vars == <<up, loop, qps, sq, cq, free, arrived, credit_buf, conn>>
adapter == <<sq, cq, free, arrived, credit_buf, conn>>

OFF == 0
ON == 1
CLIENT == "client"
SERVER == "server"
Machines == {CLIENT, SERVER}
Peer(s) == IF s = CLIENT THEN SERVER ELSE CLIENT
QP == 0..(up.num_of_qps - 1)

tot_iters == up.iters * up.num_of_qps
U32(n) == n % CreditMod
rposted == (up.rx_depth \div up.recv_post_list) * up.recv_post_list
ctx_credit_cnt == up.rx_depth \div 3

\* After a break the CQs hold error completions for what is unfinished, behind
\* the completions of what is finished.
RecvFlushed(s, q) ==
  conn = "lost" /\ qps[s][q].rcnt = arrived[s][q] /\ arrived[s][q] < qps[s][q].posted
SendFlushed(s, q) == conn = "lost" /\ cq[s][q] = <<>> /\ sq[s][q] # <<>>

-----------------------------------------------------------------------------
(* Posting.                                                                *)

SWindow(s, q) == U32(qps[s][q].scnt + up.post_list - U32(credit_buf[s][q]))

\* Credit writes on their way take room that messages may not use.
Room_MessagesOnly(s, q) == qps[s][q].scnt + up.post_list <= up.tx_depth + qps[s][q].ccnt
Room(s, q) ==
  qps[s][q].scnt + qps[s][q].scredit + up.post_list <= up.tx_depth + qps[s][q].ccnt
CanPost(s, q) ==
  /\ ~ loop[s].before_first_rx
  /\ qps[s][q].scnt < up.iters
  /\ Room(s, q)
  /\ up.send_rcredit = ON => SWindow(s, q) < up.rx_depth

FlagAtPost(p) ==
  p.flag /\ ~ (p.scnt % up.cq_mod = 0 /\ up.cq_mod > 1 /\ p.scnt # up.iters - 1)
FlagAfterPost(p) ==
  \/ FlagAtPost(p)
  \/ (p.scnt + 1) % up.cq_mod = up.cq_mod - 1
  \/ p.scnt + 1 = up.iters - 1

\* One message follows the flag; the messages of a list have the flags
\* ctx_set_send_reg_wqes gave them.
Messages(p) ==
  IF up.post_list = 1
  THEN <<[op |-> "SEND", signaled |-> FlagAtPost(p)]>>
  ELSE [k \in 1..up.post_list |-> [op |-> "SEND", signaled |-> k % up.cq_mod = 0]]

PostSend(s) ==
  LET q == loop[s].index
      p == qps[s][q]
  IN /\ loop[s].pc = "post" /\ q \in QP /\ CanPost(s, q)
     /\ sq' = [sq EXCEPT ![s][q] = @ \o Messages(p)]
     /\ qps' = [qps EXCEPT ![s][q] =
                  [p EXCEPT !.scnt = @ + up.post_list,
                            !.entries = @ + up.post_list,
                            !.flag = IF up.post_list = 1 THEN FlagAfterPost(p) ELSE @]]
     /\ loop' = [loop EXCEPT ![s].totscnt = @ + up.post_list]
     /\ UNCHANGED <<up, cq, free, arrived, credit_buf, conn>>
NextQp(s) ==
  LET q == loop[s].index
  IN /\ loop[s].pc = "post" /\ q \in QP /\ ~ CanPost(s, q)
     /\ loop' = [loop EXCEPT ![s] = IF q + 1 \in QP THEN [@ EXCEPT !.index = q + 1]
                                                    ELSE [@ EXCEPT !.pc = "recv", !.index = 0]]
     /\ UNCHANGED <<up, qps, adapter>>

-----------------------------------------------------------------------------
(* Receiving, and the credits for what was received.                       *)

\* The receives of a run are posted again in lists, up to its length.
Recvd(p) ==
  LET again == p.posted + up.recv_post_list <= up.iters /\ p.unused + 1 >= up.recv_post_list
  IN [p EXCEPT !.rcnt = @ + 1,
               !.unused = @ + 1 - (IF again THEN up.recv_post_list ELSE 0),
               !.posted = @ + (IF again THEN up.recv_post_list ELSE 0)]
CreditDue(p) == up.send_rcredit = ON /\ ((p.rcnt + 1) % up.rx_depth) % ctx_credit_cnt = 0

\* One completion of the batch of ibv_poll_cq; the batch may end with it.
PollRecv(s, q) ==
  LET p == qps[s][q]
      due == CreditDue(p)
  IN /\ loop[s].pc = "recv"
     /\ p.rcnt < arrived[s][q]
     /\ qps' = [qps EXCEPT ![s][q] = [Recvd(p) EXCEPT !.ctrl_buf = IF due THEN p.rcnt + 1 ELSE @]]
     /\ \E next \in {"recv", "send"} :
          loop' = [loop EXCEPT ![s] = [@ EXCEPT !.totrcnt = @ + 1,
                                                !.before_first_rx = FALSE,
                                                !.pc = IF due THEN "credit" ELSE next,
                                                !.credit_qp = IF due THEN q ELSE @,
                                                !.then = IF due THEN next ELSE @]]
     /\ UNCHANGED <<up, adapter>>
PollRecvEmpty(s) ==
  /\ loop[s].pc = "recv"
  /\ \A q \in QP : qps[s][q].rcnt = arrived[s][q] /\ ~ RecvFlushed(s, q)
  /\ loop' = [loop EXCEPT ![s].pc = "send"]
  /\ UNCHANGED <<up, qps, adapter>>

\* A polled completion is of a credit write, or stands for cq_mod messages.
Clamped(p) == IF up.fill_count = ON /\ p.ccnt + up.cq_mod > up.iters THEN up.iters - p.ccnt
                                                                      ELSE up.cq_mod
Took(s, q, fill) ==
  IF Head(cq[s][q]).op = "WRITE" THEN [loop[s] EXCEPT !.tot_scredit = @ - 1]
                                 ELSE [loop[s] EXCEPT !.totccnt = @ + fill]
Take(s, q, fill) ==
  LET c == Head(cq[s][q])
  IN /\ cq[s][q] # <<>>
     /\ cq' = [cq EXCEPT ![s][q] = Tail(@)]
     /\ free' = [free EXCEPT ![s][q] = [entries |-> c.entry, sends |-> c.sends]]
     /\ qps' = [qps EXCEPT ![s][q] = IF c.op = "WRITE" THEN [@ EXCEPT !.scredit = @ - 1]
                                                       ELSE [@ EXCEPT !.ccnt = @ + fill]]
     /\ UNCHANGED <<up, sq, arrived, credit_buf, conn>>

\* A credit that finds the queue full takes completions until there is room.
QueueFull(s, q) == qps[s][q].scnt + qps[s][q].scredit >= up.tx_depth + qps[s][q].ccnt
CreditReap(s, q) ==
  /\ loop[s].pc = "credit" /\ QueueFull(s, loop[s].credit_qp)
  /\ Take(s, q, up.cq_mod)
  /\ loop' = [loop EXCEPT ![s] = Took(s, q, up.cq_mod)]
CreditPost(s) ==
  LET q == loop[s].credit_qp
  IN /\ loop[s].pc = "credit" /\ ~ QueueFull(s, q)
     /\ sq' = [sq EXCEPT ![s][q] = Append(@, [op |-> "WRITE", signaled |-> TRUE])]
     /\ qps' = [qps EXCEPT ![s][q] = [@ EXCEPT !.scredit = @ + 1, !.entries = @ + 1]]
     /\ loop' = [loop EXCEPT ![s] = [@ EXCEPT !.tot_scredit = @ + 1, !.pc = loop[s].then]]
     /\ UNCHANGED <<up, cq, free, arrived, credit_buf, conn>>

-----------------------------------------------------------------------------
(* The send CQ, and the end of the loop.                                   *)

MoreToDo(l) == l.totscnt < tot_iters \/ l.totccnt < tot_iters \/ l.totrcnt < tot_iters
Around_NoClean(l) == [l EXCEPT !.pc = IF MoreToDo(l) THEN "post" ELSE "done"]
Around(l) == [l EXCEPT !.pc = IF MoreToDo(l) THEN "post"
                              ELSE IF up.send_rcredit = ON THEN "clean" ELSE "done"]

PollSend(s, q) ==
  /\ loop[s].pc = "send"
  /\ Take(s, q, Clamped(qps[s][q]))
  /\ loop' \in {[loop EXCEPT ![s] = l] : l \in {Took(s, q, Clamped(qps[s][q])), Around(Took(s, q, Clamped(qps[s][q])))}}
PollSendEmpty(s) ==
  /\ loop[s].pc = "send"
  /\ \A q \in QP : cq[s][q] = <<>> /\ ~ SendFlushed(s, q)
  /\ loop' = [loop EXCEPT ![s] = Around(@)]
  /\ UNCHANGED <<up, qps, adapter>>

\* clean_scq_credit: the completions of credit writes not polled yet.
Clean(s, q) ==
  /\ loop[s].pc = "clean" /\ loop[s].tot_scredit > 0
  /\ cq[s][q] # <<>>
  /\ cq' = [cq EXCEPT ![s][q] = Tail(@)]
  /\ free' = [free EXCEPT ![s][q] = [entries |-> Head(cq[s][q]).entry, sends |-> Head(cq[s][q]).sends]]
  /\ loop' = [loop EXCEPT ![s].tot_scredit = @ - 1]
  /\ UNCHANGED <<up, qps, sq, arrived, credit_buf, conn>>
Cleaned(s) ==
  /\ loop[s].pc = "clean" /\ loop[s].tot_scredit = 0
  /\ loop' = [loop EXCEPT ![s].pc = "done"]
  /\ UNCHANGED <<up, qps, adapter>>

\* A completion with an error status, wherever one is polled.
PollError(s) ==
  /\ \/ loop[s].pc = "recv" /\ \E q \in QP : RecvFlushed(s, q)
     \/ /\ \/ loop[s].pc = "send"
           \/ loop[s].pc = "clean" /\ loop[s].tot_scredit > 0
           \/ loop[s].pc = "credit" /\ QueueFull(s, loop[s].credit_qp)
        /\ \E q \in QP : SendFlushed(s, q)
  /\ loop' = [loop EXCEPT ![s].pc = "failed"]
  /\ UNCHANGED <<up, qps, adapter>>

-----------------------------------------------------------------------------
(* The adapters.                                                           *)

\* The place of the request at the head of the queue, and how many messages
\* have been executed with it.
Entry(s, q) == qps[s][q].entries - Len(sq[s][q]) + 1
Sends(s, q) == qps[s][q].scnt - Len(SelectSeq(Tail(sq[s][q]), LAMBDA w : w.op = "SEND"))
Complete(s, q) ==
  LET w == Head(sq[s][q])
  IN /\ sq' = [sq EXCEPT ![s][q] = Tail(@)]
     /\ cq' = IF w.signaled
              THEN [cq EXCEPT ![s][q] = Append(@, [op |-> IF w.op = "SEND" THEN "SEND" ELSE "WRITE",
                                                   entry |-> Entry(s, q), sends |-> Sends(s, q)])]
              ELSE cq

Deliver(s, q) ==
  /\ conn = "up" /\ sq[s][q] # <<>> /\ Head(sq[s][q]).op = "SEND"
  /\ arrived[Peer(s)][q] < qps[Peer(s)][q].posted
  /\ arrived' = [arrived EXCEPT ![Peer(s)][q] = @ + 1]
  /\ Complete(s, q)
  /\ UNCHANGED <<up, loop, qps, free, credit_buf, conn>>
CreditFetch(s, q) ==
  /\ conn = "up" /\ sq[s][q] # <<>> /\ Head(sq[s][q]).op = "WRITE"
  /\ sq' = [sq EXCEPT ![s][q][1] = [op |-> "WRITING", signaled |-> TRUE, value |-> qps[s][q].ctrl_buf]]
  /\ UNCHANGED <<up, loop, qps, cq, free, arrived, credit_buf, conn>>
CreditPlace(s, q) ==
  /\ conn = "up" /\ sq[s][q] # <<>> /\ Head(sq[s][q]).op = "WRITING"
  /\ credit_buf' = [credit_buf EXCEPT ![Peer(s)][q] = Head(sq[s][q]).value]
  /\ Complete(s, q)
  /\ UNCHANGED <<up, loop, qps, free, arrived, conn>>
Break ==
  /\ up \in Breaking /\ conn = "up"
  /\ conn' = "lost"
  /\ UNCHANGED <<up, loop, qps, sq, cq, free, arrived, credit_buf>>

-----------------------------------------------------------------------------
Each(x) == [s \in Machines |-> [q \in QP |-> x]]
Init ==
  /\ up \in Configs
  /\ loop = [s \in Machines |->
               [pc |-> "post", index |-> 0, totscnt |-> 0, totccnt |-> 0, totrcnt |-> 0,
                before_first_rx |-> (s = SERVER), tot_scredit |-> 0, credit_qp |-> 0, then |-> "recv"]]
  /\ qps = Each([scnt |-> 0, ccnt |-> 0, flag |-> up.cq_mod = 1, entries |-> 0, rcnt |-> 0,
                 unused |-> 0, posted |-> rposted, ctrl_buf |-> 0, scredit |-> 0])
  /\ sq = Each(<<>>)
  /\ cq = Each(<<>>)
  /\ free = Each([entries |-> 0, sends |-> 0])
  /\ arrived = Each(0)
  /\ credit_buf = Each(0)
  /\ conn = "up"

Returned(s) == loop[s].pc \in {"done", "failed"}
run_iter_bi(s) ==
  \/ PostSend(s) \/ NextQp(s) \/ PollRecvEmpty(s) \/ CreditPost(s) \/ PollSendEmpty(s)
  \/ Cleaned(s) \/ PollError(s)
  \/ \E q \in QP : PollRecv(s, q) \/ CreditReap(s, q) \/ PollSend(s, q) \/ Clean(s, q)
Carry(s, q) == Deliver(s, q) \/ CreditFetch(s, q) \/ CreditPlace(s, q)
Next ==
  \/ \E s \in Machines : run_iter_bi(s) \/ \E q \in QP : Carry(s, q)
  \/ Break
  \/ (\A s \in Machines : Returned(s)) /\ UNCHANGED vars

\* Both loops spin and are scheduled, and the adapters execute what they can.
Fairness ==
  /\ \A s \in Machines : WF_vars(run_iter_bi(s))
  /\ WF_vars(\E s \in Machines, q \in QP : Carry(s, q))
Spec == Init /\ [][Next]_vars /\ Fairness

-----------------------------------------------------------------------------
(* Properties.                                                             *)

Even == up.send_rcredit = ON => up.iters % up.cq_mod = 0

\* Messages and credits share a send queue of tx_depth entries, and each side
\* posts receives while the other sends: no queue overflows, and with credits a
\* message at the head of the queue always finds a receive.
NothingOverflows ==
  Even => \A s \in Machines, q \in QP :
    /\ qps[s][q].entries - free[s][q].entries <= up.tx_depth
    /\ qps[s][q].posted - arrived[s][q] <= up.rx_depth
    /\ /\ up.send_rcredit = ON /\ up.recv_post_list = 1
       /\ sq[s][q] # <<>> /\ Head(sq[s][q]).op = "SEND"
       => arrived[Peer(s)][q] < qps[Peer(s)][q].posted

\* A loop that returns leaves nothing that the next size would meet: all its
\* messages have completed, its credits are written, no completion is in the CQ
\* and its count is the true one.  With several queue pairs and credits the
\* completion that ends one of them may be polled in the wait for room, which
\* counts it in full, so only runs of whole moderation intervals are covered.
RunsDry ==
  \A s \in Machines : loop[s].pc = "done" /\ Even =>
    \A q \in QP : /\ free[s][q].sends = up.iters
                  /\ sq[s][q] = <<>> /\ cq[s][q] = <<>>
                  /\ qps[s][q].posted - arrived[s][q] <= IF up.rx_depth > up.iters THEN 1 ELSE 0

\* Neither loop waits for ever for room, a credit, a receive or a completion
\* that was not asked for, and both notice a broken connection.  The exception
\* is a loop that has received all, has nothing in flight and waits for a
\* credit: no completion will tell it, and it spins until check_alive.
Starved(s) ==
  /\ up.send_rcredit = ON /\ loop[s].totrcnt = tot_iters /\ loop[s].totscnt < tot_iters
  /\ \A q \in QP : sq[s][q] = <<>> /\ cq[s][q] = <<>>
=============================================================================
