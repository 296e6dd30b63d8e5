------------------------------ MODULE BwStream ------------------------------
(***************************************************************************)
(* One run of the unidirectional SEND bandwidth test in iterations mode:   *)
(* the client in run_iter_bw, the server in run_iter_bw_server, and the    *)
(* two adapters between them (perftest_resources.c).                       *)
(*                                                                         *)
(*   client    posts up to tx_depth unfinished sends per QP, asks for a    *)
(*             completion every cq_mod sends, and counts cq_mod finished   *)
(*             sends for every completion it polls;                        *)
(*   server    polls receive completions, reposts receives in lists of     *)
(*             recv_post_list and, on iWARP (send_rcredit), writes the     *)
(*             number of messages it has received into the client's        *)
(*             credit_buf with an RDMA WRITE;                              *)
(*   adapters  deliver the sends of a QP in order, one receive WQE each,   *)
(*             acknowledge them in order, and carry the credit writes.     *)
(*             They are external: modelled from how the loops use them.    *)
(*                                                                         *)
(* The connection may break once, with both adapters noticing; what is     *)
(* unfinished then completes with an error status (a peer that just goes   *)
(* silent is the business of check_alive, module Watchdog).                *)
(*                                                                         *)
(* The fields of user_param do not change during a run: the variable up    *)
(* holds them, so that one run of the checker covers many command lines.   *)
(* A definition whose name ends in _ and a word is the one before the _    *)
(* with a slip in it; no action uses it.                                   *)
(***************************************************************************)
EXTENDS Integers, Sequences

CONSTANTS NumQps,      \* num_of_qps
          Configs,     \* what the loops may find in user_param
          CreditMod,   \* 2^32: credit_buf and swindow are uint32_t
          Breaking     \* command lines under which the connection may break

QP == 0..(NumQps - 1)
Pos == Nat \ {0}

OFF == 0
ON  == 1
Switch == {OFF, ON}

Config == [iters : Pos, tx_depth : Pos, rx_depth : Pos, cq_mod : Pos,
           post_list : Pos, recv_post_list : Pos,
           fill_count : Switch, send_rcredit : Switch]

\* What force_dependecies leaves in user_param (BwParams), and what the
\* counters need: a credit window that fits its type.
Moderated(p)   == /\ p.cq_mod <= p.iters
                  /\ p.post_list > 1 => p.post_list % p.cq_mod = 0
                  /\ p.fill_count = OFF => p.iters % p.cq_mod = 0
DepthFits(p)   == p.rx_depth <= p.iters + 1
ListsDivide(p) == /\ \E k \in 0..p.iters : p.iters = k * p.post_list
                  /\ \E k \in 0..p.iters : p.iters = k * p.recv_post_list
WindowFits(p)  == p.rx_depth + p.post_list <= CreditMod

ASSUME NumQpsAssumption == NumQps \in Pos
ASSUME CreditModAssumption == CreditMod \in Pos
ASSUME BreakingAssumption == Breaking \subseteq Configs
ASSUME ConfigsAssumption ==
    /\ Configs \subseteq Config
    /\ \A p \in Configs : Moderated(p) /\ DepthFits(p) /\ ListsDivide(p) /\ WindowFits(p)

VARIABLES
    up,            \* user_param, constant during a run
    \* client: run_iter_bw
    cpc,           \* where the client is in its loop
    index,         \* QP the posting loop is at
    scnt, ccnt,    \* per QP: sends posted, sends counted as finished
    totscnt, totccnt,
    wr_signaled,   \* QPs with IBV_SEND_SIGNALED in wr[index].send_flags
    retired,       \* per QP: sends the polled completions stand for (history)
    \* server: run_iter_bw_server
    spc,           \* where the server is in its loop
    rcnt,          \* messages received on all QPs
    rcnt_for_qp, unused_recv_for_qp, posted_per_qp,
    ctrl_buf,      \* per QP: source buffer of the credit write
    scredit_for_qp, tot_scredit,
    wait_qp,       \* QP whose credit waits for room in the send queue
    send_cnt,      \* completions clean_scq_credit still waits for
    sret,          \* the server's return_value
    \* adapters
    delivered,     \* per QP: sends placed in a receive buffer of the server
    acked,         \* per QP: sends acknowledged to the client's adapter
    signals,       \* per QP: posted, unacknowledged sends that are signaled
    scq,           \* client's send CQ: per QP, the sends it has completions of
    cpend,         \* per QP: credit writes posted and not fetched
    cflight,       \* per QP: values of credit writes on their way
    ccq,           \* server's send CQ: per QP, completed credit writes
    credit_buf,    \* per QP: client memory the credit writes go to
    conn           \* state of the connection

clientVars == <<cpc, index, scnt, ccnt, totscnt, totccnt, wr_signaled, retired>>
serverVars == <<spc, rcnt, rcnt_for_qp, unused_recv_for_qp, posted_per_qp, ctrl_buf,
                scredit_for_qp, tot_scredit, wait_qp, send_cnt, sret>>
sendVars   == <<delivered, acked, signals, scq>>
creditVars == <<cpend, cflight, ccq, credit_buf>>
vars == <<up, clientVars, serverVars, sendVars, creditVars, conn>>

-----------------------------------------------------------------------------
(* Arithmetic of the loops.                                                *)

U32(n) == n % CreditMod
TotIters == up.iters * NumQps

\* Receives posted per QP before the run (ctx_set_recv_wqes).
RPosted == (up.rx_depth \div up.recv_post_list) * up.recv_post_list

\* The server writes a credit every CreditCnt messages (ctx_alloc_credit).
CreditCnt == up.rx_depth \div 3

SWindow_NoList(q) == U32(scnt[q] - U32(credit_buf[q]))
\* Sends the client would have outstanding beyond what the server has
\* reported, were it to post one more list on q.
SWindow(q) == U32((scnt[q] + up.post_list) - U32(credit_buf[q]))

CanPost_OneMore(q) ==
    /\ scnt[q] < up.iters
    /\ scnt[q] < up.tx_depth + ccnt[q] + up.post_list
    /\ up.send_rcredit = ON => SWindow(q) < up.rx_depth

CanPost(q) ==
    /\ scnt[q] < up.iters
    /\ scnt[q] + up.post_list <= up.tx_depth + ccnt[q]
    /\ up.send_rcredit = ON => SWindow(q) < up.rx_depth

-----------------------------------------------------------------------------
(* Client: run_iter_bw.                                                    *)

MoreToDo_Posting == totscnt < TotIters

MoreToDo == totscnt < TotIters \/ totccnt < TotIters

ClientTop ==
    /\ cpc = "top"
    /\ IF MoreToDo
       THEN cpc' = "post" /\ index' = 0
       ELSE cpc' = "done" /\ index' = index
    /\ UNCHANGED <<up, scnt, ccnt, totscnt, totccnt, wr_signaled, retired,
                   serverVars, sendVars, creditVars, conn>>

\* The flag as the posted WQE carries it: the first send after a completion
\* boundary drops it, unless it is also the last send of the run.
FlagAtPost(q) ==
    IF scnt[q] % up.cq_mod = 0 /\ up.cq_mod > 1 /\ scnt[q] # up.iters - 1
    THEN FALSE
    ELSE q \in wr_signaled

\* The sends of a list that ask for a completion: one WQE follows its flag,
\* a list has the flags ctx_set_send_reg_wqes gave its WQEs.
Signaled(q) ==
    IF up.post_list = 1
    THEN {k \in {scnt[q]} : FlagAtPost(q)}
    ELSE {k \in scnt[q]..(scnt[q] + up.post_list - 1) :
              (k - scnt[q] + 1) % up.cq_mod = 0}

FlagAfterPost_LastForgotten(q) ==
    IF up.post_list = 1
    THEN (scnt[q] + 1) % up.cq_mod = up.cq_mod - 1 \/ FlagAtPost(q)
    ELSE q \in wr_signaled

FlagAfterPost(q) ==
    IF up.post_list = 1
    THEN \/ (scnt[q] + 1) % up.cq_mod = up.cq_mod - 1
         \/ scnt[q] + 1 = up.iters - 1
         \/ FlagAtPost(q)
    ELSE q \in wr_signaled

ClientPost ==
    /\ cpc = "post"
    /\ index \in QP
    /\ CanPost(index)
    /\ scnt' = [scnt EXCEPT ![index] = @ + up.post_list]
    /\ totscnt' = totscnt + up.post_list
    /\ signals' = [signals EXCEPT ![index] = @ \cup Signaled(index)]
    /\ wr_signaled' = IF FlagAfterPost(index) THEN wr_signaled \cup {index}
                                              ELSE wr_signaled \ {index}
    /\ UNCHANGED <<up, cpc, index, ccnt, totccnt, retired, serverVars,
                   delivered, acked, scq, creditVars, conn>>

ClientNextQp ==
    /\ cpc = "post"
    /\ index \in QP
    /\ ~CanPost(index)
    /\ IF index + 1 \in QP
       THEN index' = index + 1 /\ cpc' = cpc
       ELSE index' = index /\ cpc' = IF totccnt < TotIters THEN "poll" ELSE "top"
    /\ UNCHANGED <<up, scnt, ccnt, totscnt, totccnt, wr_signaled, retired,
                   serverVars, sendVars, creditVars, conn>>

Fill_NotClamped(q) == up.cq_mod

\* Finished sends one completion stands for.
Fill(q) == IF up.fill_count = ON /\ ccnt[q] + up.cq_mod > up.iters
           THEN up.iters - ccnt[q]
           ELSE up.cq_mod

\* One work completion of the batch ibv_poll_cq returned; the batch may end
\* with it.
ClientPoll(q) ==
    /\ cpc = "poll"
    /\ scq[q] # <<>>
    /\ scq' = [scq EXCEPT ![q] = Tail(@)]
    /\ retired' = [retired EXCEPT ![q] = Head(scq[q]) + 1]
    /\ ccnt' = [ccnt EXCEPT ![q] = @ + Fill(q)]
    /\ totccnt' = totccnt + Fill(q)
    /\ cpc' \in {"poll", "top"}
    /\ UNCHANGED <<up, index, scnt, totscnt, wr_signaled, serverVars,
                   delivered, acked, signals, creditVars, conn>>

\* Nothing (more) to poll: ne is 0, or the batch is used up.
ClientPollEmpty ==
    /\ cpc = "poll"
    /\ \A q \in QP : scq[q] = <<>>
    /\ cpc' = "top"
    /\ UNCHANGED <<up, index, scnt, ccnt, totscnt, totccnt, wr_signaled, retired,
                   serverVars, sendVars, creditVars, conn>>


\* A completion with an error status: goto cleaning with FAILURE.
ClientPollError(q) ==
    /\ cpc = "poll"
    /\ conn = "lost"
    /\ scq[q] = <<>>
    /\ acked[q] < scnt[q]
    /\ cpc' = "failed"
    /\ UNCHANGED <<up, index, scnt, ccnt, totscnt, totccnt, wr_signaled, retired,
                   serverVars, sendVars, creditVars, conn>>

-----------------------------------------------------------------------------
(* Server: run_iter_bw_server.                                             *)

Reposts(q) == /\ posted_per_qp[q] + up.recv_post_list <= up.iters
              /\ unused_recv_for_qp[q] + 1 >= up.recv_post_list

CreditDue(q) == /\ up.send_rcredit = ON
                /\ ((rcnt_for_qp[q] + 1) % up.rx_depth) % CreditCnt = 0

\* What the credit reports: the messages received on the QP.
CreditValue(q) == rcnt_for_qp[q] + 1

PostCredit(q) ==
    /\ cpend' = [cpend EXCEPT ![q] = @ + 1]
    /\ scredit_for_qp' = [scredit_for_qp EXCEPT ![q] = @ + 1]
    /\ tot_scredit' = tot_scredit + 1

\* One receive completion: count it, repost a list of receives when one is
\* free and still needed, and report the count to the client when a credit
\* is due; a full send queue holds the server in ServerCreditReap.
ServerPoll(q) ==
    /\ spc = "poll"
    /\ rcnt_for_qp[q] < delivered[q]
    /\ rcnt_for_qp' = [rcnt_for_qp EXCEPT ![q] = @ + 1]
    /\ rcnt' = rcnt + 1
    /\ IF Reposts(q)
       THEN /\ posted_per_qp' = [posted_per_qp EXCEPT ![q] = @ + up.recv_post_list]
            /\ unused_recv_for_qp' =
                  [unused_recv_for_qp EXCEPT ![q] = @ + 1 - up.recv_post_list]
       ELSE /\ unused_recv_for_qp' = [unused_recv_for_qp EXCEPT ![q] = @ + 1]
            /\ posted_per_qp' = posted_per_qp
    /\ IF CreditDue(q)
       THEN /\ ctrl_buf' = [ctrl_buf EXCEPT ![q] = CreditValue(q)]
            /\ IF scredit_for_qp[q] = up.tx_depth
               THEN /\ spc' = "credit"
                    /\ wait_qp' = q
                    /\ UNCHANGED <<cpend, scredit_for_qp, tot_scredit>>
               ELSE PostCredit(q) /\ UNCHANGED <<spc, wait_qp>>
       ELSE UNCHANGED <<ctrl_buf, spc, wait_qp, cpend, scredit_for_qp, tot_scredit>>
    /\ UNCHANGED <<up, clientVars, send_cnt, sret, sendVars, cflight, ccq,
                   credit_buf, conn>>

\* A completion of a credit write of q takes one from the count of r.
Reap(q, r) ==
    /\ spc = "credit"
    /\ ccq[q] > 0
    /\ ccq' = [ccq EXCEPT ![q] = @ - 1]
    /\ scredit_for_qp' = [scredit_for_qp EXCEPT ![r] = @ - 1]
    /\ tot_scredit' = tot_scredit - 1
    /\ UNCHANGED <<up, clientVars, spc, rcnt, rcnt_for_qp, unused_recv_for_qp,
                   posted_per_qp, ctrl_buf, wait_qp, send_cnt, sret, sendVars,
                   cpend, cflight, credit_buf, conn>>

\* The wait for room in the send queue takes completions of any QP.
ServerCreditReap(q) == Reap(q, q)

ServerCreditPost ==
    /\ spc = "credit"
    /\ scredit_for_qp[wait_qp] < up.tx_depth
    /\ PostCredit(wait_qp)
    /\ spc' = "poll"
    /\ UNCHANGED <<up, clientVars, rcnt, rcnt_for_qp, unused_recv_for_qp,
                   posted_per_qp, ctrl_buf, wait_qp, send_cnt, sret, sendVars,
                   cflight, ccq, credit_buf, conn>>

GoCleaning_NoWait(ret) ==
    /\ sret' = ret
    /\ send_cnt' = 0
    /\ spc' = "clean"

\* The cleaning label: clean_scq_credit waits for the credit writes the
\* loop has not seen complete.
GoCleaning(ret) ==
    /\ sret' = ret
    /\ send_cnt' = IF up.send_rcredit = ON THEN tot_scredit ELSE 0
    /\ spc' = "clean"

\* The receive CQ is empty and the messages of all QPs are counted.
ServerLoopExit ==
    /\ spc = "poll"
    /\ \A q \in QP : rcnt_for_qp[q] = delivered[q]
    /\ rcnt >= TotIters
    /\ GoCleaning("SUCCESS")
    /\ UNCHANGED <<up, clientVars, rcnt, rcnt_for_qp, unused_recv_for_qp,
                   posted_per_qp, ctrl_buf, scredit_for_qp, tot_scredit, wait_qp,
                   sendVars, creditVars, conn>>

\* An error completion on the receive CQ, or on the send CQ while the
\* server waits for room: both leave through cleaning.
ServerPollError(q) ==
    /\ conn = "lost"
    /\ \/ /\ spc = "poll"
          /\ rcnt_for_qp[q] = delivered[q]
          /\ delivered[q] < posted_per_qp[q]
       \/ /\ spc = "credit"
          /\ ccq[q] = 0
          /\ cpend[q] + Len(cflight[q]) > 0
    /\ GoCleaning("FAILURE")
    /\ UNCHANGED <<up, clientVars, rcnt, rcnt_for_qp, unused_recv_for_qp,
                   posted_per_qp, ctrl_buf, scredit_for_qp, tot_scredit, wait_qp,
                   sendVars, creditVars, conn>>

ServerClean(q) ==
    /\ spc = "clean"
    /\ send_cnt > 0
    /\ ccq[q] > 0
    /\ ccq' = [ccq EXCEPT ![q] = @ - 1]
    /\ send_cnt' = send_cnt - 1
    /\ UNCHANGED <<up, clientVars, spc, rcnt, rcnt_for_qp, unused_recv_for_qp,
                   posted_per_qp, ctrl_buf, scredit_for_qp, tot_scredit, wait_qp,
                   sret, sendVars, cpend, cflight, credit_buf, conn>>

ServerCleanError(q) ==
    /\ spc = "clean"
    /\ send_cnt > 0
    /\ conn = "lost"
    /\ ccq[q] = 0
    /\ cpend[q] + Len(cflight[q]) > 0
    /\ spc' = "failed"
    /\ sret' = "FAILURE"
    /\ UNCHANGED <<up, clientVars, rcnt, rcnt_for_qp, unused_recv_for_qp,
                   posted_per_qp, ctrl_buf, scredit_for_qp, tot_scredit, wait_qp,
                   send_cnt, sendVars, creditVars, conn>>

ServerReturn ==
    /\ spc = "clean"
    /\ send_cnt = 0
    /\ spc' = IF sret = "SUCCESS" THEN "done" ELSE "failed"
    /\ UNCHANGED <<up, clientVars, rcnt, rcnt_for_qp, unused_recv_for_qp,
                   posted_per_qp, ctrl_buf, scredit_for_qp, tot_scredit, wait_qp,
                   send_cnt, sret, sendVars, creditVars, conn>>

-----------------------------------------------------------------------------
(* Adapters.                                                               *)

\* The next send of q takes a receive WQE; without one it waits.
Deliver(q) ==
    /\ conn = "up"
    /\ delivered[q] < scnt[q]
    /\ delivered[q] < posted_per_qp[q]
    /\ delivered' = [delivered EXCEPT ![q] = @ + 1]
    /\ UNCHANGED <<up, clientVars, serverVars, acked, signals, scq, creditVars, conn>>

\* The acknowledgement of a signaled send puts a completion in the send CQ.
Ack(q) ==
    /\ conn = "up"
    /\ acked[q] < delivered[q]
    /\ acked' = [acked EXCEPT ![q] = @ + 1]
    /\ signals' = [signals EXCEPT ![q] = @ \ {acked[q]}]
    /\ scq' = IF acked[q] \in signals[q]
              THEN [scq EXCEPT ![q] = Append(@, acked[q])]
              ELSE scq
    /\ UNCHANGED <<up, clientVars, serverVars, delivered, creditVars, conn>>

\* The adapter reads ctrl_buf when it starts the write, not when the write
\* was posted.
CreditFetch(q) ==
    /\ conn = "up"
    /\ cpend[q] > 0
    /\ cpend' = [cpend EXCEPT ![q] = @ - 1]
    /\ cflight' = [cflight EXCEPT ![q] = Append(@, ctrl_buf[q])]
    /\ UNCHANGED <<up, clientVars, serverVars, sendVars, ccq, credit_buf, conn>>

CreditPlace(q) ==
    /\ conn = "up"
    /\ cflight[q] # <<>>
    /\ credit_buf' = [credit_buf EXCEPT ![q] = Head(cflight[q])]
    /\ cflight' = [cflight EXCEPT ![q] = Tail(@)]
    /\ ccq' = [ccq EXCEPT ![q] = @ + 1]
    /\ UNCHANGED <<up, clientVars, serverVars, sendVars, cpend, conn>>

Break ==
    /\ up \in Breaking
    /\ conn = "up"
    /\ conn' = "lost"
    /\ UNCHANGED <<up, clientVars, serverVars, sendVars, creditVars>>

-----------------------------------------------------------------------------

Init ==
    /\ up \in Configs
    /\ cpc = "top"
    /\ index = 0
    /\ scnt = [q \in QP |-> 0]
    /\ ccnt = [q \in QP |-> 0]
    /\ totscnt = 0
    /\ totccnt = 0
    /\ wr_signaled = {q \in QP : up.cq_mod = 1}
    /\ retired = [q \in QP |-> 0]
    /\ spc = "poll"
    /\ rcnt = 0
    /\ rcnt_for_qp = [q \in QP |-> 0]
    /\ unused_recv_for_qp = [q \in QP |-> 0]
    /\ posted_per_qp = [q \in QP |-> RPosted]
    /\ ctrl_buf = [q \in QP |-> 0]
    /\ scredit_for_qp = [q \in QP |-> 0]
    /\ tot_scredit = 0
    /\ wait_qp = 0
    /\ send_cnt = 0
    /\ sret = "SUCCESS"
    /\ delivered = [q \in QP |-> 0]
    /\ acked = [q \in QP |-> 0]
    /\ signals = [q \in QP |-> {}]
    /\ scq = [q \in QP |-> <<>>]
    /\ cpend = [q \in QP |-> 0]
    /\ cflight = [q \in QP |-> <<>>]
    /\ ccq = [q \in QP |-> 0]
    /\ credit_buf = [q \in QP |-> 0]
    /\ conn = "up"

ClientPolls == ClientPollEmpty \/ \E q \in QP : ClientPoll(q) \/ ClientPollError(q)
Client == ClientTop \/ ClientPost \/ ClientNextQp \/ ClientPolls

ServerWaits == ServerCreditPost \/ \E q \in QP : ServerCreditReap(q)
ServerEnds  == ServerReturn \/ \E q \in QP : ServerClean(q) \/ ServerCleanError(q)
Server == \/ ServerLoopExit \/ ServerWaits \/ ServerEnds
          \/ \E q \in QP : ServerPoll(q) \/ ServerPollError(q)

Carry(q) == Deliver(q) \/ Ack(q) \/ CreditFetch(q) \/ CreditPlace(q)
Adapters == \E q \in QP : Carry(q)

\* Both processes have returned.
Returned == /\ cpc \in {"done", "failed"}
            /\ spc \in {"done", "failed"}
            /\ UNCHANGED vars

Next == Client \/ Server \/ Adapters \/ Break \/ Returned

Spec == Init /\ [][Next]_vars

(***************************************************************************)
(* Both processes spin in their loops and are scheduled; an adapter with   *)
(* work on a QP gets to it.  After a break the client's adapter completes  *)
(* what is posted with an error (a flush, or the end of its retries), so   *)
(* the polls do not come back empty forever.  Nothing makes the connection *)
(* break.                                                                  *)
(***************************************************************************)
Fairness == /\ WF_vars(Client)
            /\ WF_vars(Server)
            /\ \A q \in QP : /\ SF_vars(ClientPollError(q))
                             /\ WF_vars(Deliver(q)) /\ WF_vars(Ack(q))
                             /\ WF_vars(CreditFetch(q)) /\ WF_vars(CreditPlace(q))

FairSpec == Spec /\ Fairness

-----------------------------------------------------------------------------
(* Properties.                                                             *)

ClientType ==
    /\ cpc \in {"top", "post", "poll", "done", "failed"}
    /\ index \in QP
    /\ scnt \in [QP -> Nat]
    /\ ccnt \in [QP -> Int]
    /\ totscnt \in Nat
    /\ totccnt \in Int
    /\ wr_signaled \subseteq QP
    /\ retired \in [QP -> Nat]

ServerType ==
    /\ spc \in {"poll", "credit", "clean", "done", "failed"}
    /\ rcnt \in Nat
    /\ rcnt_for_qp \in [QP -> Nat]
    /\ unused_recv_for_qp \in [QP -> Nat]
    /\ posted_per_qp \in [QP -> Nat]
    /\ ctrl_buf \in [QP -> Nat]
    /\ scredit_for_qp \in [QP -> Int]
    /\ tot_scredit \in Int
    /\ wait_qp \in QP
    /\ send_cnt \in Int
    /\ sret \in {"SUCCESS", "FAILURE"}

SendType ==
    /\ delivered \in [QP -> Nat]
    /\ acked \in [QP -> Nat]
    /\ signals \in [QP -> SUBSET Nat]
    /\ scq \in [QP -> Seq(Nat)]

CreditType ==
    /\ cpend \in [QP -> Nat]
    /\ cflight \in [QP -> Seq(Nat)]
    /\ ccq \in [QP -> Nat]
    /\ credit_buf \in [QP -> Nat]

\* The type of every variable; a counter the loops only add to, and one that
\* is only taken from when it is not empty, is a natural number.
TypeOK ==
    /\ up \in Configs
    /\ conn \in {"up", "lost"}
    /\ ClientType
    /\ ServerType
    /\ SendType
    /\ CreditType

\* The purpose of the credits: with them, a message on the wire always finds
\* a receive WQE of its QP posted (an iWARP peer would drop the connection).
ArrivalHasBuffer ==
    up.send_rcredit = ON =>
        \A q \in QP : delivered[q] < scnt[q] => delivered[q] < posted_per_qp[q]

\* Receives posted one by one wherever credits are used: the case in which
\* ArrivalHasBuffer holds (a list of receives is reported before it is
\* posted, see the run list_credits).
SingleReceives == \A p \in Configs : p.send_rcredit = ON => p.recv_post_list = 1

\* What makes ArrivalHasBuffer inductive.  Messages are received, delivered
\* and posted in that order, and posted in whole lists that end at iters;
\* the credits rise on their way from the server's count to the client's
\* memory; the client stays within rx_depth of the credit it has, and the
\* server keeps rx_depth receives ahead of its count until all are posted.
InOrder ==
    \A q \in QP : /\ rcnt_for_qp[q] <= delivered[q]
                  /\ delivered[q] <= scnt[q]
                  /\ \E k \in 0..up.iters : up.iters = scnt[q] + k * up.post_list

CreditsRise ==
    \A q \in QP :
        /\ credit_buf[q] <= ctrl_buf[q] /\ ctrl_buf[q] <= rcnt_for_qp[q]
        /\ \A i \in 1..Len(cflight[q]) :
               /\ credit_buf[q] <= cflight[q][i] /\ cflight[q][i] <= ctrl_buf[q]
               /\ \A j \in 1..Len(cflight[q]) : i < j => cflight[q][i] <= cflight[q][j]

WindowKept == \A q \in QP : scnt[q] < credit_buf[q] + up.rx_depth

ReceivesAhead ==
    \A q \in QP : \/ posted_per_qp[q] >= up.iters
                  \/ posted_per_qp[q] >= up.rx_depth + rcnt_for_qp[q]

CreditInv ==
    /\ InOrder
    /\ CreditsRise
    /\ up.send_rcredit = ON => WindowKept /\ ReceivesAhead

\* ccnt counts exactly the sends that the polled completions stand for,
\* whatever cq_mod, post_list and the length of the run are: the flags set
\* around the post and the fill of the poll agree.
CountsWhatCompleted == \A q \in QP : ccnt[q] = retired[q]

\* No queue overflows: neither the client's send queue, of tx_depth entries
\* (an entry is free again when a completion of it or of a later send has
\* been polled), nor the receive queue, of rx_depth entries, nor the server's
\* send queue, which holds its credit writes.
QueuesFit ==
    \A q \in QP : /\ scnt[q] - retired[q] <= up.tx_depth
                  /\ posted_per_qp[q] - delivered[q] <= up.rx_depth
                  /\ cpend[q] + Len(cflight[q]) + ccq[q] <= up.tx_depth

\* The client stops its clock only after every message of the run has been
\* delivered and acknowledged.
ClockStopsAfterLast ==
    cpc = "done" => \A q \in QP : scnt[q] = up.iters /\ acked[q] = up.iters

\* When the server's loop returns SUCCESS nothing of this size is left for
\* the next one: every credit write has completed and been polled, so that
\* none reaches the client's memory later and the send CQ is empty, and no
\* receive is posted beyond the one rx_depth was rounded up by.
NothingOutlivesRun ==
    spc = "done" => \A q \in QP :
        /\ cpend[q] = 0 /\ cflight[q] = <<>> /\ ccq[q] = 0
        /\ posted_per_qp[q] - delivered[q] <= IF up.rx_depth > up.iters THEN 1 ELSE 0

\* What makes the four inductive.  A completion stands for the sends up to a
\* boundary: a multiple of cq_mod, or the end of the run.  The client has
\* counted up to one; the adapter holds a flag for exactly the others that
\* are posted and not acknowledged, and the send CQ an entry for exactly
\* those that are acknowledged and not counted, in order.
Boundary(k) == k % up.cq_mod = 0 \/ k = up.iters

Marked(q) ==
    /\ signals[q] = {k \in acked[q]..(scnt[q] - 1) : Boundary(k + 1)}
    /\ up.post_list = 1 /\ scnt[q] < up.iters => (FlagAtPost(q) <=> Boundary(scnt[q] + 1))

Queued(q) ==
    /\ \A i \in 1..Len(scq[q]) : scq[q][i] \in ccnt[q]..(acked[q] - 1) /\ Boundary(scq[q][i] + 1)
    /\ \A i, j \in 1..Len(scq[q]) : i < j => scq[q][i] < scq[q][j]
    /\ \A k \in ccnt[q]..(acked[q] - 1) :
           Boundary(k + 1) => \E i \in 1..Len(scq[q]) : scq[q][i] = k

Counted(q) ==
    /\ ccnt[q] = retired[q] /\ Boundary(ccnt[q])
    /\ ccnt[q] <= acked[q] /\ acked[q] <= delivered[q]
    /\ scnt[q] <= up.tx_depth + ccnt[q]

\* The receives posted again are those used, and the credit writes under way
\* are those the loop has counted; clean_scq_credit no longer counts them.
Supplied(q) ==
    /\ posted_per_qp[q] + unused_recv_for_qp[q] = RPosted + rcnt_for_qp[q]
    /\ posted_per_qp[q] <= IF up.rx_depth > up.iters THEN up.rx_depth ELSE up.iters

CreditsOut(q) == cpend[q] + Len(cflight[q]) + ccq[q]

Written(q) ==
    /\ scredit_for_qp[q] <= up.tx_depth
    /\ IF spc \in {"poll", "credit"} THEN CreditsOut(q) = scredit_for_qp[q]
                                      ELSE CreditsOut(q) <= scredit_for_qp[q]
    /\ up.send_rcredit = OFF => CreditsOut(q) = 0

\* tot is the sum of what f gives the QPs: some sequence of partial sums,
\* none negative, leads from 0 to tot.
SumsTo(f, tot) ==
    \E s \in [0..NumQps -> 0..tot] :
        /\ s[0] = 0 /\ s[NumQps] = tot
        /\ \A q \in QP : s[q + 1] = s[q] + f[q]
        /\ \A i, j \in 0..NumQps : i <= j => s[i] <= s[j]

Totals ==
    /\ SumsTo([q \in QP |-> up.iters - ccnt[q]], TotIters - totccnt)
    /\ SumsTo([q \in QP |-> up.iters - rcnt_for_qp[q]], TotIters - rcnt)
    /\ SumsTo(scredit_for_qp, tot_scredit)
    /\ spc \in {"clean", "done"} => SumsTo([q \in QP |-> CreditsOut(q)], send_cnt)

Ends ==
    /\ cpc = "done" => totccnt >= TotIters
    /\ spc \in {"clean", "done"} /\ sret = "SUCCESS" => rcnt >= TotIters
    /\ spc = "done" => sret = "SUCCESS" /\ send_cnt = 0
    /\ spc = "credit" => up.send_rcredit = ON

StreamInv ==
    /\ TypeOK /\ InOrder /\ Totals /\ Ends
    /\ \A q \in QP : Marked(q) /\ Queued(q) /\ Counted(q) /\ Supplied(q) /\ Written(q)

\* Every run over an intact connection ends with both sides successful: no
\* wait for an unsignaled send, for a credit or for a receive lasts forever.
Termination == <>((cpc = "done" /\ spc = "done") \/ conn = "lost")

=============================================================================
