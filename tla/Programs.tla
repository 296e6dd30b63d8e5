------------------------------ MODULE Programs ------------------------------
(***************************************************************************)
(* Two processes of the same test, a server and a client, executing their  *)
(* main() step by step: what each holds, what has been freed, what travels *)
(* on the connection between them, and how each of them ends.  Any call    *)
(* that the source checks may fail, at most MaxFaults times in a run.      *)
(*                                                                         *)
(* A step that only touches its own process (acquiring, freeing, testing a *)
(* flag) commutes with every step of the other side, so such steps are     *)
(* taken first, the server's before the client's; the steps the other side *)
(* can see interleave freely.                                              *)
(***************************************************************************)
EXTENDS RawEthTests, FiniteSets, TLC

CONSTANTS Configs,      \* the command lines: records of Context, machine open
          MaxFaults     \* how many calls may fail in one run

VARIABLES up,           \* the command line both sides were started with
          text,         \* the program of each side, its labels resolved
          pc,           \* the next step of each side
          held, stale,  \* live resources; pointers to something already freed
          flags,        \* test_result, rdma_cm_flow_destroyed, ...
          chan,         \* what is on its way to each side
          ran, fin, posted, \* rounds entered, finished, with receives posted
          rc,           \* how each side ended, "none" while it runs
          bad,          \* what went wrong in the use of resources and messages
          faults        \* calls that failed so far

vars == <<up, pc, held, stale, flags, chan, ran, fin, posted, rc, bad, faults, text>>
Sides == {"SERVER", "CLIENT"}
Peer(s) == IF s = "SERVER" THEN "CLIENT" ELSE "SERVER"

Program(c) ==
    CASE c.prog = "read_bw"    -> ReadBw(c)   [] c.prog = "atomic_bw"  -> AtomicBw(c)
      [] c.prog = "write_bw"   -> WriteBw(c)  [] c.prog = "send_bw"    -> SendBw(c)
      [] c.prog = "read_lat"   -> ReadLat(c)  [] c.prog = "atomic_lat" -> AtomicLat(c)
      [] c.prog = "write_lat"  -> WriteLat(c) [] c.prog = "send_lat"   -> SendLat(c)
      [] c.prog = "raw_bw"     -> RawBw(c)    [] c.prog = "raw_lat"    -> RawLat(c)
      [] c.prog = "burst_lat"  -> BurstLat(c)
      [] c.prog = "fs_rate"    -> IF Server(c) THEN FsRate(c) ELSE Ret("0")

\* Functions that are called from many places are called by name; their steps
\* are put in here.
Body(f, a) ==
    CASE f = "alloc_ctx"       -> alloc_ctx(a[1], a[2], a[3])
      [] f = "dealloc_ctx"     -> dealloc_ctx(a[1], a[2])
      [] f = "ctx_init"        -> ctx_init(a[1], a[2], a[3])
      [] f = "destroy_ctx"     -> destroy_ctx(a[1], a[2])
      [] f = "xchg_bw_reports" -> xchg_bw_reports(a[1])
      [] f = "MeetPeer"        -> MeetPeer(a[1], a[2])
      [] f = "MakeContext"     -> MakeContext(a[1])
      [] f = "LeaveMain"       -> LeaveMain(a[1], a[2], a[3], a[4])
      [] f = "Labels"          -> Labels(a[1], a[2])
RECURSIVE Linked(_)
Linked(P) ==
    LET calls == {i \in DOMAIN P : P[i].op = "do"}
        i     == CHOOSE j \in calls : TRUE
    IN IF calls = {} THEN P
       ELSE Linked(SubSeq(P, 1, i - 1)) \o Linked(Body(P[i].arg, P[i].rs))
            \o Linked(SubSeq(P, i + 1, Len(P)))

\* The program with its labels resolved: where each step leads when it
\* succeeds and when it fails (0: it cannot, or nobody looks).
Compiled(c) ==
    LET P == Linked(Program(c))
        Place(l) == CHOOSE i \in DOMAIN P : P[i].op = "at" /\ P[i].to = l
        land[i \in DOMAIN P] ==
            CASE P[i].op = "at"   -> land[i + 1]
              [] P[i].op = "goto" -> land[Place(P[i].to)]
              [] OTHER            -> i
    IN [start |-> land[1],
        code  |-> SubSeq([i \in DOMAIN P |->    \* SubSeq: TLC computes it once
                     [op |-> P[i].op, rs |-> P[i].rs, arg |-> P[i].arg,
                      next |-> IF i = Len(P) THEN i ELSE land[i + 1],
                      fail |-> IF P[i].to \in {Nowhere, Noted} \/ P[i].op \in {"at", "goto"}
                               THEN 0 ELSE land[Place(P[i].to)],
                      noted |-> P[i].to = Noted]], 1, Len(P))]
Init ==
    /\ up \in Configs
    /\ text = [s \in Sides |-> Compiled([up EXCEPT !.machine = s])]
    /\ pc = [s \in Sides |-> text[s].start]
    /\ held = [s \in Sides |-> {}] /\ stale = held /\ flags = held /\ bad = held
    /\ chan = [s \in Sides |-> <<>>]
    /\ ran = [s \in Sides |-> 0] /\ fin = ran /\ posted = ran
    /\ rc = [s \in Sides |-> "none"]
    /\ faults = 0

-----------------------------------------------------------------------------
Here(s)  == text[s].code[pc[s]]
Live(s)  == rc[s] = "none"
QpOf(k)  == Qp("ctx", "0") \cup IF k.qps = 2 THEN Qp("ctx", "1") ELSE {}
Local(s) ==
    /\ Live(s)
    /\ Here(s).op \in {"get", "free", "use", "set", "clear", "if", "undo", "put", "putif"}
    /\ Here(s).rs \cap QpOf(up) = {}
Turn(s, op) ==
    /\ Live(s) /\ Here(s).op = op
    /\ IF Local("SERVER") THEN s = "SERVER" ELSE Local("CLIENT") => s = "CLIENT"

Go(s, i) == pc' = [pc EXCEPT ![s] = i]
Advance(s) == Go(s, Here(s).next)
Fault    == faults < MaxFaults /\ faults' = faults + 1
Quiet    == UNCHANGED <<up, text, faults>>
Flag(s, f) == flags' = [flags EXCEPT ![s] = @ \cup {f}]
\* A NULL or freed pointer was used: the process is gone.
Crash(s, rs) ==
    /\ bad' = [bad EXCEPT ![s] = @ \cup rs] /\ rc' = [rc EXCEPT ![s] = "crash"]
    /\ Quiet /\ UNCHANGED <<pc, held, stale, flags, chan, ran, fin, posted>>

-----------------------------------------------------------------------------
(* Resources.                                                               *)

Alone == UNCHANGED <<chan, ran, fin, posted, rc>>

Acquire(s) ==
    /\ Turn(s, "get")
    /\ held'  = [held EXCEPT ![s] = @ \cup Here(s).rs]
    /\ stale' = [stale EXCEPT ![s] = @ \ Here(s).rs]
    /\ Advance(s) /\ Quiet /\ Alone /\ UNCHANGED <<flags, bad>>

AcquireFails(s) ==
    /\ Turn(s, "get") /\ Here(s).fail # 0 /\ Fault
    /\ Go(s, Here(s).fail)
    /\ Alone /\ UNCHANGED <<up, text, held, stale, flags, bad>>

\* The pointers of what is given back, afterwards.
Given(s, rs) ==
    /\ held'  = [held EXCEPT ![s] = @ \ rs]
    /\ stale' = [stale EXCEPT ![s] = IF Here(s).arg = "stale" THEN @ \cup rs ELSE @]

FreeMemory(s) ==
    /\ Turn(s, "free")
    /\ LET twice == Here(s).rs \cap stale[s]
       IN IF twice # {} THEN Crash(s, twice)
          ELSE /\ Given(s, Here(s).rs \cap held[s])
               /\ Advance(s) /\ Quiet /\ Alone /\ UNCHANGED <<flags, bad>>

\* Objects that hold a reference to r: destroying r first is refused.
Users(r) ==
    LET o == r[1]
        qps == Qp(o, "0") \cup Qp(o, "1")
    IN CASE r[2] \in {"ibv_send_cq", "ibv_recv_cq"} -> qps
         [] r[2] = "ibv_srq"  -> qps
         [] r[2] = "ibv_xrcd" -> qps \cup Own(o, {"ibv_srq"})
         [] r[2] \in {"ibv_send_channel"} -> Own(o, {"ibv_send_cq"})
         [] r[2] \in {"ibv_recv_channel"} -> Own(o, {"ibv_recv_cq"})
         [] r[2] = "ibv_pd"   -> qps \cup Own(o, {"ibv_srq", "ibv_pad", "ibv_credit_mr"})
                                 \cup Mr(o, "0") \cup Mr(o, "1")
                                 \cup {<<o, "ibv_ah", "0">>, <<o, "ibv_ah", "1">>}
         [] r[2] = "ibv_td"   -> Own(o, {"ibv_pad"})
         [] r[2] = "ibv_qp"   -> IF o = "ctx" THEN Flow("0") \cup Flow("1") \cup Promisc
                                                   \cup Sniffer \cup Attached ELSE {}
         [] r[2] = "buffer"   -> {<<o, "ibv_mr", r[3]>>}
         [] r[2] = "cm_channel" -> CmaId(o, "0") \cup CmaId(o, "1")
         [] OTHER -> {}
Busy(s, rs) == {r \in rs : Users(r) \cap (held[s] \ rs) # {}}
\* What happens to an error code, and where the step leads then.
Complain(s) ==
    /\ flags' = IF Here(s).noted THEN [flags EXCEPT ![s] = @ \cup {"test_result"}] ELSE flags
    /\ Go(s, IF Here(s).fail = 0 THEN Here(s).next ELSE Here(s).fail)

Destroy(s) ==
    /\ Turn(s, "put") \/ Turn(s, "putif")
    /\ LET live  == Here(s).rs \cap held[s]
           wrong == IF Here(s).op = "put" THEN Here(s).rs \ held[s]
                    ELSE Here(s).rs \cap stale[s]
       IN IF wrong # {} THEN Crash(s, wrong)
          ELSE /\ Quiet /\ Alone
               /\ IF Busy(s, live) # {}
                  THEN /\ bad' = [bad EXCEPT ![s] = @ \cup Busy(s, live)]
                       /\ Complain(s) /\ UNCHANGED <<held, stale>>
                  ELSE Given(s, live) /\ Advance(s) /\ UNCHANGED <<flags, bad>>

\* A destructor that reports an error: the object is lost to the process.
DestroyFails(s) ==
    /\ Turn(s, "put") \/ Turn(s, "putif")
    /\ Here(s).noted \/ Here(s).fail # 0
    /\ Here(s).rs \cap held[s] # {} /\ Here(s).rs \cap stale[s] = {}
    /\ Busy(s, Here(s).rs) = {} /\ Fault
    /\ Given(s, Here(s).rs \cap held[s]) /\ Complain(s)
    /\ Alone /\ UNCHANGED <<up, text, bad>>

Withdraw(s) ==
    /\ Turn(s, "undo") /\ Quiet /\ Alone /\ UNCHANGED <<flags, bad, stale>>
    /\ IF Here(s).rs \subseteq held[s]
       THEN Advance(s) /\ held' = [held EXCEPT ![s] = @ \ Here(s).rs]
       ELSE Go(s, Here(s).fail) /\ UNCHANGED held

Touch(s) ==
    /\ Turn(s, "use")
    /\ IF Here(s).rs \subseteq held[s]
       THEN Advance(s) /\ Quiet /\ Alone /\ UNCHANGED <<held, stale, flags, bad>>
       ELSE Crash(s, Here(s).rs)

TestFlag(s) ==
    /\ \/ Turn(s, "set") /\ Flag(s, Here(s).arg) /\ Advance(s)
       \/ Turn(s, "clear") /\ flags' = [flags EXCEPT ![s] = @ \ {Here(s).arg}] /\ Advance(s)
       \/ /\ Turn(s, "if") /\ UNCHANGED flags
          /\ Go(s, IF Here(s).arg \in flags[s] THEN Here(s).fail ELSE Here(s).next)
    /\ Quiet /\ Alone /\ UNCHANGED <<held, stale, bad>>

Return(s) ==
    /\ Turn(s, "ret") /\ rc' = [rc EXCEPT ![s] = Here(s).arg]
    /\ Quiet /\ UNCHANGED <<pc, held, stale, flags, chan, ran, fin, posted, bad>>

-----------------------------------------------------------------------------
(* The connection.                                                          *)

Mine == UNCHANGED <<held, stale, flags, ran, fin, posted>>
Sockfd == <<"comm", "sockfd">>

\* The server waits in accept; the client connects, or finds nobody there.
Meet ==
    /\ Turn("CLIENT", "connect") /\ Turn("SERVER", "accept")
    /\ pc' = [s \in Sides |-> Here(s).next]
    /\ Quiet /\ Mine /\ UNCHANGED <<chan, rc, bad>>
MeetFails(s) ==
    /\ \/ Turn(s, "connect") /\ (Fault \/ (~Live(Peer(s)) /\ UNCHANGED faults))
       \/ Turn(s, "accept") /\ Fault
    /\ Go(s, Here(s).fail) /\ Mine /\ UNCHANGED <<up, text, chan, rc, bad>>

\* Writing to a peer that is gone: lost, or SIGPIPE, which nobody handles; a
\* send on a control QP completes with an error.
Say(s) ==
    /\ Turn(s, "tell")
    /\ Live(Peer(s)) \/ up.cm = "OFF"
    /\ chan' = [chan EXCEPT ![Peer(s)] = IF Live(Peer(s)) THEN Append(@, Here(s).arg) ELSE @]
    /\ Advance(s) /\ Quiet /\ Mine /\ UNCHANGED <<rc, bad>>
SayFails(s) ==
    /\ Turn(s, "tell")
    /\ \/ Fault \/ (up.cm # "OFF" /\ ~Live(Peer(s)) /\ UNCHANGED faults)
    /\ Go(s, Here(s).fail) /\ Mine /\ UNCHANGED <<up, text, chan, rc, bad>>
BrokenPipe(s) ==
    /\ Turn(s, "tell") /\ ~Live(Peer(s)) /\ up.cm = "OFF"
    /\ rc' = [rc EXCEPT ![s] = "killed"]
    /\ Quiet /\ Mine /\ UNCHANGED <<pc, chan, bad>>

Take(s) ==
    /\ Turn(s, "hear") \/ Turn(s, "poll")
    /\ chan[s] # <<>>
    /\ chan' = [chan EXCEPT ![s] = Tail(@)]
    /\ bad' = IF Head(chan[s]) = Here(s).arg THEN bad
              ELSE [bad EXCEPT ![s] = @ \cup {<<"met", Here(s).arg, Head(chan[s])>>}]
    /\ Advance(s) /\ Quiet /\ Mine /\ UNCHANGED rc
\* The socket reports the end of the connection; a poll sees only an error.
TakeFails(s) ==
    /\ \/ Turn(s, "hear") /\ chan[s] = <<>> /\ ~Live(Peer(s)) /\ UNCHANGED faults
       \/ (Turn(s, "hear") \/ Turn(s, "poll")) /\ Fault
    /\ Go(s, Here(s).fail) /\ Mine /\ UNCHANGED <<up, text, chan, rc, bad>>

-----------------------------------------------------------------------------
(* The traffic.                                                             *)

Reliable(k) == k.conn \notin {"UC", "UD", "RawEth"}
Serving(p)  == Live(p) /\ QpOf(up) \subseteq held[p] /\ Mr("ctx", "0") \subseteq held[p]
Way(s)      == Here(s).arg
OneSided(s) == Way(s) \in {"put", "put forever"}
Ends(s)     == Way(s) \notin {"put forever", "send forever", "recv forever"}
PeerTakesPart(s)  == ran[Peer(s)] >= ran[s]
Traffic     == UNCHANGED <<held, stale, chan, bad>>

PostReceives(s) ==
    /\ Turn(s, "post") /\ posted' = [posted EXCEPT ![s] = @ + 1]
    /\ Advance(s) /\ Quiet /\ Traffic /\ UNCHANGED <<flags, ran, fin, rc>>
PostFails(s) ==
    /\ Turn(s, "post") /\ Fault /\ Go(s, Here(s).fail)
    /\ Traffic /\ UNCHANGED <<up, text, flags, ran, fin, posted, rc>>

EnterRound(s) ==
    /\ Turn(s, "enter") /\ ran' = [ran EXCEPT ![s] = @ + 1]
    /\ Advance(s) /\ Quiet /\ Traffic /\ UNCHANGED <<flags, fin, posted, rc>>

\* One-sided work needs the peer's memory; a stream or a ping-pong needs the
\* peer to take part, except that an unreliable send just completes and that
\* the alarm of a duration run ends it.
FinishRound(s) ==
    /\ Turn(s, "finish") /\ Ends(s)
    /\ IF OneSided(s) THEN Serving(Peer(s))
       ELSE \/ PeerTakesPart(s) \/ (On(up, "duration") /\ Way(s) \in {"recv", "both"})
            \/ (Way(s) = "send" /\ ~Reliable(up))
    /\ fin' = [fin EXCEPT ![s] = @ + 1]
    /\ Advance(s) /\ Quiet /\ Traffic /\ UNCHANGED <<flags, ran, posted, rc>>

\* A completion with an error.
RunFails(s) ==
    /\ Turn(s, "finish")
    /\ \/ Fault
       \/ /\ UNCHANGED faults /\ Reliable(up) /\ ~Serving(Peer(s))
          /\ OneSided(s) \/ ~PeerTakesPart(s)
          /\ \/ Way(s) \in {"put", "put forever", "send", "send forever", "both"}
             \/ Way(s) \in {"ping", "pong"} /\ s = "CLIENT"
    /\ Go(s, Here(s).fail) /\ Traffic /\ UNCHANGED <<up, text, flags, ran, fin, posted, rc>>

\* check_alive: nothing arrived for two minutes.  In event mode the process
\* exits, else the run function returns as if it had finished.
GiveUp(s) ==
    /\ Turn(s, "finish") /\ Way(s) \in {"recv", "both"} /\ ~On(up, "duration")
    /\ \/ ~PeerTakesPart(s) /\ ~Serving(Peer(s)) /\ UNCHANGED faults
       \/ ~Reliable(up) /\ Fault
    /\ IF On(up, "event")
       THEN rc' = [rc EXCEPT ![s] = "exit"] /\ UNCHANGED <<pc, flags>>
       ELSE Flag(s, "check_alive_exited") /\ Advance(s) /\ UNCHANGED rc
    /\ Traffic /\ UNCHANGED <<up, text, ran, fin, posted>>

StepOf(s) ==
    \/ Acquire(s) \/ AcquireFails(s) \/ FreeMemory(s) \/ Destroy(s) \/ DestroyFails(s)
    \/ Withdraw(s) \/ Touch(s) \/ TestFlag(s) \/ Return(s)
    \/ MeetFails(s) \/ Say(s) \/ SayFails(s) \/ BrokenPipe(s) \/ Take(s) \/ TakeFails(s)
    \/ PostReceives(s) \/ PostFails(s) \/ EnterRound(s) \/ FinishRound(s) \/ RunFails(s)
    \/ GiveUp(s)
Next == Meet \/ \E s \in Sides : StepOf(s)
Spec == Init /\ [][Next]_vars /\ WF_vars(Next)

-----------------------------------------------------------------------------
(* Properties.  A slip of the source that these would report is named in the *)
(* sets below, with the line it comes from; everything else must hold.      *)

\* What may be used although it is NULL or already gone.
DanglingSlips(k) ==
    (IF k.conn = "XRC" THEN Own("ctx", {"ibv_srq"}) ELSE {})          \* ladder: twice
    \cup (IF On(k, "send_rcredit") THEN Own("ctx", {"ibv_credit_mr"}) ELSE {})
    \cup (IF On(k, "promisc") \/ On(k, "sniffer") THEN Promisc \cup Sniffer ELSE {})
    \* destroy after an init that failed or was never reached
    \cup (IF On(k, "mlu") \/ On(k, "opencl") THEN Own("ctx", {"gpu_context", "command_queue"})
          ELSE IF On(k, "hl") THEN Own("ctx", {"device_fd", "table_lock"}) ELSE {})
\* ... even when nothing has failed: a flow that was never made, the one
\* touching thread of two buffers.
OutrightSlips(k) ==
    (IF On(k, "raw_mcast") THEN Flow("0") ELSE {})
    \cup (IF On(k, "opencl") /\ On(k, "touch") /\ TwoMrs(k) THEN Toucher("ctx", "1") ELSE {})

\* What may be destroyed while something still refers to it.
QueuesOf(k) == Own("ctx", {"ibv_send_cq", "ibv_recv_cq", "ibv_pd"}) \cup QpOf(k)
OrderSlips(k) ==
    (IF On(k, "validation") \/ On(k, "null_mr") THEN Own("ctx", {"ibv_pd"}) ELSE {})
    \cup (IF On(k, "event") THEN Own("ctx", {"ibv_send_channel"}) ELSE {})
    \cup (IF k.conn = "XRC" THEN Own("ctx", {"ibv_xrcd"}) ELSE {})
    \cup (IF k.prog = "send_bw" /\ On(k, "mcg") THEN QueuesOf(k) ELSE {})
    \cup (IF k.conn = "RawEth" THEN QueuesOf(k) ELSE {})
    \cup (IF WorkRdmaCm(k) THEN Own("ctx", {"cm_channel"}) ELSE {})


\* No verbs object is destroyed while another one still needs it, on any path
\* out: users before queues, queues before domains, domains before the device.
TeardownInOrder ==
    \A s \in Sides : rc[s] # "crash" =>
        {r \in bad[s] : r[1] # "met"} \subseteq IF faults > 0 THEN OrderSlips(up) ELSE {}

\* A program that returns 0 has given back every verbs object, flow, group
\* membership and thread.  With rdma_cm the device stays open, and with -z so
\* does the whole control context; a null MR is never released; of two buffers
\* in the NIC's memory only one is, --mmap loses the array of buffers, and
\* nobody looks at what free_buffer returns.
NothingLeftBehind ==
    \A s \in Sides : rc[s] = "0" =>
        \A r \in held[s] :
            \/ r[1] \in {"main", "comm"}
            \/ r[1] = "rdma_ctx" /\ UseRdmaCm(up)
            \/ r[1] = "raw" /\ Len(r) = 2 /\ r \notin Promisc \cup Sniffer
            \/ r[1] = "ctx" /\ r[2] \in BaseArrays \cup {"rem_qpn", "ah", "tcompleted"}
            \/ r = <<"ctx", "ibv_context">> /\ UseRdmaCm(up)
            \/ r = <<"ctx", "ibv_null_mr">>
            \/ r \in Buf("ctx", "0") /\ On(up, "dm") /\ TwoMrs(up)
            \/ r = <<"ctx", "lost_buf">> /\ On(up, "mmap")
            \/ r = <<"ctx", "handle", "0">> /\ faults > 0


\* Nobody starts sending into a queue pair before the other side has posted
\* the receives of that round (the ready handshakes).
ReceivesPosted ==
    \A s \in Sides :
        (/\ Live(s) /\ Here(s).op = "finish" /\ Way(s) \in {"send", "both", "ping", "send forever"}
         /\ up.conn # "RawEth" /\ ~On(up, "unsolicited"))
        => \/ posted[Peer(s)] >= ran[s]
           \/ "check_alive_exited" \in flags[Peer(s)]

\* Without a failure both programs return 0, except where the source cannot:
\* at an outright slip, and after --dont_xchg_versions, which leaves the empty
\* rem_version that check_version_compatibility refuses.
CleanRunSucceeds ==
    (faults = 0 /\ OutrightSlips(up) = {} /\ ~On(up, "dont_xchg") /\ \A s \in Sides : ~Live(s))
        => \A s \in Sides : rc[s] = "0"

\* A server of one-sided work that returns 0 has been told by its client that
\* the client's run is over: the memory was in place until then.
RoundsOf(k) == IF k.method = "RUN_ALL" THEN 2 ELSE 1
SuccessMeansMeasured ==
    (rc["SERVER"] = "0" /\ up.prog \in {"read_bw", "write_bw", "atomic_bw", "read_lat", "atomic_lat"}
     /\ up.verb # "WRITE_IMM")
        => fin["CLIENT"] = RoundsOf(up)

\* Where a process may wait for ever: the server for a client that never
\* comes, the receiving side of a ping-pong or a control QP for a peer that is
\* gone, and a run that was asked to go on for ever.
Stranded(s) ==
    \/ Here(s).op = "accept" /\ ~Live("CLIENT")
    \/ Here(s).op = "poll" /\ chan[s] = <<>> /\ ~Live(Peer(s))
    \/ Here(s).op = "finish" /\ ~Ends(s)
    \/ Here(s).op = "finish" /\ Way(s) \in {"ping", "pong"} /\ ~Live(Peer(s)) /\ ~PeerTakesPart(s)

=============================================================================
