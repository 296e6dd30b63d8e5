------------------------------ MODULE BwTests ------------------------------
(***************************************************************************)
(* read_bw.c, atomic_bw.c, write_bw.c and send_bw.c, one definition for    *)
(* each part of main().                                                    *)
(***************************************************************************)
EXTENDS Mains

BwSetUp(c) ==
    OpenDevice(c) \o Do("MeetPeer", <<c, Main("free_devname")>>) \o Do("MakeContext", <<c>>)
ToDestroy  == Main("destroy_context")
ToFreeMem  == Main("free_mem")

-----------------------------------------------------------------------------
(* read_bw                                                                  *)

ReadBwSetUp(c) == BwSetUp(c)
ReadBwConnect(c) ==
    When(Client(c) \/ c.duplex, data_validation_init(c, ToDestroy))
    \o set_up_connection(ToDestroy)
    \o HandShakePerQp(c, ToDestroy) \o JoinQps(c, ToDestroy)
    \o SetUpDcAgain(c, ToDestroy) \o HandShakePerQp(c, ToDestroy)
    \o ctx_hand_shake(c, "rtr", ToDestroy)
ReadBwServer(c) ==
    ctx_hand_shake(c, "done", ToDestroy) \o Do("xchg_bw_reports", <<c>>)
    \o ctx_close_connection(c, ToDestroy)
    \o Do("LeaveMain", <<c, "served", DestroyCtx(c), {}>>)
ReadBwRunAll(c) ==
    LET Sync(kind) == When(c.duplex, ctx_hand_shake(c, kind, ToDestroy))
        Round(i) == perform_warm_up(c, ToDestroy) \o Sync("ready") \o Run("put", ToDestroy)
                    \o Sync("done") \o When(c.duplex, Do("xchg_bw_reports", <<c>>))
    IN Rounds(c, Round)
ReadBwRunOnce(c) ==
    perform_warm_up(c, ToDestroy) \o data_validation_start(c, ToFreeMem)
    \o When(c.duplex, ctx_hand_shake(c, "ready", ToDestroy))
    \o Run("put", ToDestroy)
    \o When(c.duplex /\ On(c, "validation"), ctx_hand_shake(c, "done", ToFreeMem))
    \o When(c.duplex, Do("xchg_bw_reports", <<c>>))
ReadBwLeave(c) ==
    data_validation_stop_and_report(c)
    \o When(~c.duplex, ctx_hand_shake(c, "done", ToDestroy) \o Do("xchg_bw_reports", <<c>>))
    \o ctx_close_connection(c, ToDestroy) \o Call(ToDestroy)
    \o Do("LeaveMain", <<c, "left", data_validation_destroy(c) \o DestroyCtx(c), {}>>)
ReadBwLabels(c) == Do("Labels", <<c, data_validation_destroy(c) \o DestroyCtx(c)>>)
ReadBw(c) ==
    ReadBwSetUp(c) \o ReadBwConnect(c)
    \o (IF Server(c) /\ ~c.duplex THEN ReadBwServer(c)
        ELSE NotifyCq(c, ToDestroy)
             \o (CASE c.method = "RUN_ALL"        -> ReadBwRunAll(c)
                   [] c.method = "RUN_REGULAR"    -> ReadBwRunOnce(c)
                   [] c.method = "RUN_INFINITELY" -> Run("put forever", ToDestroy))
             \o ReadBwLeave(c))
    \o ReadBwLabels(c)

-----------------------------------------------------------------------------
(* atomic_bw: a sweep is refused earlier, and most failures of the run leave *)
(* the context behind (free_mem).                                           *)

AtomicBwSetUp(c) == BwSetUp(c)
AtomicBwConnect(c) ==
    set_up_connection(ToDestroy)
    \o HandShakePerQp(c, ToDestroy) \o JoinQps(c, ToDestroy)
    \o SetUpDcAgain(c, ToDestroy) \o HandShakePerQp(c, ToDestroy)
    \o ctx_hand_shake(c, "rtr", ToDestroy)
AtomicBwServer(c) ==
    ctx_hand_shake(c, "done", ToDestroy) \o Do("xchg_bw_reports", <<c>>)
    \o ctx_close_connection(c, ToDestroy)
    \o Do("LeaveMain", <<c, "served", DestroyCtx(c), RdmaCtx>>)
AtomicBwRun(c) ==
    NotifyCq(c, ToFreeMem)
    \o (IF c.method = "RUN_INFINITELY" THEN Run("put forever", ToFreeMem)
        ELSE perform_warm_up(c, ToFreeMem)
             \o When(c.duplex, ctx_hand_shake(c, "ready", ToFreeMem))
             \o Run("put", ToFreeMem) \o When(c.duplex, Do("xchg_bw_reports", <<c>>)))
    \o When(~c.duplex, ctx_hand_shake(c, "done", ToFreeMem) \o Do("xchg_bw_reports", <<c>>))
AtomicBwLeave(c) ==
    ctx_close_connection(c, ToFreeMem) \o Call(ToDestroy)
    \o Do("LeaveMain", <<c, "left", DestroyCtx(c), {}>>)
AtomicBwLabels(c) == Do("Labels", <<c, DestroyCtx(c)>>)
AtomicBw(c) ==
    AtomicBwSetUp(c) \o AtomicBwConnect(c)
    \o (IF Server(c) /\ ~c.duplex THEN AtomicBwServer(c)
        ELSE AtomicBwRun(c) \o AtomicBwLeave(c))
    \o AtomicBwLabels(c)
-----------------------------------------------------------------------------
(* write_bw: with WRITE_IMM the server takes part in the run.               *)

Imm(c) == c.verb = "WRITE_IMM"
WriteWay(c) == IF Imm(c) THEN Stream(c) ELSE "put"
WriteBwSetUp(c) == BwSetUp(c)
WriteBwConnect(c) ==
    When(Server(c) \/ c.duplex, data_validation_init(c, ToDestroy))
    \o set_up_connection(ToDestroy)
    \o HandShakePerQp(c, ToDestroy) \o JoinQps(c, ToDestroy)
    \o SetUpDcAgain(c, ToDestroy) \o HandShakePerQp(c, ToDestroy)
    \o NotifyCq(c, ToDestroy) \o ctx_hand_shake(c, "rtr", ToDestroy)
WriteBwServer(c) ==
    data_validation_start(c, ToFreeMem)
    \o ctx_hand_shake(c, "done", ToDestroy) \o Do("xchg_bw_reports", <<c>>)
    \o ctx_close_connection(c, ToDestroy) \o data_validation_stop_and_report(c)
    \o Do("LeaveMain", <<c, "served", data_validation_destroy(c) \o DestroyCtx(c), {}>>)
WriteBwReports(c) ==
    When(c.duplex /\ ~(Imm(c) /\ On(c, "duration")), Do("xchg_bw_reports", <<c>>))
WriteBwRunAll(c) ==
    LET Sync(kind) == When(c.duplex \/ Imm(c), ctx_hand_shake(c, kind, ToDestroy))
        Round(i) == When(Imm(c) /\ ~On(c, "unsolicited") /\ Receives(c), Post(ToDestroy))
                    \o When(~Imm(c), perform_warm_up(c, ToDestroy))
                    \o Sync("ready") \o Run(WriteWay(c), ToDestroy)
                    \o Sync("done") \o WriteBwReports(c)
    IN Rounds(c, Round)
WriteBwRunOnce(c) ==
    When(Imm(c) /\ Receives(c), Post(ToDestroy))
    \o When(~Imm(c), perform_warm_up(c, ToDestroy))
    \o When(c.duplex, data_validation_start(c, ToFreeMem))
    \o When(c.duplex \/ Imm(c), ctx_hand_shake(c, "ready", ToDestroy))
    \o Run(WriteWay(c), ToDestroy)
    \o When(c.duplex /\ On(c, "validation"), ctx_hand_shake(c, "done", ToFreeMem))
    \o WriteBwReports(c)
WriteBwForever(c) ==
    When(Imm(c), When(Server(c) /\ ~c.duplex, Post(ToDestroy))
                 \o ctx_hand_shake(c, "ready", ToDestroy))
    \o Run(IF Imm(c) THEN IF Client(c) THEN "send forever" ELSE "recv forever"
           ELSE "put forever", ToDestroy)
WriteBwLeave(c) ==
    When(c.duplex, data_validation_stop_and_report(c))
    \o When(Client(c) /\ ~Imm(c) /\ ~c.duplex,
            ctx_hand_shake(c, "done", ToDestroy) \o Do("xchg_bw_reports", <<c>>))
    \o ctx_close_connection(c, ToDestroy) \o Call(ToDestroy)
    \o Do("LeaveMain", <<c, "left", data_validation_destroy(c) \o DestroyCtx(c), {}>>)
WriteBwLabels(c) == Do("Labels", <<c, data_validation_destroy(c) \o DestroyCtx(c)>>)
WriteBw(c) ==
    WriteBwSetUp(c) \o WriteBwConnect(c)
    \o (IF Server(c) /\ ~Imm(c) /\ ~c.duplex THEN WriteBwServer(c)
        ELSE (CASE c.method = "RUN_ALL"        -> WriteBwRunAll(c)
                [] c.method = "RUN_REGULAR"    -> WriteBwRunOnce(c)
                [] c.method = "RUN_INFINITELY" -> WriteBwForever(c))
             \o WriteBwLeave(c))
    \o WriteBwLabels(c)

-----------------------------------------------------------------------------
(* send_bw: both sides take part.  A size refused by check_mtu returns at    *)
(* once; a failed close is only reported.                                   *)

\* Joining asks the subnet manager (InfiniBand); attaching is the QP's part.
Joined   == {<<"mcg", "joined">>}
Attached == {<<"mcg", "attached">>}
Mcg(c)   == On(c, "mcg")
set_mcast_group(to) == Call(to) \o Get(Joined, to)
SendBwSetUpConnection(c, to) ==
    set_up_connection(to)
    \o When(Mcg(c) /\ (c.duplex \/ Server(c)), set_mcast_group(to) \o Get(Attached, to))
SendBwDestroyCtx(c, to) ==
    When(Mcg(c), When(c.duplex \/ Server(c), Undo(Attached, to)) \o Undo(Joined, to))
    \o DestroyCtx(c) \o IfSet("test_result", to)
\* ctx_alloc_credit's failure is not looked at by main.
ctx_alloc_credit(c) ==
    LET here == Main("credit")
    IN When(On(c, "send_rcredit"),
            Get(Own("ctx", {"ctrl_buf"}), Exit)
            \o OrElse(here, Get(Own("ctx", {"ibv_credit_mr"}), Failed(here)),
                      Free(Own("ctx", {"ctrl_buf"})), here \o <<"ok">>))
ctx_set_credit_wqes(c) ==
    When(On(c, "send_rcredit"), Use(Own("ctx", {"ibv_credit_mr"})))

SendBwSetUp(c) ==
    OpenDevice(c) \o Do("MeetPeer", <<c, Main("return_error")>>) \o Do("MakeContext", <<c>>)
SendBwConnect(c) ==
    SendBwSetUpConnection(c, ToDestroy) \o ctx_alloc_credit(c)
    \o HandShakePerQp(c, ToDestroy) \o When(~WorkRdmaCm(c), Call(ToDestroy))
    \o ctx_set_credit_wqes(c)
    \o When(Mcg(c) /\ (Client(c) \/ c.duplex), set_mcast_group(ToDestroy))
    \o When(~WorkRdmaCm(c), ctx_connect(c, ToDestroy))
    \o ctx_hand_shake(c, "rtr", ToDestroy) \o SetUpDcAgain(c, ToDestroy)
    \o HandShakePerQp(c, ToDestroy) \o NotifyCq(c, ToDestroy)
SendBwReports(c) == When(c.duplex /\ ~On(c, "duration"), Do("xchg_bw_reports", <<c>>))
SendBwRunAll(c) ==
    LET Round(i) == When(Server(c) \/ c.duplex, Post(ToDestroy))
                    \o ctx_hand_shake(c, "ready", ToDestroy)
                    \o Run(Stream(c), ToDestroy) \o SendBwReports(c)
                    \o ctx_hand_shake(c, "done", ToDestroy)
                    \o IfSet("check_alive_exited", Main("swept"))
    IN Rounds(c, Round) \o At(Main("swept"))
SendBwRunOnce_PostLate(c) ==
    ctx_hand_shake(c, "ready", ToDestroy)
    \o When(Server(c) \/ c.duplex, Post(ToDestroy))
    \o Run(Stream(c), ToDestroy) \o SendBwReports(c)
SendBwRunOnce(c) ==
    When(Server(c) \/ c.duplex, Post(ToDestroy))
    \o ctx_hand_shake(c, "ready", ToDestroy)
    \o Run(Stream(c), ToDestroy) \o SendBwReports(c)
SendBwForever(c) ==
    When(Server(c), Post(ToDestroy)) \o ctx_hand_shake(c, "ready", ToDestroy)
    \o Run(IF Client(c) THEN "send forever" ELSE "recv forever", ToDestroy)
SendBwLeave(c) ==
    OrElse(Main("closing"), ctx_close_connection(c, Failed(Main("closing"))), <<>>,
           Main("closed"))
    \o At(Main("closed"))
    \o SendBwDestroyCtx(c, Main("destroy_cm_context"))
    \o (IF WorkRdmaCm(c)
        THEN Do("destroy_ctx", <<RdmaParamsOf(c), "rdma_ctx">>)
             \o Leave(Main("left"), Dests \cup RdmaCtx \cup RdmaParams, {})
        ELSE Free(Dests \cup RdmaParams) \o Call(Main("return_error")) \o Ret("0"))
SendBwLabels(c) == Do("Labels", <<c, DestroyCtx(c)>>)
SendBw(c) ==
    SendBwSetUp(c) \o SendBwConnect(c)
    \o (CASE c.method = "RUN_ALL"        -> SendBwRunAll(c)
          [] c.method = "RUN_REGULAR"    -> SendBwRunOnce(c)
          [] c.method = "RUN_INFINITELY" -> SendBwForever(c))
    \o SendBwLeave(c) \o SendBwLabels(c)
=============================================================================
