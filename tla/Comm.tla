-------------------------------- MODULE Comm --------------------------------
(***************************************************************************)
(* perftest_communication.c and perftest_negotiation.c as the programs use *)
(* them: the communication structure, the out-of-band connection, and the  *)
(* exchanges made over it, in the step notation of Steps.  An exchange is  *)
(* a write and a read on the client, a read and a write on the server; its *)
(* kind stands for what is sent.  Over rdma_cm (-z, -R) the read polls a   *)
(* completion queue.                                                       *)
(***************************************************************************)
EXTENDS Context

Read(c, kind, to) == IF UseRdmaCm(c) THEN Poll(kind, to) ELSE Hear(kind, to)

\* ctx_xchg_data, ctx_xchg_data_ethernet, ctx_xchg_data_rdma.
ctx_xchg_data(c, kind, to) ==
    IF c.machine = "CLIENT" THEN Tell(kind, to) \o Read(c, kind, to)
                            ELSE Read(c, kind, to) \o Tell(kind, to)
ctx_hand_shake(c, kind, to) ==
    IF c.machine = "CLIENT" THEN Tell(kind, to) \o Read(c, kind, to)
                            ELSE Read(c, kind, to) \o Tell(kind, to)
HandShakePerQp(c, to) ==
    LET One(i) == ctx_hand_shake(c, "keys", to) IN ForQps(c, One)

xchg_bw_reports(c) ==
    ctx_xchg_data(c, "bw_size", Exit) \o ctx_xchg_data(c, "bw_iters", Exit)
    \o ctx_xchg_data(c, "bw_peak", Exit) \o ctx_xchg_data(c, "bw_avg", Exit)
    \o ctx_xchg_data(c, "bw_rate", Exit)

exchange_versions(c) ==
    When(~On(c, "dont_xchg"), ctx_xchg_data(c, "version", Exit))
\* Without the exchange rem_version stays empty and counts as version 0.
check_version_compatibility(c) == When(On(c, "dont_xchg"), Goto(Exit))
check_sys_data(c) ==
    When(~On(c, "dont_xchg"), ctx_xchg_data(c, "cycle_buffer", Exit)
                              \o ctx_xchg_data(c, "cache_line", Exit))
\* The size checks that follow refuse only UD and SRD sizes.
check_mtu(c, to) ==
    When(~On(c, "dont_xchg"), ctx_xchg_data(c, "mtu", Exit))
    \o When(c.conn \in {"UD", "SRD"}, Call(to))

ctx_xchg_data_chunked(c, to) ==
    ctx_xchg_data(c, "kv_len", to)
    \o Call(to)
    \o ctx_xchg_data(c, "kv", to)
\* Both sides run this version: versions first, then the key-value strings.
\* The comparison fails only when the two command lines disagree.
negotiate_params(c, to) ==
    Call(to)
    \o ctx_xchg_data(c, "kv_version", to)
    \o ctx_xchg_data_chunked(c, to)

\* The socket is closed on success; a control QP stays.
ctx_close_connection(c, to) ==
    ctx_hand_shake(c, "close", to)
    \o When(~UseRdmaCm(c), Put({<<"comm", "sockfd">>}, Nowhere))

-----------------------------------------------------------------------------
(* create_comm_struct, dealloc_comm_struct.                                 *)

CommArrays == Own("rdma_ctx", {"mr", "buf", "qp", "qpx", "dci_stream_id"})
RdmaCtx    == {<<"comm", "rdma_ctx">>}
RdmaParams == {<<"comm", "rdma_params">>}
CtxMemory  == Own("rdma_ctx", {"memory"})

create_comm_struct(c, to) ==
    LET l(n) == <<"comm", n>>
        Array(n, undo) == Get(Own("rdma_ctx", {n}), l(undo))
    IN Function(l("created"),
          Get(RdmaParams, to)
          \o When(UseRdmaCm(c),
                  Get(RdmaCtx, l("free_rdma_params"))
                  \o Get(CtxMemory, l("free_rdma_ctx"))
                  \o Array("mr", "free_memory_ctx") \o Array("buf", "free_mr")
                  \o Array("qp", "free_buf") \o Array("qpx", "free_qp")
                  \o Array("dci_stream_id", "free_qpx")
                  \o OrElse(l("channel"),
                            Get(Own("rdma_ctx", {"cm_channel"}), l("free_mem"))
                            \o Get(Own("rdma_ctx", {"cm_id"}), Failed(l("channel"))),
                            Put(Own("rdma_ctx", {"cm_channel"}), Nowhere),
                            l("free_mem")))
          \o When(On(c, "counters"),
                  Call(l(IF UseRdmaCm(c) THEN "free_mem" ELSE "free_rdma_params"))),
          At(l("free_mem")) \o Free(Own("rdma_ctx", {"dci_stream_id"}))
          \o At(l("free_qpx")) \o Free(Own("rdma_ctx", {"qpx"}))
          \o At(l("free_qp")) \o Free(Own("rdma_ctx", {"qp"}))
          \o At(l("free_buf")) \o Free(Own("rdma_ctx", {"buf"}))
          \o At(l("free_mr")) \o Free(Own("rdma_ctx", {"mr"}))
          \o At(l("free_memory_ctx")) \o When(UseRdmaCm(c), Put(CtxMemory, Nowhere))
          \o At(l("free_rdma_ctx")) \o Free(RdmaCtx)
          \o At(l("free_rdma_params")) \o Free(RdmaParams)
          \o Goto(to))

dealloc_comm_struct(c) ==
    When(UseRdmaCm(c), Free(CommArrays) \o PutIfNull(CtxMemory, Nowhere) \o Free(RdmaCtx))
    \o Free(RdmaParams)

-----------------------------------------------------------------------------
(* establish_connection.                                                    *)

\* The parameters of the control context: one RC queue pair for SEND, and
\* tst left at 0, which is LAT.
RdmaParamsOf(c) ==
    [c EXCEPT !.verb = "SEND", !.tst = "LAT", !.conn = "RC", !.qps = 1,
              !.cm = "USE", !.opts = c.opts \cap {"dmah"}]

ethernet_client_connect(to) == Call(to) \o Connect(to) \o Get({<<"comm", "sockfd">>}, Nowhere)
ethernet_server_connect(to) == Call(to) \o Listen(to) \o Get({<<"comm", "sockfd">>}, Nowhere)

rdma_client_connect(c, to) ==
    Call(to)                                       \* address and route
    \o Do("ctx_init", <<RdmaParamsOf(c), "rdma_ctx", to>>)
    \o Call(to)                                    \* post_one_recv_wqe
    \o Connect(to) \o Hear("established", to)

rdma_server_connect(c, to) ==
    Call(to)                                       \* bind and listen
    \o Listen(to)
    \o Do("ctx_init", <<RdmaParamsOf(c), "rdma_ctx", to>>)
    \o Call(to)                                    \* post_one_recv_wqe
    \o Tell("established", to)                     \* rdma_accept
    \o PutIf(Own("rdma_ctx", {"cm_id"}), Nowhere)  \* cm_id_control

establish_connection(c, to) ==
    CASE UseRdmaCm(c) /\ c.machine = "CLIENT"  -> rdma_client_connect(c, to)
      [] UseRdmaCm(c) /\ c.machine = "SERVER"  -> rdma_server_connect(c, to)
      [] ~UseRdmaCm(c) /\ c.machine = "CLIENT" -> ethernet_client_connect(to)
      [] ~UseRdmaCm(c) /\ c.machine = "SERVER" -> ethernet_server_connect(to)

-----------------------------------------------------------------------------
(* create_rdma_cm_connection: RdmaCm.tla has the events it waits for; here   *)
(* it is what it acquires and undoes.  ctx_init runs inside the first event. *)

create_rdma_cm_connection(c, to) ==
    LET o == "ctx"
        l(n) == <<"cm", n>>
        Id(i) == Get(CmaId(o, i), l("destroy_rdma_id"))
        Made(i) == Get(Qp(o, i), l("destroy_rdma_id"))
        UndoId(i) == PutIfNull(CmaId(o, i), to)
    IN Function(l("connected"),
          Get(Own(o, {"cm_channel"}), to)
          \o Get(Own(o, {"cm_nodes"}), Exit)
          \o When(c.machine = "CLIENT", ForQps(c, Id))
          \o ctx_hand_shake(c, "cm", l("destroy_rdma_id"))
          \o Get(Own(o, {"cm_rai"}), l("destroy_rdma_id"))
          \o Do("ctx_init", <<c, o, l("destroy_rdma_id")>>)
          \o When(c.machine = "SERVER", ForQps(c, Id))
          \o ForQps(c, Made)
          \o When(c.conn = "UD" /\ Sends(c), Get({<<o, "ibv_ah", "0">>}, l("destroy_rdma_id")))
          \o ctx_hand_shake(c, "cm", l("destroy_rdma_id"))
          \o Free({<<"main", "ib_devname">>}) \o Get({<<"main", "ib_devname">>}, Nowhere),
          At(l("destroy_rdma_id"))
          \o When(c.machine = "CLIENT", ForQps(c, UndoId))
          \o PutIfNull(Own(o, {"cm_channel", "cm_rai"}), Nowhere)
          \o FreeNull(Own(o, {"cm_nodes"}))
          \o Goto(to))
=============================================================================
