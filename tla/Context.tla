------------------------------ MODULE Context ------------------------------
(***************************************************************************)
(* The life of a pingpong_context: alloc_ctx, ctx_init with its error      *)
(* ladder, destroy_ctx, dealloc_ctx, and the same for the communication    *)
(* structure (create_comm_struct, ...), as the step sequences of Steps.    *)
(*                                                                         *)
(* "c" is one side's settled parameters: [prog, machine, verb, tst, conn,  *)
(* duplex, method, cm, qps, opts].  cm is "OFF", "USE" (-z: the control    *)
(* data travels over an rdma_cm QP) or "WORK" (-R: the tested QPs are made *)
(* by rdma_cm as well); opts holds the remaining switches that are on.     *)
(* "o" owns the resources: "ctx", or "rdma_ctx" for the control context.   *)
(* A fixed-size array that is allocated and freed with its neighbours is   *)
(* one resource; verbs objects start with "ibv_".                          *)
(***************************************************************************)
EXTENDS Memory

UseRdmaCm(c)     == c.cm # "OFF"
WorkRdmaCm(c)    == c.cm = "WORK"
has_recv_comp(c) == c.verb \in {"SEND", "SEND_IMM", "WRITE_IMM"}
BwLike(c)        == c.tst \in {"BW", "LAT_BY_BW"}
Sends(c)         == c.machine = "CLIENT" \/ c.tst = "LAT" \/ c.duplex
Receives(c)      == c.machine = "SERVER" \/ c.tst = "LAT" \/ c.duplex
DctOnly(c)       == c.machine = "SERVER" /\ ~(c.duplex \/ c.tst = "LAT")
RecvCq(c)        == has_recv_comp(c) \/ (c.conn = "DC" /\ ~DctOnly(c))
UseXrc(c)        == c.conn = "XRC"
UseSrq(c)        == On(c, "srq") \/ c.conn \in {"XRC", "DC"}
srq_exists(c)    == (UseSrq(c) /\ Receives(c)) \/ UseXrc(c)

Qp(o, i)         == {<<o, "ibv_qp", i>>}
Mr(o, i)         == {<<o, "ibv_mr", i>>}
CmaId(o, i)      == {<<o, "cma_id", i>>}
ForQps(c, Op(_)) == Op("0") \o When(c.qps = 2, Op("1"))
ForMrs(c, Op(_)) == Op("0") \o When(TwoMrs(c), Op("1"))

-----------------------------------------------------------------------------
(* alloc_ctx and dealloc_ctx: the arrays of the context.                    *)

BaseArrays == {"port_by_qp", "tposted", "qp", "qpx", "dv_qp", "mkey",
               "r_dctn", "dci_stream_id", "dek", "domain", "t10dif_sig",
               "mr", "buf"}
TimeArrays(c) ==
    IF BwLike(c) /\ (c.machine = "CLIENT" \/ c.duplex)
    THEN {"tcompleted", "my_addr", "rem_addr", "scnt", "ccnt"}
    ELSE IF BwLike(c) /\ has_recv_comp(c) /\ c.machine = "SERVER"
    THEN {"my_addr", "tcompleted"}
    ELSE IF c.tst = "FS_RATE" THEN {"tcompleted"} ELSE {}
SendArrays(c) ==
    IF Sends(c)
    THEN {"send_offset", "remote_offset", "sge_list", "wr", "rem_qpn"}
         \cup (IF On(c, "validation") THEN {"atomic_sge_list"} ELSE {})
         \cup (IF (c.verb \in {"SEND", "SEND_IMM"} /\ c.conn = "UD")
                  \/ c.conn \in {"DC", "SRD"} THEN {"ah"} ELSE {})
    ELSE IF c.verb \in {"READ", "WRITE", "WRITE_IMM"} /\ c.conn = "SRD"
    THEN {"ah"} ELSE {}
RecvArrays(c) ==
    IF has_recv_comp(c) /\ Receives(c)
    THEN {"recv_sge_list", "rwr", "rx_buffer_addr"} ELSE {}

FreeContext(c, o) ==
    Free(Own(o, BaseArrays \cup TimeArrays(c) \cup RecvArrays(c)
                \cup (SendArrays(c) \ (IF c.verb = "SEND_IMM" /\ c.conn = "UD"
                                       THEN {"ah"} ELSE {}))
                \cup (IF On(c, "cc_unprotected") THEN {"ibv_buf"} ELSE {})))
dealloc_ctx(c, o) == FreeContext(c, o) \o memory_destroy(c, o)

\* ALLOC undoes everything (there is no memory_ctx yet) and returns; the layout
\* failure only returns.
alloc_ctx(c, o, to) ==
    LET here == <<o, "alloc">>
    IN OrElse(here,
              Get(Own(o, BaseArrays \cup IF On(c, "cc_unprotected")
                                         THEN {"ibv_buf"} ELSE {}), Failed(here))
              \o Get(Own(o, TimeArrays(c)), Failed(here))
              \o Get(Own(o, SendArrays(c)), Failed(here))
              \o Get(Own(o, RecvArrays(c)), Failed(here)),
              FreeContext(c, o), to)
       \o When(On(c, "validation"), Call(to))
       \o Get(Own(o, {"memory"}), Nowhere)

-----------------------------------------------------------------------------
(* ctx_init.                                                                *)

ctx_xrcd_create(o, to) ==
    Get(Own(o, {"fd"}), to)
    \o OrElse(<<o, "xrcd">>, Get(Own(o, {"ibv_xrcd"}), Failed(<<o, "xrcd">>)),
              Put(Own(o, {"fd"}), Nowhere), to)

\* register_memory_region closes the exported descriptor, unless it fails.
create_single_mr(c, o, i, to) ==
    LET here == <<o, "reg", i>>
    IN When(On(c, "odp"), Call(to))
       \o (IF On(c, "cc_unprotected") THEN Get(Buf(o, i), to) ELSE allocate_buffer(c, o, i, to))
       \o OrElse(here, Get(Mr(o, i), Failed(here)),
                 When(On(c, "cc_unprotected"), Put(Buf(o, i), Nowhere)), to)
       \o PutIf(Fd(o, i), Nowhere)
       \o When(On(c, "null_mr"), Get(Own(o, {"ibv_null_mr"}), to))
       \o When(On(c, "validation") /\ i = "0", Call(to))

create_mr(c, o, to) ==
    LET here == <<o, "mrs">>
        undo == Put(Mr(o, "0"), Nowhere)
                \o When(On(c, "cc_unprotected"), Put(Buf(o, "0"), Nowhere))
    IN When(On(c, "payload"), Call(to))
       \o create_single_mr(c, o, "0", to)
       \o When(TwoMrs(c),
               OrElse(here, create_single_mr(c, o, "1", Failed(here)), undo, to))

create_reg_cqs(c, o, to) ==
    Get(Own(o, {"ibv_send_cq"}), to)
    \o When(RecvCq(c), Get(Own(o, {"ibv_recv_cq"}), to))

\* Up to the keys: channels, domains, encryption or signature keys.
InitDomains(c, o, to) ==
    When(On(c, "ooo"), Call(to))
    \o When(On(c, "event"), Get(Own(o, {"ibv_send_channel"}), to)
                            \o Get(Own(o, {"ibv_recv_channel"}), to))
    \o Get(Own(o, {"ibv_pd"}), <<o, "comp_channel">>)
    \o When(On(c, "no_lock"), Get(Own(o, {"ibv_td"}), <<o, "pd">>))
    \o When(On(c, "no_lock") \/ On(c, "cc_unprotected"),
            Get(Own(o, {"ibv_pad"}), <<o, "td">>))
    \o When(On(c, "aes_xts"), Get(Own(o, {"ibv_dek"}), <<o, "dek">>)
                              \o Get(Own(o, {"ibv_mkey"}), <<o, "mkey">>))
    \o When(On(c, "sig_offload"), Call(<<o, "mkey">>)
                                  \o Get(Own(o, {"ibv_mkey"}), <<o, "mkey">>))

\* Memory, completion queues, XRC domain, shared receive queue, queue pairs.
\* With rdma_cm the queue pairs of the tested context are made elsewhere.
InitQueues(c, o) ==
    memory_init(c, o, <<o, "mkey">>)
    \o When(On(c, "dmah"), Get(Own(o, {"ibv_dmah"}), <<o, "mkey">>))
    \o create_mr(c, o, <<o, "dmah">>)
    \o create_reg_cqs(c, o, <<o, "mr">>)
    \o When(UseXrc(c), ctx_xrcd_create(o, <<o, "cqs">>)
                       \o Get(Own(o, {"ibv_srq"}), <<o, "xrcd">>))
    \o When(UseSrq(c) /\ c.conn = "DC" /\ Receives(c),
            Get(Own(o, {"ibv_srq"}), <<o, "xrc_srq">>))
    \o When(UseSrq(c) /\ c.conn \notin {"DC", "XRC"} /\ Receives(c),
            Get(Own(o, {"ibv_srq"}), <<o, "xrcd">>))
    \o When(~WorkRdmaCm(c),
            LET Make(i) == Get(Qp(o, i), <<o, "qps">>) IN ForQps(c, Make))

\* The ladder.  The XRC domain is closed before its shared receive queue.
InitLadder(c, o, to) ==
    LET UndoQp(i) == PutIf(Qp(o, i), Nowhere)
        UndoMr(i) == Put(Mr(o, i), Nowhere)
                     \o When(On(c, "cc_unprotected"), Put(Buf(o, i), Nowhere))
    IN At(<<o, "qps">>) \o ForQps(c, UndoQp)
       \o When(UseSrq(c) /\ Receives(c), Put(Own(o, {"ibv_srq"}), Nowhere))
       \o At(<<o, "xrcd">>)
       \o When(UseXrc(c), Put(Own(o, {"ibv_xrcd"}), Nowhere))
       \o At(<<o, "xrc_srq">>)
       \o When(UseXrc(c), Put(Own(o, {"ibv_srq"}), Nowhere))
       \o At(<<o, "cqs">>) \o Put(Own(o, {"ibv_send_cq"}), Nowhere)
       \o When(RecvCq(c), Put(Own(o, {"ibv_recv_cq"}), Nowhere))
       \o At(<<o, "mr">>) \o ForMrs(c, UndoMr)
       \o At(<<o, "dmah">>) \o PutIf(Own(o, {"ibv_dmah"}), Nowhere)
       \o At(<<o, "mkey">>) \o PutIf(Own(o, {"ibv_mkey"}), Nowhere)
       \o At(<<o, "dek">>) \o PutIf(Own(o, {"ibv_dek"}), Nowhere)
       \o PutIf(Own(o, {"ibv_pad"}), Nowhere)
       \o At(<<o, "td">>) \o PutIf(Own(o, {"ibv_td"}), Nowhere)
       \o At(<<o, "pd">>) \o PutNull(Own(o, {"ibv_pd"}), Nowhere)
       \o At(<<o, "comp_channel">>)
       \o When(On(c, "event"),
               PutNull(Own(o, {"ibv_send_channel", "ibv_recv_channel"}), Nowhere))
       \o Goto(to)

ctx_init(c, o, to) ==
    Function(<<o, "init">>, InitDomains(c, o, to) \o InitQueues(c, o),
             InitLadder(c, o, to))

-----------------------------------------------------------------------------
(* destroy_ctx.  What fails is remembered in test_result; nothing stops it. *)

DestroyQueues_CqFirst(c, o) ==
    LET Qps(i) == PutIfNull(Qp(o, i), Noted)
    IN Clear("test_result") \o Put(Own(o, {"ibv_send_cq"}), Noted) \o ForQps(c, Qps)
DestroyQueues(c, o) ==
    LET Ah(i)  == PutIfNull({<<o, "ibv_ah", i>>}, Noted)
        Qps(i) == PutIfNull(Qp(o, i), Noted)
        CmQp(i) == PutIfNull(Qp(o, i), Nowhere)
    IN Clear("test_result")
       \o When(WorkRdmaCm(c), ForQps(c, CmQp))
       \o When(c.conn \in {"UD", "DC", "SRD"}, ForQps(c, Ah))
       \o When(~WorkRdmaCm(c), ForQps(c, Qps))
       \o When(srq_exists(c), Put(Own(o, {"ibv_srq"}), Noted))
       \o When(UseXrc(c), Put(Own(o, {"ibv_xrcd"}), Noted)
                          \o Put(Own(o, {"fd"}), Noted))
       \o Put(Own(o, {"ibv_send_cq"}), Noted)
       \o When(RecvCq(c), Put(Own(o, {"ibv_recv_cq"}), Noted))

DestroyMemory(c, o) ==
    LET Dereg(i)  == Put(Mr(o, i), Noted)
        Buffer(i) == IF On(c, "cc_unprotected") THEN Put(Buf(o, i), Nowhere)
                     ELSE free_buffer(c, o, i)
    IN ForMrs(c, Dereg) \o ForMrs(c, Buffer)
       \o When(On(c, "send_rcredit"), Put(Own(o, {"ibv_credit_mr"}), Noted)
                                      \o Free(Own(o, {"ctrl_buf"})))
       \o PutIf(Own(o, {"ibv_dmah"}), Noted)
       \o When(On(c, "aes_xts"), Put(Own(o, {"ibv_dek", "ibv_mkey"}), Nowhere))
       \o When(On(c, "sig_offload"), Put(Own(o, {"ibv_mkey"}), Nowhere))
       \o PutIf(Own(o, {"ibv_pad"}), Noted)
       \o PutIf(Own(o, {"ibv_td"}), Noted)
       \o PutNull(Own(o, {"ibv_pd"}), Noted)
       \o PutIfNull(Own(o, {"ibv_send_channel"}), Noted)
       \o PutIfNull(Own(o, {"ibv_recv_channel"}), Noted)
       \o When(~UseRdmaCm(c), Put(Own(o, {"ibv_context"}), Noted))

FreeArrays(c, o) ==
    LET Cma(i) == PutIfNull(CmaId(o, i), Nowhere)
    IN FreeNull(Own(o, {"qp", "qpx", "r_dctn", "dci_stream_id", "tposted"}))
       \o When(On(c, "cc_unprotected"), Free(Own(o, {"ibv_buf"})))
       \o When(On(c, "aes_xts"), FreeNull(Own(o, {"dek", "mkey"})))
       \o Free(Own(o, (TimeArrays(c) \cup SendArrays(c) \cup RecvArrays(c))
                      \ ({"rem_qpn", "ah"}
                         \cup IF BwLike(c) THEN {} ELSE {"tcompleted"})))
       \o When(WorkRdmaCm(c), ForQps(c, Cma)
                              \o PutIfNull(Own(o, {"cm_channel", "cm_rai"}), Nowhere)
                              \o FreeNull(Own(o, {"cm_nodes"})))
       \o memory_destroy(c, o)

destroy_ctx(c, o) == DestroyQueues(c, o) \o DestroyMemory(c, o) \o FreeArrays(c, o)
DestroyCtx(c) == Do("destroy_ctx", <<c, "ctx">>)
=============================================================================
