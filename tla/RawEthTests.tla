---------------------------- MODULE RawEthTests ----------------------------
(***************************************************************************)
(* raw_ethernet_send_bw.c, raw_ethernet_send_lat.c, _burst_lat.c and       *)
(* raw_ethernet_fs_rate.c.  There is no out-of-band connection: each side  *)
(* steers packets to its QP with flow rules and runs on its own.           *)
(***************************************************************************)
EXTENDS LatTests

Raw(names) == Own("raw", names)
Flow(i)    == {<<"raw", "flow", i>>}
Promisc    == Raw({"promisc"})
Sniffer    == Raw({"sniffer"})
Listens(c) == Server(c) \/ c.duplex
FindDevice(to) == Get(DevName, to)
OpenRaw ==
    Call(Main("free_devname")) \o Get(Own("ctx", {"ibv_context"}), Main("free_devname"))
    \o Call(Main("free_devname"))
\* alloc_ctx, the flow rules of send_set_up_connection, ctx_init.
MakeRaw(c) ==
    Do("alloc_ctx", <<c, "ctx", Main("free_devname")>>)
    \o OrElse(Main("raw"),
              Call(Failed(Main("raw"))) \o Do("ctx_init", <<c, "ctx", Failed(Main("raw"))>>),
              Do("dealloc_ctx", <<c, "ctx">>), Main("free_devname"))
Forget == At(Main("free_devname")) \o Free(DevName) \o At(Main("free_mem"))
Fail   == At(Main("return_error")) \o Ret("1") \o At(Exit) \o Ret("exit")

-----------------------------------------------------------------------------
(* raw_ethernet_send_bw                                                     *)

RawBwSetUp(c) ==
    Call(Main("return_error"))
    \o Get(Raw({"my_dest_info"}), Main("return_error"))
    \o Get(Raw({"rem_dest_info"}), Main("free_my_dest"))
    \o Get(Raw({"flow_create_result"}), Main("free_rem_dest"))
    \o Get(Raw({"flow_rules"}), Main("free_flow_results"))
    \o Get(Raw({"flow_sniffer"}), Main("free_flow_rules"))
    \o Get(Raw({"flow_promisc"}), Main("free_flow_sniffer"))
    \o FindDevice(Main("free_mem")) \o OpenRaw \o MakeRaw(c)
RawBwFlows(c) ==
    When(~On(c, "raw_mcast") /\ Listens(c),
         When(On(c, "sniffer"), Try(Main("sniffer"), Sniffer))
         \o When(On(c, "promisc"), Try(Main("promisc"), Promisc))
         \o Get(Flow("0"), Main("promisc_flow_destroy"))
         \o Get(Flow("1"), Main("promisc_flow_destroy")))
    \o Call(Main("destroy_context"))
    \o When(On(c, "raw_mcast") /\ Server(c), Try(Main("attach"), Attached))
RawBwRun(c) ==
    IF c.method = "RUN_INFINITELY"
    THEN When(Server(c), Post(Main("free_devname")))
         \o Run(IF Client(c) THEN "send forever" ELSE "recv forever", Main("free_devname"))
    ELSE When(Listens(c), Post(Main("free_devname")))
         \o Run(Stream(c), Main("free_devname"))
\* flow_create_result is destroyed even when raw_mcast left it empty.
RawBwLeave(c) ==
    When(Listens(c),
         Put(Flow("0"), Main("promisc_flow_destroy"))
         \o Put(Flow("1"), Main("promisc_flow_destroy"))
         \o When(On(c, "promisc"), Put(Promisc, Main("sniffer_flow_destroy")))
         \o When(On(c, "sniffer"), Put(Sniffer, Main("destroy_context")))
         \o When(On(c, "raw_mcast"), Undo(Attached, Main("detached")) \o At(Main("detached"))))
    \o DestroyCtx(c) \o IfSet("test_result", Main("free_mem"))
    \o Free(Raw({"my_dest_info", "rem_dest_info", "flow_rules", "flow_promisc",
                 "flow_sniffer"}) \cup DevName)
    \o Call(Main("return_error")) \o Ret("0")
RawBwLabels(c) ==
    At(Main("promisc_flow_destroy")) \o When(On(c, "promisc"), Put(Promisc, Nowhere))
    \o At(Main("sniffer_flow_destroy")) \o When(On(c, "sniffer"), Put(Sniffer, Nowhere))
    \o At(Main("destroy_context")) \o DestroyCtx(c)
    \o Forget \o Free(Raw({"flow_promisc"}))
    \o At(Main("free_flow_sniffer")) \o Free(Raw({"flow_sniffer"}))
    \o At(Main("free_flow_rules")) \o Free(Raw({"flow_rules"}))
    \o At(Main("free_flow_results")) \o Free(Raw({"flow_create_result"}))
    \o At(Main("free_rem_dest")) \o Free(Raw({"rem_dest_info"}))
    \o At(Main("free_my_dest")) \o Free(Raw({"my_dest_info"}))
    \o Fail
RawBw(c) ==
    RawBwSetUp(c) \o RawBwFlows(c) \o RawBwRun(c) \o RawBwLeave(c) \o RawBwLabels(c)

-----------------------------------------------------------------------------
(* raw_ethernet_send_lat and raw_ethernet_send_burst_lat: duplex whatever    *)
(* the user asked for.                                                      *)

RawArrays == Get(Raw({"flow_create_result"}), Main("return_error"))
             \o Get(Raw({"flow_rules"}), Main("free_flow_results"))
\* Only the flows that were made are counted in flows_created.
DestroyFlows == PutIf(Flow("0"), Nowhere) \o PutIf(Flow("1"), Nowhere)
RawLatLabels(c) ==
    At(Main("promisc_flow_destroy")) \o When(On(c, "promisc"), Put(Promisc, Nowhere))
    \o At(Main("result_flow_destroy")) \o DestroyFlows
    \o At(Main("destroy_context")) \o DestroyCtx(c)
    \o Forget \o Free(Raw({"flow_rules"}))
    \o At(Main("free_flow_results")) \o Free(Raw({"flow_create_result"}))
    \o Fail

RawLatSetUp(c) ==
    Call(Main("return_error")) \o RawArrays
    \o FindDevice(Main("free_mem")) \o OpenRaw \o MakeRaw(c)
    \o Get(Flow("0"), Main("destroy_context")) \o Get(Flow("1"), Main("destroy_context"))
    \o When(On(c, "promisc"), Try(Main("promisc"), Promisc))
RawLatRun(c) ==
    Call(Main("promisc_flow_destroy")) \o Post(Main("promisc_flow_destroy"))
    \o Run("ping", Main("promisc_flow_destroy"))
RawLatLeave(c) ==
    When(On(c, "promisc"), Put(Promisc, Main("result_flow_destroy")))
    \o Put(Flow("0"), Main("destroy_context")) \o Put(Flow("1"), Main("destroy_context"))
    \o DestroyCtx(c) \o IfSet("test_result", Main("return_error")) \o Ret("0")
RawLat(c) == RawLatSetUp(c) \o RawLatRun(c) \o RawLatLeave(c) \o RawLatLabels(c)

BurstLatSetUp(c) ==
    Call(Main("return_error")) \o RawArrays
    \o FindDevice(Main("free_mem")) \o OpenRaw \o MakeRaw(c)
    \o Get(Flow("0"), Main("result_flow_destroy"))
    \o Get(Flow("1"), Main("result_flow_destroy"))
    \o When(On(c, "promisc"), Get(Promisc, Main("result_flow_destroy")))
BurstLatRun(c) ==
    Call(Main("promisc_flow_destroy")) \o Post(Main("free_devname"))
    \o Run("ping", Main("free_devname"))
BurstLatLeave(c) ==
    When(On(c, "promisc"), Put(Promisc, Main("result_flow_destroy")))
    \o Put(Flow("0"), Main("destroy_context")) \o Put(Flow("1"), Main("destroy_context"))
    \o DestroyCtx(c) \o IfSet("test_result", Main("free_devname"))
    \o Free(Raw({"flow_create_result", "flow_rules"}) \cup DevName) \o Ret("0")
BurstLatLabels(c) == RawLatLabels(c)
BurstLat(c) == BurstLatSetUp(c) \o BurstLatRun(c) \o BurstLatLeave(c) \o BurstLatLabels(c)

-----------------------------------------------------------------------------
(* raw_ethernet_fs_rate: one process; it creates and counts flow rules.     *)

FsRate(c) ==
    Call(Main("return_error"))
    \o Get(Raw({"my_dest_info"}), Main("return_error"))
    \o Get(Raw({"rem_dest_info"}), Main("free_my_dest"))
    \o FindDevice(Main("free_mem")) \o OpenRaw
    \o Do("alloc_ctx", <<c, "ctx", Main("free_devname")>>)
    \o OrElse(Main("raw"), Do("ctx_init", <<c, "ctx", Failed(Main("raw"))>>),
              Do("dealloc_ctx", <<c, "ctx">>), Main("free_devname"))
    \o Call(Main("destroy_context"))
    \o DestroyCtx(c) \o IfSet("test_result", Main("free_devname"))
    \o Free(Raw({"my_dest_info", "rem_dest_info"}) \cup DevName) \o Ret("0")
    \o At(Main("destroy_context")) \o DestroyCtx(c)
    \o Forget \o Free(Raw({"rem_dest_info"}))
    \o At(Main("free_my_dest")) \o Free(Raw({"my_dest_info"}))
    \o Fail
=============================================================================
