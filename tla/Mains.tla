------------------------------- MODULE Mains -------------------------------
(***************************************************************************)
(* What the main() functions have in common, in the step notation: opening *)
(* the device, meeting the peer, building the context, connecting the      *)
(* queue pairs, leaving, and the labels of the error ladder.  BwTests,     *)
(* LatTests and RawEthTests put each program together from these and from  *)
(* what it does its own way.                                               *)
(***************************************************************************)
EXTENDS Comm

Main(l)  == <<"main", l>>
MyDest   == {Main("my_dest")}
RemDest  == {Main("rem_dest")}
DevName  == {Main("ib_devname")}
Dests    == MyDest \cup RemDest \cup DevName
Client(c) == c.machine = "CLIENT"
Server(c) == c.machine = "SERVER"

\* Parse, find the device, pin the process, open and check the device.
OpenDevice(c) ==
    Call(Main("return_error"))
    \o Get(DevName, Main("return_error")) \o Call(Main("return_error"))
    \o Get(Own("ctx", {"ibv_context"}), Main("free_devname"))
    \o Call(Main("free_devname"))

MeetPeer(c, refused) ==
    create_comm_struct(c, Main("free_devname"))
    \o OrElse(Main("establish"), establish_connection(c, Failed(Main("establish"))),
              dealloc_comm_struct(c), Main("free_devname"))
    \o exchange_versions(c) \o check_version_compatibility(c) \o check_sys_data(c)
    \o OrElse(Main("mtu"), check_mtu(c, Failed(Main("mtu"))),
              dealloc_comm_struct(c), refused)

MakeContext(c) ==
    Get(MyDest, Main("free_rdma_params")) \o Get(RemDest, Main("free_my_dest"))
    \o Do("alloc_ctx", <<c, "ctx", Main("free_mem")>>)
    \o OrElse(Main("negotiate"), negotiate_params(c, Failed(Main("negotiate"))),
              Do("dealloc_ctx", <<c, "ctx">>), Main("free_mem"))
    \o OrElse(Main("resources"),
              IF WorkRdmaCm(c)
              THEN create_rdma_cm_connection(c, Failed(Main("resources")))
              ELSE Do("ctx_init", <<c, "ctx", Failed(Main("resources"))>>),
              Do("dealloc_ctx", <<c, "ctx">>), Main("free_mem"))

\* ctx_connect: every QP to RTR and RTS, and an address handle where the
\* transport wants one.
ctx_connect(c, to) ==
    LET Ah(i) == Get({<<"ctx", "ibv_ah", i>>}, to)
    IN Call(to)
       \o When((c.conn \in {"UD", "DC"} /\ Sends(c))
               \/ (c.conn = "SRD" /\ (Sends(c) \/ c.verb \in {"READ", "WRITE", "WRITE_IMM"})),
               ForQps(c, Ah))
\* ctx_check_gid_compatibility, then ctx_connect: both only without rdma_cm.
JoinQps(c, to)     == When(~WorkRdmaCm(c), Call(to) \o ctx_connect(c, to))
SetUpDcAgain(c, to) == When(c.conn = "DC", Call(to))
set_up_connection(to) == Call(to)
NotifyCq(c, to)    == When(On(c, "event"), Call(to))
perform_warm_up(c, to) == When(On(c, "warm_up"), Call(to))

-----------------------------------------------------------------------------
(* The validation thread of --data_validation.                              *)

Validation == {<<"dv", "context">>}
Validator  == {<<"dv", "thread">>}
data_validation_init(c, to)  == When(On(c, "validation"), Get(Validation, to))
data_validation_start(c, to) == When(On(c, "validation"), Get(Validator, to))
data_validation_stop_and_report(c) ==
    When(On(c, "validation"), PutIfNull(Validator, Nowhere))
data_validation_destroy_Skip(c) == <<>>
data_validation_destroy(c) ==
    When(On(c, "validation"), PutIfNull(Validator, Nowhere) \o PutIfNull(Validation, Nowhere))

-----------------------------------------------------------------------------
(* Leaving.                                                                 *)

\* What succeeds and what fails when "undo" has run: both free the same,
\* except for what the successful return forgets.
Leave(here, frees, forgets) ==
    IfSet("test_result", here) \o Free(frees \ forgets) \o Ret("0")
    \o At(here) \o Free(frees) \o Ret("1")

\* if (work_rdma_cm) { destroy both contexts } else { destroy one }.
LeaveMain(c, here, undo, forgets) ==
    IF WorkRdmaCm(c)
    THEN undo \o IfSet("test_result", Main("destroy_cm_context"))
         \o Free(Dests) \o Do("destroy_ctx", <<RdmaParamsOf(c), "rdma_ctx">>)
         \o Leave(Main(here), RdmaCtx \cup RdmaParams, forgets)
    ELSE Free(Dests) \o undo \o Leave(Main(here), RdmaParams, {})

\* The labels, from destroy_context to return_error; "undo" is what is done
\* at the first one.
Labels(c, undo) ==
    At(Main("destroy_context")) \o undo
    \o At(Main("destroy_cm_context"))
    \o When(WorkRdmaCm(c), Set("rdma_cm_flow_destroyed")
                           \o Do("destroy_ctx", <<RdmaParamsOf(c), "rdma_ctx">>))
    \o At(Main("free_mem")) \o Free(RemDest)
    \o At(Main("free_my_dest")) \o Free(MyDest)
    \o At(Main("free_rdma_params"))
    \o When(UseRdmaCm(c), IfSet("rdma_cm_flow_destroyed", Main("flow_destroyed")))
    \o dealloc_comm_struct(c) \o Goto(Main("free_devname"))
    \o At(Main("flow_destroyed"))
    \o When(UseRdmaCm(c), Free(RdmaCtx)) \o Free(RdmaParams)
    \o At(Main("free_devname")) \o Free(DevName)
    \o At(Main("return_error")) \o Ret("1")
    \o At(Exit) \o Ret("exit")

-----------------------------------------------------------------------------
(* The traffic, by what the caller does in it: "put" posts one-sided work,  *)
(* "send" and "recv" are the two halves of a stream, "both" is a duplex     *)
(* stream, "pong" a ping-pong, and the "forever" ones never come back       *)
(* unless they fail.  A sweep over message sizes is two rounds here.        *)

Rounds(c, Round(_)) ==
    IF c.method = "RUN_ALL" THEN Round("1") \o Round("2") ELSE Round("1")
Stream(c) == IF c.duplex THEN "both" ELSE IF Client(c) THEN "send" ELSE "recv"
=============================================================================
