------------------------------ MODULE LatTests ------------------------------
(***************************************************************************)
(* send_lat.c, write_lat.c, read_lat.c and atomic_lat.c, one definition    *)
(* for each part of main().  A failing run leaves the context behind.      *)
(***************************************************************************)
EXTENDS BwTests

LatSetUp(c) ==
    OpenDevice(c) \o Do("MeetPeer", <<c, Main("free_devname")>>) \o Do("MakeContext", <<c>>)

-----------------------------------------------------------------------------
(* send_lat: with multicast every side joins its own group (the base) and,   *)
(* after the handshake, the peer's.                                         *)

Base    == {<<"mcg", "base_mgid">>}
JoinedPeer == {<<"mcg", "joined_peer">>}
SendLatSetUpConnection(c, to) ==
    set_up_connection(to) \o When(Mcg(c), set_mcast_group(to) \o Get(Attached, to))
SendLatDestroyCtx(c, to) ==
    When(Mcg(c), Undo(Attached \cup Base, to) \o Undo(JoinedPeer, to) \o Undo(Joined, to))
    \o DestroyCtx(c) \o IfSet("test_result", to)
SendLatSetUp(c) ==
    OpenDevice(c) \o Do("MeetPeer", <<c, Main("return_error")>>) \o Do("MakeContext", <<c>>)
SendLatConnect(c) ==
    SendLatSetUpConnection(c, ToDestroy)
    \o HandShakePerQp(c, ToDestroy) \o When(~WorkRdmaCm(c), Call(ToDestroy))
    \o When(Mcg(c), Get(Base, Nowhere) \o Get(JoinedPeer, ToDestroy))
    \o When(~WorkRdmaCm(c), ctx_connect(c, ToDestroy))
    \o ctx_hand_shake(c, "rtr", ToDestroy) \o SetUpDcAgain(c, ToDestroy)
    \o HandShakePerQp(c, ToDestroy) \o NotifyCq(c, ToDestroy)
SendLatRun(c) ==
    LET Round(i) == Post(ToFreeMem) \o ctx_hand_shake(c, "ready", ToFreeMem)
                    \o Run("ping", ToFreeMem)
    IN Rounds(c, Round)
\* The plain return frees no rdma_params.
SendLatLeave(c) ==
    OrElse(Main("closing"), ctx_close_connection(c, Failed(Main("closing"))), <<>>,
           Main("closed"))
    \o At(Main("closed"))
    \o (IF WorkRdmaCm(c)
        THEN SendLatDestroyCtx(c, Main("destroy_cm_context"))
             \o Free(Dests) \o Do("destroy_ctx", <<RdmaParamsOf(c), "rdma_ctx">>)
             \o Leave(Main("left"), RdmaCtx \cup RdmaParams, {})
        ELSE Free(Dests) \o SendLatDestroyCtx(c, Main("return_error")) \o Ret("0"))
SendLatLabels(c) == Do("Labels", <<c, SendLatDestroyCtx(c, Main("destroy_cm_context"))>>)
SendLat(c) ==
    SendLatSetUp(c) \o SendLatConnect(c) \o SendLatRun(c) \o SendLatLeave(c)
    \o SendLatLabels(c)

-----------------------------------------------------------------------------
(* write_lat: no handshake between a WRITE run and the teardown, and the    *)
(* connection is never closed.                                              *)

WriteLatSetUp(c) == LatSetUp(c)
WriteLatConnect(c) ==
    set_up_connection(ToDestroy) \o ctx_hand_shake(c, "keys", ToDestroy)
    \o HandShakePerQp(c, ToDestroy) \o JoinQps(c, ToDestroy)
    \o SetUpDcAgain(c, ToDestroy) \o HandShakePerQp(c, ToDestroy)
    \o NotifyCq(c, ToDestroy) \o ctx_hand_shake(c, "rtr", ToDestroy)
WriteLatRun(c) ==
    LET Round(i) ==
            IF Imm(c)
            THEN When(~(c.method = "RUN_ALL" /\ On(c, "unsolicited")), Post(ToFreeMem))
                 \o ctx_hand_shake(c, "ready", ToFreeMem) \o Run("ping", ToFreeMem)
            ELSE Run("pong", ToFreeMem)
    IN Rounds(c, Round)
WriteLatLeave(c) == Do("LeaveMain", <<c, "left", DestroyCtx(c), {}>>)
WriteLatLabels(c) == Do("Labels", <<c, DestroyCtx(c)>>)
WriteLat(c) ==
    WriteLatSetUp(c) \o WriteLatConnect(c) \o WriteLatRun(c) \o WriteLatLeave(c)
    \o WriteLatLabels(c)

-----------------------------------------------------------------------------
(* read_lat and atomic_lat: the server only keeps its memory in place until  *)
(* the client closes.                                                       *)

ReadLatSetUp(c) == LatSetUp(c)
ReadLatConnect(c) ==
    set_up_connection(ToDestroy) \o ctx_hand_shake(c, "keys", ToDestroy)
    \o HandShakePerQp(c, ToDestroy) \o JoinQps(c, ToDestroy)
    \o SetUpDcAgain(c, ToDestroy) \o HandShakePerQp(c, ToDestroy)
    \o ctx_hand_shake(c, "rtr", ToDestroy)
ReadLatServer_NoClose(c) == Do("LeaveMain", <<c, "served", DestroyCtx(c), {}>>)
ReadLatServer(c) ==
    ctx_close_connection(c, ToFreeMem) \o Do("LeaveMain", <<c, "served", DestroyCtx(c), {}>>)
ReadLatRun(c) ==
    LET Round(i) == Run("put", ToFreeMem)
    IN NotifyCq(c, ToFreeMem) \o Rounds(c, Round)
ReadLatLeave_NoClose(c) == Do("LeaveMain", <<c, "left", DestroyCtx(c), {}>>)
ReadLatLeave(c) ==
    ctx_close_connection(c, ToFreeMem) \o Do("LeaveMain", <<c, "left", DestroyCtx(c), {}>>)
ReadLatLabels(c) == Do("Labels", <<c, DestroyCtx(c)>>)
ReadLat(c) ==
    ReadLatSetUp(c) \o ReadLatConnect(c)
    \o (IF Server(c) THEN ReadLatServer(c) ELSE ReadLatRun(c) \o ReadLatLeave(c))
    \o ReadLatLabels(c)

AtomicLatSetUp(c) == LatSetUp(c)
AtomicLatConnect(c) ==
    set_up_connection(ToDestroy) \o ctx_hand_shake(c, "keys", ToDestroy)
    \o HandShakePerQp(c, ToDestroy) \o JoinQps(c, ToDestroy)
    \o SetUpDcAgain(c, ToDestroy) \o HandShakePerQp(c, ToDestroy)
    \o ctx_hand_shake(c, "rtr", ToDestroy)
AtomicLatServer(c) ==
    ctx_close_connection(c, ToDestroy)
    \o Do("LeaveMain", <<c, "served", DestroyCtx(c), RdmaCtx>>)
AtomicLatRun(c) == NotifyCq(c, ToFreeMem) \o Run("put", ToFreeMem)
AtomicLatLeave(c) ==
    ctx_close_connection(c, ToFreeMem) \o Do("LeaveMain", <<c, "left", DestroyCtx(c), {}>>)
AtomicLatLabels(c) == Do("Labels", <<c, DestroyCtx(c)>>)
AtomicLat(c) ==
    AtomicLatSetUp(c) \o AtomicLatConnect(c)
    \o (IF Server(c) THEN AtomicLatServer(c) ELSE AtomicLatRun(c) \o AtomicLatLeave(c))
    \o AtomicLatLabels(c)
=============================================================================
