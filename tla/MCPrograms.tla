----------------------------- MODULE MCPrograms -----------------------------
(***************************************************************************)
(* Command lines for Programs: each of the twelve programs, over the       *)
(* transports, connection managers and options that change the path its    *)
(* main() takes.                                                           *)
(***************************************************************************)
EXTENDS Programs

Cmd(prog, verb, tst, conn, opts) ==
    [prog |-> prog, machine |-> "", verb |-> verb, tst |-> tst, conn |-> conn,
     duplex |-> FALSE, method |-> "RUN_REGULAR", cm |-> "OFF", qps |-> 1, opts |-> opts]
Bw(prog, verb, conn, opts)  == Cmd(prog, verb, "BW", conn, opts)
Lat(prog, verb, conn, opts) == Cmd(prog, verb, "LAT", conn, opts)
Duplex(k)    == [k EXCEPT !.duplex = TRUE]
Sweep(k)     == [k EXCEPT !.method = "RUN_ALL"]
Forever(k)   == [k EXCEPT !.method = "RUN_INFINITELY"]
TwoQps(k)    == [k EXCEPT !.qps = 2]
Cm(k, mode)  == [k EXCEPT !.cm = mode]

ReadBwCmds == {
    Bw("read_bw", "READ", "RC", {"event", "odp"}),
    Cm(Bw("read_bw", "READ", "RC", {}), "USE"),
    TwoQps(Cm(Bw("read_bw", "READ", "RC", {"mr_per_qp"}), "WORK")),
    Duplex(Sweep(Bw("read_bw", "READ", "RC", {"warm_up"}))),
    Forever(Bw("read_bw", "READ", "RC", {})),
    Duplex(Bw("read_bw", "READ", "RC", {"validation"})),
    Bw("read_bw", "READ", "RC", {"validation"}) }
WriteBwCmds == {
    Duplex(Sweep(Bw("write_bw", "WRITE", "RC", {"ooo", "dmah"}))),
    Bw("write_bw", "WRITE_IMM", "UC", {"event"}),
    Sweep(Bw("write_bw", "WRITE_IMM", "RC", {"unsolicited"})),
    Cm(Bw("write_bw", "WRITE", "RC", {"validation"}), "WORK"),
    Forever(Bw("write_bw", "WRITE_IMM", "RC", {})),
    TwoQps(Bw("write_bw", "WRITE", "DC", {"aes_xts"})),
    Bw("write_bw", "WRITE", "RC", {"no_lock", "null_mr", "payload"}) }
SendBwCmds == {
    Sweep(Bw("send_bw", "SEND", "RC", {"send_rcredit"})),
    Sweep(Bw("send_bw", "SEND", "UD", {})),
    Bw("send_bw", "SEND", "UD", {"mcg"}),
    Duplex(Bw("send_bw", "SEND", "RC", {"srq", "duration"})),
    Bw("send_bw", "SEND", "XRC", {"event"}),
    Cm(Bw("send_bw", "SEND", "UD", {}), "WORK"),
    Bw("send_bw", "SEND", "RC", {"dont_xchg"}),
    Forever(Bw("send_bw", "SEND", "RC", {"counters"})) }
AtomicBwCmds == {
    Bw("atomic_bw", "ATOMIC", "RC", {"sig_offload"}),
    Duplex(Bw("atomic_bw", "ATOMIC", "RC", {"warm_up"})),
    Cm(Bw("atomic_bw", "ATOMIC", "RC", {}), "WORK") }
LatCmds == {
    Sweep(Lat("send_lat", "SEND", "RC", {})),
    Lat("send_lat", "SEND", "UD", {"mcg"}),
    Cm(Lat("send_lat", "SEND", "RC", {}), "WORK"),
    Sweep(Lat("write_lat", "WRITE", "RC", {})),
    Sweep(Lat("write_lat", "WRITE_IMM", "RC", {"event"})),
    Cm(Lat("write_lat", "WRITE", "RC", {}), "USE"),
    Sweep(Lat("read_lat", "READ", "RC", {"cc_unprotected"})),
    Cm(Lat("read_lat", "READ", "RC", {}), "WORK"),
    Lat("atomic_lat", "ATOMIC", "DC", {}),
    Cm(Lat("atomic_lat", "ATOMIC", "RC", {}), "WORK") }
RawCmds == {
    Bw("raw_bw", "SEND", "RawEth", {"promisc", "sniffer"}),
    Duplex(Bw("raw_bw", "SEND", "RawEth", {})),
    Bw("raw_bw", "SEND", "RawEth", {"raw_mcast"}),
    Forever(Bw("raw_bw", "SEND", "RawEth", {})),
    Duplex(Lat("raw_lat", "SEND", "RawEth", {"promisc"})),
    Duplex(Lat("burst_lat", "SEND", "RawEth", {"promisc"})),
    Cmd("fs_rate", "SEND", "FS_RATE", "RawEth", {}) }
MemoryCmds == {
    Bw("write_bw", "WRITE", "RC", {"cuda", "touch", "dmabuf"}),
    Bw("read_bw", "READ", "RC", {"musa", "dmabuf"}),
    Lat("send_lat", "SEND", "RC", {"rocm", "dmabuf"}),
    Bw("write_bw", "WRITE", "RC", {"mlu", "dmabuf"}),
    TwoQps(Bw("write_bw", "WRITE", "RC", {"opencl", "touch", "mr_per_qp"})),
    Lat("read_lat", "READ", "RC", {"opencl", "touch"}),
    Bw("send_bw", "SEND", "RC", {"hl"}),
    TwoQps(Bw("read_bw", "READ", "RC", {"dm", "dmabuf", "mr_per_qp"})),
    TwoQps(Bw("write_bw", "WRITE", "RC", {"neuron", "dmabuf", "mr_per_qp"})),
    TwoQps(Bw("atomic_bw", "ATOMIC", "RC", {"system_dmabuf", "mr_per_qp"})),
    Lat("write_lat", "WRITE", "RC", {"mmap"}),
    TwoQps(Bw("send_bw", "SEND", "RC", {"hugepages", "mr_per_qp"})) }
MCConfigs == ReadBwCmds \cup WriteBwCmds \cup SendBwCmds \cup AtomicBwCmds
             \cup LatCmds \cup RawCmds \cup MemoryCmds

\* What tells states apart: text follows from up and never changes.
View == <<up, pc, held, stale, flags, chan, ran, fin, posted, rc, bad, faults>>
=============================================================================
