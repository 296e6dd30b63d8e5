------------------------------ MODULE Settings ------------------------------
(***************************************************************************)
(* From two command lines to one test: parser() reads the options of each  *)
(* machine, force_dependecies() makes the settings fit together or exits,  *)
(* and negotiate_params() compares what the two machines ended up with.    *)
(*                                                                         *)
(* A machine's settings are a record: the numbers and the enumerations the *)
(* rules look at, the set "on" of the parameters that are ON, and "exit",  *)
(* which says that the program refused the line.  An option is a pair of   *)
(* its name and its value; a line is a sequence of them.  The build has    *)
(* every optional feature (all of HAVE_...), and a value that is not a     *)
(* number where one is wanted is left out.                                 *)
(***************************************************************************)
EXTENDS Integers, SequencesExt

CONSTANTS
  Starts,   \* sets of starts: the program, the options given to both machines and
            \* to each alone, the older version of the two, each machine's MTU
  RawMtu,   \* what an Ethernet frame carries
  SrdMax    \* the largest message of an SRD device

VARIABLES
  start,        \* the command lines that were given: one of Starts
  user_param,   \* the settings of each machine
  stage         \* where the two machines are: "server" and "client" parse in turn

vars == <<start, user_param, stage>>

Machines == {"server", "client"}

SENDS == {"SEND", "SEND_IMM"}
WRITES == {"WRITE", "WRITE_IMM"}

has_recv_comp(verb) == verb \in SENDS \cup {"WRITE_IMM"}

Refuse(p, c) == IF c THEN [p EXCEPT !.exit = TRUE] ELSE p
TurnOn(p, c, names) == IF c THEN [p EXCEPT !.on = @ \cup names] ELSE p
\* Rules are applied to a value, never to an expression: TLC evaluates lazily,
\* and would nest the evaluation of all of them.
Then(p, Rules(_)) == CHOOSE q \in {Rules(r) : r \in {p}} : TRUE
Some(p, names) == names \cap p.on # {}

-----------------------------------------------------------------------------
(* The defaults of a program, and its options.                             *)

init_perftest_params(prog) ==
  [verb |-> prog.verb, tst |-> prog.tst, raw |-> prog.raw,
   connection_type |-> IF prog.raw THEN "RawEth" ELSE "RC",
   machine |-> IF prog.raw THEN "UNCHOSEN" ELSE "SERVER",
   test_method |-> "REGULAR", test_type |-> "ITERATIONS",
   size |-> IF prog.verb = "ATOMIC" THEN 8 ELSE IF prog.tst = "BW" THEN 65536 ELSE 2,
   tx_depth |-> IF prog.tst \in {"BW", "LAT_BY_BW"} THEN 128 ELSE 1,
   rx_depth |-> IF prog.verb \in SENDS \cup WRITES THEN 512 ELSE 1,
   iters |-> IF prog.tst = "BW" /\ prog.verb \in WRITES THEN 5000 ELSE 1000,
   cq_mod |-> 100, post_list |-> 1, recv_post_list |-> 1, num_of_qps |-> 1,
   inline_size |-> -1, duration |-> 5, margin |-> -1,
   rate_limit_type |-> "DISABLE", rate_units |-> "g", rate_limit |-> "none",
   burst_size |-> 0, output |-> "FULL", memory_type |-> "HOST",
   flows |-> 1, flows_burst |-> 1, fill_count |-> 0, cqe_poll |-> 16,
   atomicType |-> "FETCH_AND_ADD", on |-> {"dynamic_cqe_poll"}, exit |-> FALSE]

change_conn_type(p, type) ==
  IF p.connection_type = "RawEth" THEN p
  ELSE Refuse([p EXCEPT !.connection_type = type],
              \/ type = "UC" /\ p.verb \in {"READ", "ATOMIC"}
              \/ type = "UD" /\ p.verb \notin SENDS
              \/ type = "SRD" /\ p.verb = "ATOMIC")

\* The short options with a number.
NumberNames == {"n", "t", "q", "I", "r", "Q", "l", "D", "f", "s", "T", "L", "X"}
NumberOption(p, name, v) ==
  CASE name = "n" -> Refuse([p EXCEPT !.iters = v], v < 5)
    [] name = "t" -> Refuse([p EXCEPT !.tx_depth = v], v \notin 1..15000)
    [] name = "T" -> TurnOn(Refuse(p, v \notin 0..255), TRUE, {"tos"})
    [] name = "L" -> TurnOn(Refuse(p, v \notin 0..255), v # 64, {"hop_limit"})
    [] name = "q" -> Refuse([p EXCEPT !.num_of_qps = v],
                            v \notin 1..16384 \/ (p.tst # "BW" /\ v > 1))
    [] name = "I" -> Refuse([p EXCEPT !.inline_size = v],
                            v \notin 0..1024 \/ p.verb \in {"READ", "ATOMIC"})
    [] name = "r" -> Refuse([p EXCEPT !.rx_depth = v],
                            v \notin 1..16384 \/ (p.verb \in {"READ", "ATOMIC"} /\ v > 1))
    [] name = "Q" -> TurnOn(Refuse([p EXCEPT !.cq_mod = v], v \notin 1..1024),
                            TRUE, {"req_cq_mod"})
    [] name = "l" -> [p EXCEPT !.post_list = v]
    [] name = "D" -> Refuse([p EXCEPT !.duration = v, !.test_type = "DURATION"], v <= 0)
    [] name = "f" -> Refuse([p EXCEPT !.margin = v], v < 0)
    [] name = "s" -> TurnOn(Refuse([p EXCEPT !.size = v], v < 1), TRUE, {"req_size"})
    [] name = "X" -> TurnOn(Refuse(p, p.verb \in WRITES \/ v \notin 0..2048),
                            TRUE, {"use_eq_num"})

\* The short options that turn one parameter on, and when they are refused.
ShortFlag ==
  [O |-> "dualport", z |-> "use_rdma_cm", R |-> "work_rdma_cm", e |-> "use_event",
   b |-> "duplex", N |-> "noPeak", g |-> "use_mcg", C |-> "cycles", H |-> "histogram",
   U |-> "unsorted", x |-> "use_gid_user", o |-> "out_reads", v |-> "mac_fwd"]
FlagOption(p, name) ==
  Refuse(TurnOn(p, TRUE, {ShortFlag[name]}),
         \/ name \in {"b", "N"} /\ p.tst = "LAT"
         \/ name = "C" /\ p.tst # "LAT"
         \/ name = "g" /\ p.verb # "SEND"
         \/ name \in {"H", "U"} /\ p.tst = "BW"
         \/ name = "o" /\ p.verb \notin {"READ", "ATOMIC"})

\* The short and the long spellings of a raw Ethernet packet.
OldRaw == [B |-> "is_source_mac", E |-> "is_dest_mac", J |-> "is_server_ip",
           j |-> "is_client_ip", K |-> "is_server_port", k |-> "is_client_port"]
NewRaw == [local_mac |-> "is_source_mac", remote_mac |-> "is_dest_mac",
           local_ip |-> "is_server_ip", remote_ip |-> "is_client_ip",
           local_port |-> "is_server_port", remote_port |-> "is_client_port"]
OldRawOption(p, name) == TurnOn(p, TRUE, {OldRaw[name], "is_old_raw_eth_param"})
NewRawOption(p, name) == TurnOn(p, TRUE, {NewRaw[name], "is_new_raw_eth_param"})

\* Rate limits, output and the other long options with a value.
ValueNames == {"rate_limit", "burst_size", "rate_units", "rate_limit_type", "output",
               "recv_post_list", "flows", "flows_burst"}
ValueOption(p, name, v) ==
  CASE name = "rate_limit" ->
         [p EXCEPT !.rate_limit = v,
                   !.rate_limit_type = IF @ = "DISABLE" THEN "HW" ELSE @]
    [] name = "burst_size" -> Refuse([p EXCEPT !.burst_size = v], v < 0)
    [] name = "rate_units" -> [p EXCEPT !.rate_units = v]
    [] name = "rate_limit_type" -> [p EXCEPT !.rate_limit_type = v]
    [] name = "output" -> [p EXCEPT !.output = v]
    [] name = "recv_post_list" -> [p EXCEPT !.recv_post_list = v]
    [] name = "flows" -> Refuse([p EXCEPT !.flows = v], v = 0)
    [] name = "flows_burst" -> Refuse([p EXCEPT !.flows_burst = v], v = 0)

\* The memory the buffers live in, and the options that need one of them.
MemoryOf == [use_cuda |-> "CUDA", use_cuda_bus_id |-> "CUDA", use_musa |-> "MUSA",
             use_rocm |-> "ROCM", use_neuron |-> "NEURON", use_hl |-> "HL",
             use_mlu |-> "MLU", use_opencl |-> "OPENCL", use_ib_dm_dmabuf |-> "DM",
             use_system_dmabuf |-> "SYSTEM_DMABUF", mmap |-> "MMAP"]
NeedsMemory == [use_cuda_dmabuf |-> {"CUDA"}, use_musa_dmabuf |-> {"MUSA"},
                use_rocm_dmabuf |-> {"ROCM"}, use_neuron_dmabuf |-> {"NEURON"},
                use_mlu_dmabuf |-> {"MLU"}, opencl_platform_id |-> {"OPENCL"},
                cuda_mem_managed |-> {"CUDA"}, gpu_touch |-> {"CUDA", "OPENCL"}]
\* --use_opencl is missing from the test that keeps memory types apart.
OneMemoryType(p, name) ==
  \/ p.memory_type = "HOST"
  \/ name = "use_opencl"
  \/ MemoryOf[name] \in {"CUDA", "MUSA", "ROCM"} /\ p.memory_type = MemoryOf[name]
MemoryOption(p, name) ==
  Refuse([p EXCEPT !.memory_type = MemoryOf[name]],
         \/ ~OneMemoryType(p, name)
         \/ name = "use_opencl" /\ "use_odp" \notin p.on)
NeedingOption(p, name) ==
  Refuse(TurnOn(p, TRUE, {name}),
         \/ p.memory_type \notin NeedsMemory[name]
         \/ name \in {"cuda_mem_managed", "gpu_touch"} /\ "use_odp" \notin p.on
         \/ name = "cuda_mem_managed" /\ "use_cuda_dmabuf" \in p.on)

\* Options that change the verb or the way completions are polled.
ImmOption(p, name) ==
  LET plain == IF name = "write_with_imm" THEN "WRITE" ELSE "SEND"
  IN Refuse([p EXCEPT !.verb = IF plain = "WRITE" THEN "WRITE_IMM" ELSE "SEND_IMM"],
            p.tst \notin {"LAT", "BW"} \/ p.verb # plain)
PollOption(p, name) ==
  TurnOn([p EXCEPT !.on = @ \ {"dynamic_cqe_poll"}],
         name = "cqe_poll", {"use_cqe_poll"})

\* One round of the getopt_long loop.  Every other option is a long flag,
\* which turns on the parameter of its name.
Option(p, o) ==
  LET name == o[1]
  IN CASE name = "c" -> change_conn_type(p, o[2])
       [] name \in NumberNames -> NumberOption(p, name, o[2])
       [] name \in DOMAIN ShortFlag -> FlagOption(p, name)
       [] name \in DOMAIN OldRaw -> OldRawOption(p, name)
       [] name \in DOMAIN NewRaw -> NewRawOption(p, name)
       [] name = "a" -> [p EXCEPT !.test_method = "ALL"]
       [] name = "A" -> Refuse([p EXCEPT !.atomicType = o[2]], p.verb # "ATOMIC")
       [] name \in {"P", "Z"} -> [p EXCEPT !.machine = IF name = "P" THEN "CLIENT" ELSE "SERVER"]
       [] name \in ValueNames -> ValueOption(p, name, o[2])
       [] name \in DOMAIN MemoryOf -> MemoryOption(p, name)
       [] name \in DOMAIN NeedsMemory -> NeedingOption(p, name)
       [] name \in {"write_with_imm", "send_with_imm"} -> ImmOption(p, name)
       [] name \in {"cqe_poll", "disable_dynamic_polling"} -> PollOption(p, name)
       [] OTHER -> TurnOn(p, TRUE, {name})

\* An option given twice is refused.
Duplicated(line) == \E i, j \in DOMAIN line : i < j /\ line[i][1] = line[j][1]

\* What parser() does between the last option and the rules.  Only a client
\* is given a server's name, and that is how it knows what it is.
set_raw_eth_parameters(p) ==
  Refuse(p, {"is_new_raw_eth_param", "is_old_raw_eth_param"} \subseteq p.on)
Other(machine) == IF machine = "SERVER" THEN "CLIENT" ELSE "SERVER"
AfterOptions(p, m) ==
  LET named == IF p.connection_type = "RawEth" THEN p.machine
               ELSE IF m = "client" THEN "CLIENT" ELSE "SERVER"
      q == [p EXCEPT !.machine = IF "is_reversed" \in p.on THEN Other(named) ELSE named,
                     !.test_method = IF "run_infinitely" \in p.on THEN "INFINITELY" ELSE @]
      r == TurnOn(q, "log_dci_streams" \in p.on, {"log_active_dci_streams"})
  IN set_raw_eth_parameters(
       Refuse(r, \/ Some(p, {"use_data_direct", "use_cuda_pcie_mapping"})
                    /\ "use_cuda_dmabuf" \notin p.on
                 \/ "use_musa_pcie_mapping" \in p.on /\ "use_musa_dmabuf" \notin p.on))

Asked(s, m) ==
  LET line == s.both \o s.own[m]
      End(p) == AfterOptions(Refuse(p, Duplicated(line)), m)
  IN Then(FoldLeft(Option, init_perftest_params(s.prog), line), End)

-----------------------------------------------------------------------------
(* force_dependecies, rule by rule in the order of the source.             *)

ByIterations(p) == p.test_type = "ITERATIONS"
Smaller(x, y) == IF x < y THEN x ELSE y

DepthRules(p) ==
  LET one == IF p.verb = "WRITE" THEN [p EXCEPT !.rx_depth = 1] ELSE p
      cut == [one EXCEPT !.tx_depth = Smaller(@, p.iters),
                         !.rx_depth = IF has_recv_comp(p.verb) THEN Smaller(@, p.iters) ELSE @]
      srq == IF "use_srq" \in p.on /\ p.iters <= 100 THEN [cut EXCEPT !.rx_depth = 100] ELSE cut
  IN IF p.test_method = "INFINITELY" \/ ~ByIterations(p) THEN one
     ELSE IF p.connection_type \notin {"UD", "UC"} THEN cut
     ELSE [srq EXCEPT !.rx_depth = IF @ = 512 THEN Smaller(p.iters, 16000) ELSE @]

\* Large messages are not moderated, and moderation never exceeds the queue.
ModerationRules_KeepsLong(p) ==
  LET none == p.size > 8192 /\ p.connection_type # "UD" /\ p.test_method # "ALL"
              /\ ~Some(p, {"use_event", "req_cq_mod"})
  IN [p EXCEPT !.cq_mod = IF none THEN 1 ELSE @,
               !.rate_limit_type =
                   IF p.tst = "LAT_BY_BW" /\ @ = "DISABLE" THEN "SW" ELSE @]
ModerationRules(p) ==
  LET none == p.size > 8192 /\ p.connection_type # "UD" /\ p.test_method # "ALL"
              /\ ~Some(p, {"use_event", "req_cq_mod"})
  IN [p EXCEPT !.cq_mod = Smaller(IF none THEN 1 ELSE @, p.tx_depth),
               !.rate_limit_type =
                   IF p.tst = "LAT_BY_BW" /\ @ = "DISABLE" THEN "SW" ELSE @]

SizeRules(p) ==
  LET q == [p EXCEPT !.inline_size = IF p.verb \in {"READ", "ATOMIC"} THEN 0 ELSE @,
                     !.size = IF p.test_method = "ALL" THEN 8388608 ELSE @]
  IN Refuse(q, q.verb = "ATOMIC" /\ q.size # 8)

SrqRule(p) == Refuse(p, "use_srq" \in p.on /\ p.verb \notin SENDS)
ConnectionlessRule(p) ==
  Refuse(p, "connectionless" \in p.on
            /\ \/ p.machine # "SERVER" \/ "use_mcg" \notin p.on \/ p.tst # "BW"
               \/ p.connection_type # "UD" \/ p.test_method # "INFINITELY")

ValidationRules(p) ==
  Refuse(p, "data_validation" \in p.on
            /\ \/ p.memory_type \notin {"CUDA", "HOST"}
               \/ p.verb \notin {"WRITE", "READ"}
               \/ p.tst # "BW" \/ p.post_list > 1 \/ p.connection_type # "RC"
               \/ p.test_method # "REGULAR"
               \/ Some(p, {"mr_per_qp", "payload", "gpu_touch", "use_null_mr"})
               \/ ByIterations(p) /\ p.iters < 32
               \/ p.tx_depth < 32)

\* XRC and DC always use an SRQ, which needs a receive for every queue pair.
SharedQueueRules(p) ==
  LET q == TurnOn(Refuse(p, p.connection_type = "XRC" /\ "work_rdma_cm" \in p.on),
                  p.connection_type = "XRC", {"use_xrc", "use_srq"})
      r == TurnOn(q, q.connection_type = "DC", {"use_srq"})
      d == [r EXCEPT !.rx_depth = IF r.connection_type = "DC" /\ @ < r.num_of_qps
                                  THEN r.num_of_qps ELSE @]
  IN Refuse(d, "use_srq" \in d.on /\ d.verb \in SENDS /\ d.num_of_qps > d.rx_depth)

SignatureRule(p) ==
  Refuse(p, "sig_offload" \in p.on /\ (p.connection_type # "RC" \/ p.size % 512 # 0))

\* Each of the two ports gets as many queue pairs as were asked for.
DualportRules(p) ==
  IF "dualport" \notin p.on THEN p
  ELSE Refuse([p EXCEPT !.num_of_qps = 2 * @], p.tst # "BW" \/ "use_mcg" \in p.on)

PostListRules(p) ==
  IF p.post_list <= 1 THEN p
  ELSE LET req == "req_cq_mod" \in p.on
       IN Refuse([p EXCEPT !.cq_mod = IF req THEN @ ELSE p.post_list],
                 \/ p.tst \notin {"BW", "LAT_BY_BW"}
                 \/ ByIterations(p) /\ p.iters % p.post_list # 0
                 \/ req /\ p.post_list % p.cq_mod # 0)
RecvPostListRules(p) ==
  Refuse(p, p.recv_post_list > 1
            /\ \/ p.tst \notin {"BW", "LAT_BY_BW"}
               \/ ByIterations(p) /\ p.iters % p.recv_post_list # 0)

DurationRules(p) ==
  IF p.test_type # "DURATION" THEN p
  ELSE TurnOn(Refuse([p EXCEPT !.iters = 0],
                     "use_event" \in p.on \/ p.test_method = "ALL"), TRUE, {"noPeak"})

flow_rules_force_dependecies(p) ==
  Refuse(p, IF p.flows # 1
            THEN \/ "is_server_port" \notin p.on \/ p.tst = "FS_RATE" \/ "duplex" \in p.on
                 \/ ByIterations(p) /\ p.iters < p.flows * p.flows_burst
            ELSE p.flows_burst > 1)

RawEthRules(p) ==
  IF p.connection_type # "RawEth" THEN p
  ELSE LET ports == {"is_server_port", "is_client_port"} \cap p.on
           q == TurnOn(TurnOn(p, TRUE, {"use_old_post_send"}), "mac_fwd" \in p.on, {"duplex"})
           r == [q EXCEPT !.cq_mod = IF "mac_fwd" \in q.on /\ @ >= q.rx_depth
                                     THEN Smaller(q.rx_depth, q.tx_depth) ELSE @]
       IN flow_rules_force_dependecies(Refuse(r,
            \/ p.test_method = "ALL" \/ p.memory_type = "MMAP" \/ p.machine = "UNCHOSEN"
            \/ Some(p, {"use_rdma_cm", "work_rdma_cm", "use_gid_user"})
            \/ "is_source_mac" \notin p.on
            \/ "is_dest_mac" \notin p.on
               /\ (p.tst = "LAT" \/ (p.machine = "CLIENT" /\ "raw_mcast" \notin p.on))
            \/ ports \notin {{}, {"is_server_port", "is_client_port"}}
            \/ ports # {} /\ ~({"is_server_ip", "is_client_ip"} \subseteq p.on)
            \/ "tcp" \in p.on /\ "is_server_port" \notin p.on
            \/ {"raw_mcast", "duplex"} \subseteq r.on))

RdmaCmRules(p) ==
  LET cm == "work_rdma_cm" \in p.on
  IN TurnOn(Refuse(p, \/ cm /\ (p.connection_type = "UC" \/ Some(p, {"use_mcg", "dualport"}))
                      \/ p.connection_type # "RawEth"
                         /\ ("hop_limit" \in p.on \/ (~cm /\ "tos" \in p.on))),
            cm, {"use_rdma_cm"})

McgRules(p) ==
  IF "use_mcg" \notin p.on THEN p
  ELSE Refuse([p EXCEPT !.connection_type = "UD"], "duplex" \in p.on \/ p.num_of_qps > 1)

ReceiverPeakRule(p) ==
  TurnOn(p, has_recv_comp(p.verb) /\ p.tst = "BW" /\ p.machine = "SERVER"
            /\ "duplex" \notin p.on, {"noPeak"})

InfiniteRules(p) ==
  IF p.test_method # "INFINITELY" THEN p
  ELSE Refuse(TurnOn([p EXCEPT !.test_type = "DURATION"], TRUE, {"noPeak"}),
              \/ "use_event" \in p.on \/ p.tst = "LAT" \/ p.rate_limit_type # "DISABLE"
              \/ "duplex" \in p.on /\ has_recv_comp(p.verb))

DcRules(p) ==
  Refuse(p, IF p.connection_type = "DC"
            THEN \/ Some(p, {"use_old_post_send", "work_rdma_cm"})
                 \/ "log_active_dci_streams" \in p.on /\ "log_dci_streams" \notin p.on
            ELSE Some(p, {"log_dci_streams", "log_active_dci_streams"}))

AesKeys == {"kek_path", "data_enc_key_app_path", "credentials_path"}
AesRules(p) ==
  Refuse(p, IF "aes_xts" \in p.on
            THEN \/ p.connection_type # "RC" \/ ~(AesKeys \subseteq p.on)
                 \/ Some(p, {"use_old_post_send", "work_rdma_cm", "sig_offload"})
                 \/ p.tst = "LAT" /\ p.verb \in WRITES
                 \/ p.size <= p.inline_size
            ELSE Some(p, AesKeys \cup {"encrypt_on_tx", "sig_before"}))

SrdRules(p) ==
  LET srd == p.connection_type = "SRD"
  IN Refuse([p EXCEPT !.cq_mod = IF srd THEN 1 ELSE @],
            \/ srd /\ "work_rdma_cm" \in p.on
            \/ "use_unsolicited_write" \in p.on /\ (~srd \/ p.verb # "WRITE_IMM"))

EventRule(p) == Refuse(p, "use_event" \in p.on /\ p.verb = "WRITE")
SrqExistsRule(p) ==
  TurnOn(p, \/ "use_srq" \in p.on
               /\ (p.tst = "LAT" \/ p.machine = "SERVER" \/ "duplex" \in p.on)
            \/ "use_xrc" \in p.on, {"srq_exists"})

BurstRules(p) ==
  Refuse([p EXCEPT !.burst_size = IF @ <= 0 /\ p.rate_limit_type # "PP" THEN p.tx_depth ELSE @],
         \/ p.burst_size > 0 /\ p.rate_limit_type = "DISABLE" /\ p.tst # "LAT_BY_BW"
         \/ "typical_pkt_size" \in p.on /\ p.rate_limit_type # "PP")
RateRules(p) ==
  Refuse(p,
    CASE p.rate_limit_type = "SW" -> \/ p.tst # "BW" \/ p.verb = "ATOMIC"
                                     \/ p.verb \in SENDS /\ "duplex" \in p.on
      [] p.rate_limit_type = "HW" -> \/ Some(p, {"use_rdma_cm", "work_rdma_cm"})
                                     \/ p.rate_units = "p" \/ p.rate_limit = "unlisted"
      [] p.rate_limit_type = "PP" -> p.connection_type # "RawEth" \/ p.rate_units # "M"
      [] OTHER -> FALSE)

LatByBwRules(p) ==
  Refuse(p, p.tst = "LAT_BY_BW"
            /\ \/ p.test_type = "DURATION" \/ p.num_of_qps > 1 \/ "duplex" \in p.on
               \/ p.output \notin {"FULL", "LAT"})
OutputRules(p) ==
  Refuse(p, \/ p.tst = "BW" /\ p.output \notin {"FULL", "BW", "MR"}
            \/ p.tst = "LAT" /\ p.output \notin {"FULL", "LAT"}
            \/ "latency_gap" \in p.on /\ p.tst # "LAT")
MarginRule(p) ==
  [p EXCEPT !.margin = IF p.test_type = "DURATION" /\ @ = -1 THEN p.duration \div 4 ELSE @]

MemoryRules(p) ==
  LET gpu == p.memory_type \in {"CUDA", "MUSA"}
  IN Refuse(p, \/ "use_null_mr" \in p.on /\ p.verb \notin WRITES \cup {"READ"}
               \/ gpu /\ p.tst = "LAT" /\ p.verb = "WRITE"
               \/ (gpu \/ p.memory_type = "MLU") /\ p.size <= p.inline_size
               \/ p.memory_type \in {"MLU", "DM"} /\ p.tst = "LAT" /\ p.verb \in WRITES)
UnprotectedRules(p) ==
  Refuse(p, "use_cc_unprotected" \in p.on
            /\ \/ Some(p, {"use_odp", "use_rdma_cm", "work_rdma_cm", "data_validation",
                           "use_hugepages"})
               \/ p.memory_type # "HOST")
DataDirectRule(p) == TurnOn(p, "use_data_direct" \in p.on, {"use_cuda_pcie_mapping"})
PerPortRule(p) ==
  Refuse(p, "report_per_port" \in p.on
            /\ (p.test_type # "DURATION" \/ "dualport" \notin p.on))

EvenDepthRule(p) ==
  [p EXCEPT !.rx_depth = IF has_recv_comp(p.verb) /\ p.test_method = "REGULAR"
                         THEN @ + (@ % 2) ELSE @]
LongRunRule(p) == TurnOn(p, ByIterations(p) /\ p.iters > 20000 /\ p.tst = "BW", {"noPeak"})
TimeRules(p) == Refuse(p, \/ p.duration <= 2 * p.margin
                          \/ "use_eq_num" \in p.on /\ "use_event" \notin p.on)
FillCountRule(p) ==
  [p EXCEPT !.fill_count =
      IF ByIterations(p) /\ p.iters % Smaller(p.cq_mod, p.tx_depth) # 0 THEN 1 ELSE 0]

CongestRule(p) ==
  Refuse(p, "congest_type" \in p.on
            /\ ("work_rdma_cm" \in p.on \/ p.connection_type \in {"XRC", "UD"}))
\* use_write_with_imm is never set: the option changes the verb instead.
PollingRules(p) ==
  LET quiet == \/ ByIterations(p) /\ p.iters < 3000
               \/ p.tst = "BW" /\ "duplex" \in p.on /\ p.verb = "SEND"
               \/ p.tst = "LAT"
      q == IF quiet THEN [p EXCEPT !.on = @ \ {"dynamic_cqe_poll"}] ELSE p
  IN [q EXCEPT !.cqe_poll = IF /\ ~Some(q, {"dynamic_cqe_poll", "use_cqe_poll"})
                               /\ q.num_of_qps > 2048 /\ q.size > 8192
                            THEN 64 ELSE @]
HintRules(p) ==
  Refuse(p, \/ {"processing_hints", "use_data_direct"} \subseteq p.on
            \/ Some(p, {"tph_mem", "cpu_id"})
               /\ ~({"tph_mem", "cpu_id", "processing_hints"} \subseteq p.on))
NumaRules(p) ==
  Refuse(p, \/ "numa_node" \in p.on /\ Some(p, {"pin_cores", "disable_numa"})
            \/ p.connection_type = "RawEth" /\ Some(p, {"pin_cores", "numa_node"}))

QueueRules(p) ==
  SharedQueueRules(ValidationRules(ConnectionlessRule(SrqRule(
    SizeRules(ModerationRules(DepthRules(p)))))))
ModeRules(p) ==
  McgRules(RdmaCmRules(RawEthRules(DurationRules(
    RecvPostListRules(PostListRules(DualportRules(SignatureRule(p))))))))
TransportRules(p) ==
  RateRules(BurstRules(SrqExistsRule(EventRule(SrdRules(AesRules(
    DcRules(InfiniteRules(ReceiverPeakRule(p)))))))))
ReportRules(p) ==
  PerPortRule(DataDirectRule(UnprotectedRules(MemoryRules(
    MarginRule(OutputRules(LatByBwRules(p)))))))
LastRules(p) ==
  NumaRules(HintRules(PollingRules(CongestRule(FillCountRule(
    TimeRules(LongRunRule(EvenDepthRule(p))))))))
force_dependecies(p) ==
  Then(Then(Then(Then(Then(p, QueueRules), ModeRules), TransportRules), ReportRules), LastRules)

-----------------------------------------------------------------------------
(* Between the parser and the first work request: versions and MTUs are    *)
(* exchanged, and the settings are compared.                               *)

\* What check_mtu does to the size.  A machine knows the smaller of the two MTUs.
check_mtu(p, mtu) ==
  LET limit == CASE p.connection_type = "UD" -> mtu
                 [] p.connection_type = "RawEth" -> RawMtu
                 [] p.connection_type = "SRD" -> SrdMax
                 [] OTHER -> p.size
      fixed == p.connection_type # "RawEth" /\ p.test_method # "ALL" /\ "req_size" \in p.on
      cut == Smaller(p.size, limit)
  IN Refuse([p EXCEPT !.size = IF p.connection_type = "RawEth" /\ cut < 64 THEN 64 ELSE cut],
            p.size > limit /\ fixed)

\* Without an exchange rem_version is empty, which check_version_compatibility
\* takes for a version that is too old.
check_version_compatibility(p) == Refuse(p, "dont_xchg_versions" \in p.on)

\* The entries of compare_functions, as far as the two versions exchange them:
\* the structure of 6.28 and 6.29 has neither duplex nor tx_depth.
Switches == {"report_gbits", "aes_xts", "use_rdma_cm", "no_enhanced_reorder",
             "sig_offload", "data_validation"}
Legacy(p) == [test_method |-> p.test_method, connection_type |-> p.connection_type,
              verb |-> p.verb, tst |-> p.tst, atomicType |-> p.atomicType,
              test_type |-> p.test_type, size |-> p.size, iters |-> p.iters,
              num_of_qps |-> p.num_of_qps, duration |-> p.duration,
              switches |-> p.on \cap Switches]
compare_functions_Legacy(p) == <<Legacy(p), p.on \cap {"duplex"}, 0>>
compare_functions(p) == <<Legacy(p), p.on \cap {"duplex"}, p.tx_depth>>
negotiate_params(p, q, rem_version) ==
  \/ rem_version = "older"
  \/ rem_version = "legacy" /\ Legacy(p) = Legacy(q)
  \/ rem_version = "current" /\ compare_functions(p) = compare_functions(q)

-----------------------------------------------------------------------------
Refused(s) == [init_perftest_params(s.prog) EXCEPT !.exit = TRUE]
Kept(s, p) == IF p.exit THEN Refused(s) ELSE p

Init ==
  /\ \E family \in Starts : start \in family
  /\ user_param = [m \in Machines |-> init_perftest_params(start.prog)]
  /\ stage = "server"

\* The server is started first, and waits for the client.
parser(m) ==
  /\ stage = m
  /\ user_param' = [user_param EXCEPT
                      ![m] = Kept(start, force_dependecies(Asked(start, m)))]
  /\ stage' = IF m = "server" THEN "client" ELSE "versions"
  /\ UNCHANGED start

\* The raw Ethernet programs do not speak to each other.
check_peer ==
  /\ stage = "versions"
  /\ LET Mtu == Smaller(start.mtu["server"], start.mtu["client"])
         Check(p) == IF p.raw THEN check_mtu(p, 0)
                     ELSE check_mtu(check_version_compatibility(p), Mtu)
     IN user_param' = [m \in Machines |-> Kept(start, Check(user_param[m]))]
  /\ stage' = IF \E m \in Machines : user_param'[m].exit THEN "refused"
              ELSE IF start.prog.raw THEN "raw" ELSE "negotiate"
  /\ UNCHANGED start

negotiate ==
  /\ stage = "negotiate"
  /\ stage' = IF negotiate_params(user_param["server"], user_param["client"], start.rem_version)
              THEN "agreed" ELSE "mismatch"
  /\ UNCHANGED <<start, user_param>>

Next == (\E m \in Machines : parser(m)) \/ check_peer \/ negotiate

Spec == Init /\ [][Next]_vars

-----------------------------------------------------------------------------
(* What the three steps promise together.                                  *)

Accepted(m) == stage = "versions" /\ ~user_param[m].exit

\* The settings as a second round of the rules would have to find them: the
\* rules double the queue pairs of two ports, and give a run without a rate
\* limit a burst size that they refuse in a command line.
AsAsked(p) ==
  [p EXCEPT !.num_of_qps = IF "dualport" \in p.on THEN @ \div 2 ELSE @,
            !.burst_size = IF p.rate_limit_type = "DISABLE" THEN 0 ELSE @]
\* Rules that come too late for an earlier one: XRC and DC turn use_srq on after
\* the rule that keeps it to SEND, multicast turns RC into UD after the depths
\* of UD are settled, and an infinite run becomes a timed one after the rules of
\* timed runs, so that its iters is not 0.
SettledLate(p) ==
  \/ p.connection_type \in {"XRC", "DC"} /\ p.verb \notin SENDS
  \/ "use_mcg" \in p.on
WithoutLateIters(p) == IF p.test_method = "INFINITELY" THEN [p EXCEPT !.iters = 0] ELSE p


\* The part of the rules that BwParams states, for the SEND bandwidth loops.
BW == INSTANCE BwParams WITH DISABLED_CQ_MOD_VALUE <- 1
BwOptions == {"n", "t", "r", "Q", "l", "s", "e", "a", "recv_post_list"}
BwRequest(p) ==
  [iters |-> p.iters, tx_depth |-> p.tx_depth, rx_depth |-> p.rx_depth, cq_mod |-> p.cq_mod,
   req_cq_mod |-> "req_cq_mod" \in p.on, large_size |-> p.size > 8192,
   run_all |-> p.test_method = "ALL", use_event |-> "use_event" \in p.on,
   post_list |-> p.post_list, recv_post_list |-> p.recv_post_list, send_rcredit |-> FALSE]

\* LoopsGetTheirSettings: the queue depths, moderation, lists and fill count with
\* which the SEND bandwidth loops are modelled (BwParams) are those that parser()
\* and all of force_dependecies() produce from a command line, and the lines that
\* BwParams leaves out are those the program refuses.
LoopsGetTheirSettings ==
  stage = "versions" /\ start.prog = [verb |-> "SEND", tst |-> "BW", raw |-> FALSE] =>
    \A m \in Machines :
      LET line == start.both \o start.own[m]
          asked == Asked(start, m)
          settled == BW!Settle(BwRequest(asked))
      IN (\A i \in DOMAIN line : line[i][1] \in BwOptions) /\ ~asked.exit =>
           /\ user_param[m].exit <=> BW!Rejected(BwRequest(asked))
           /\ ~user_param[m].exit =>
                \A f \in DOMAIN settled \ {"send_rcredit"} : user_param[m][f] = settled[f]

\* Options whose effect negotiate_params does not compare: with one of them on a
\* single machine the test goes on, though the machines are set up differently.
NotCompared == {"is_reversed", "R", "use_srq", "r"}
Given(m) == {start.own[m][i][1] : i \in DOMAIN start.own[m]}
\* What the traffic of one machine has to find at the other.
Traffic(p) ==
  [verb |-> p.verb, tst |-> p.tst, connection_type |-> p.connection_type, size |-> p.size,
   sizes |-> p.test_method, messages |-> <<p.test_type, p.iters, p.duration>>,
   num_of_qps |-> p.num_of_qps, tx_depth |-> p.tx_depth, rx_depth |-> p.rx_depth,
   set_up |-> p.on \cap {"duplex", "use_rdma_cm", "work_rdma_cm", "use_mcg", "use_xrc",
                         "aes_xts", "sig_offload", "use_srq"}]

\* PeersAgree: two machines that were given the same options both refuse them or
\* agree, although one settles them as the server and the other as the client, and
\* knows an MTU of its own.  And when two current versions agree, one is the client
\* and one the server, and they are set up for the same traffic, unless the machines
\* were given one of the options that are not compared, or multicast hides from the
\* comparison that one of them settled its depths for another connection type, or
\* -c RawEth kept a program of the other kind from learning which machine it is.
PeersAgree ==
  /\ start.own["server"] = start.own["client"] =>
       /\ stage # "mismatch"
       /\ stage = "versions" /\ "connectionless" \notin {start.both[i][1] : i \in DOMAIN start.both}
            => (user_param["server"].exit <=> user_param["client"].exit)
  /\ /\ stage = "agreed" /\ start.rem_version = "current"
     /\ (Given("server") \cup Given("client")) \cap NotCompared = {}
     /\ \A m \in Machines : /\ "use_mcg" \notin user_param[m].on
                           /\ user_param[m].connection_type # "RawEth"
     => /\ user_param["server"].machine # user_param["client"].machine
        /\ Traffic(user_param["server"]) = Traffic(user_param["client"])
=============================================================================
