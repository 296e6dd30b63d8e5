----------------------------- MODULE MCSettings -----------------------------
(* Command lines for the model checker: every pair of options, with values  *)
(* on both sides of the limits the rules compare them with.                 *)
EXTENDS Settings

Plain(verb, tst) == [verb |-> verb, tst |-> tst, raw |-> FALSE]
Raw(tst) == [verb |-> "SEND", tst |-> tst, raw |-> TRUE]
PlainProgs == {Plain(v, t) : v \in {"SEND", "WRITE", "READ", "ATOMIC"}, t \in {"BW", "LAT"}}
RawProgs == {Raw(t) : t \in {"BW", "LAT", "LAT_BY_BW", "FS_RATE"}}

\* Sequences of chunks; a chunk is a sequence of options that belong together.
One(names) == [i \in DOMAIN names |-> << <<names[i], 1>> >>]
Num(name, vs) == [i \in DOMAIN vs |-> << <<name, vs[i]>> >>]

\* Options that interact with the connection type or with many others.
Core ==
  One(<<"a", "O", "z", "R", "e", "b", "g", "use_srq", "run_infinitely", "data_validation",
       "use_old_post_send", "sig_offload", "is_reversed">>)
  \o Num("n", <<6, 40, 20001>>) \o Num("t", <<1, 3>>) \o Num("r", <<1, 3>>) \o Num("Q", <<1, 3>>)
  \o Num("q", <<2, 513>>) \o Num("l", <<2, 3>>) \o Num("s", <<32, 4097>>) \o Num("D", <<2>>)
  \o << << <<"write_with_imm", 1>> >>, << <<"send_with_imm", 1>> >>,
         << <<"rate_limit_type", "SW">> >>, << <<"rate_limit", "listed">> >>,
         << <<"aes_xts", 1>>, <<"kek_path", 1>>, <<"data_enc_key_app_path", 1>>,
            <<"credentials_path", 1>> >> >>

\* The rest, by the rule that looks at them.
Rest ==
  One(<<"N", "C", "H", "x", "o", "v", "use_cuda", "use_cuda_bus_id", "use_musa", "use_mlu", "mmap",
       "use_ib_dm_dmabuf", "use_odp", "use_opencl", "use_cuda_dmabuf", "use_data_direct",
       "use_null_mr", "mr_per_qp", "payload", "connectionless", "use_hugepages", "kek_path",
       "aes_xts", "log_dci_streams", "log_active_dci_streams", "use_unsolicited_write",
       "typical_pkt_size", "latency_gap", "use_cc_unprotected", "report_per_port",
       "congest_type", "processing_hints", "tph_mem", "numa_node", "pin_cores",
       "disable_numa", "tcp", "raw_mcast", "report_gbits", "no_enhanced_reorder",
       "dont_xchg_versions", "cqe_poll", "disable_dynamic_polling", "gpu_touch",
       "cuda_mem_managed", "use_musa_dmabuf">>)
  \o Num("I", <<0, 64>>) \o Num("f", <<0, 3>>) \o Num("T", <<7>>) \o Num("L", <<9>>)
  \o Num("X", <<1>>) \o Num("recv_post_list", <<2, 3>>) \o Num("burst_size", <<4>>)
  \o Num("flows", <<2>>) \o Num("flows_burst", <<600>>) \o Num("A", <<"CMP_AND_SWAP">>)
  \o Num("rate_units", <<"M", "p">>) \o Num("output", <<"BW", "LAT">>)
  \o Num("rate_limit", <<"unlisted">>) \o Num("rate_limit_type", <<"HW", "PP">>)
  \o << << <<"use_odp", 1>>, <<"use_cuda", 1>> >>,
         << <<"tph_mem", 1>>, <<"cpu_id", 1>>, <<"processing_hints", 1>> >>,
         << <<"O", 1>>, <<"D", 2>> >> >>

Types == {"UC", "UD", "XRC", "DC", "SRD"}
Type(t) == << <<"c", t>> >>

Start(prog, both, server, client, rem_version, mtu) ==
  [prog |-> prog, both |-> both, own |-> [server |-> server, client |-> client],
   rem_version |-> rem_version, mtu |-> [server |-> 4096, client |-> mtu]]

\* No option, one option, or two of them in the order they are listed.
Pairs(opts) ==
  {<<>>} \cup Range(opts)
  \cup UNION {{opts[i] \o opts[j] : j \in i..Len(opts)} : i \in DOMAIN opts}

\* The same line on both machines: every two options with RC, the options of
\* Core with the other connection types, and a few orders that matter.
Orders ==
  { << <<"g", 1>>, <<"send_with_imm", 1>> >>, << <<"send_with_imm", 1>>, <<"g", 1>> >>,
    << <<"c", "UD">>, <<"g", 1>>, <<"run_infinitely", 1>>, <<"connectionless", 1>> >>,
    << <<"use_odp", 1>>, <<"use_opencl", 1>>, <<"gpu_touch", 1>> >>,
    << <<"use_opencl", 1>>, <<"use_odp", 1>> >>,
    << <<"use_cuda", 1>>, <<"use_cuda_dmabuf", 1>>, <<"use_data_direct", 1>> >>,
    << <<"c", "SRD">>, <<"write_with_imm", 1>>, <<"use_unsolicited_write", 1>> >>,
    << <<"c", "RawEth">>, <<"B", 1>> >>, << <<"c", "RawEth">>, <<"B", 1>>, <<"E", 1>> >>,
    << <<"q", 2>>, <<"q", 1>> >>, << <<"O", 1>>, <<"D", 4>>, <<"report_per_port", 1>> >>,
    << <<"q", 3000>>, <<"n", 5000>> >>, << <<"c", "UD">>, <<"s", 4097>> >>,
    << <<"c", "UD">>, <<"use_srq", 1>>, <<"n", 40>>, <<"r", 512>> >> }
SameStarts ==
  {Start(prog, line, <<>>, <<>>, "current", 4096) :
      prog \in PlainProgs,
      line \in Pairs(Core \o Rest) \cup Orders
              \cup {Type(t) \o l : t \in Types, l \in Pairs(Core)}}

\* One machine is given an option that the other is not.
OddStarts ==
  {Start(prog, type \o line, odd[1], odd[2], "current", 4096) :
      prog \in PlainProgs, type \in {<<>>, Type("UD")}, line \in {<<>>} \cup Range(Core),
      odd \in UNION {{<<o, <<>>>>, <<<<>>, o>>} : o \in Range(Core) \cup {Type("UC"), Type("XRC")}}}
VersionStarts ==
  {Start(prog, type, <<>>, odd, v, mtu) :
      prog \in PlainProgs, type \in {<<>>, Type("UD")}, odd \in {<<>>} \cup Range(Core),
      v \in {"older", "legacy", "current"}, mtu \in {1024, 4096}}

\* A raw Ethernet program is told which machine it is, and its addresses.
Frame(m) == << <<IF m = "client" THEN "P" ELSE "Z", 1>> >>
Macs == << <<"B", 1>>, <<"E", 1>> >>
Udp == << <<"J", 1>>, <<"j", 1>>, <<"K", 1>>, <<"k", 1>> >>
RawLines ==
  {Macs \o l : l \in Pairs(Core) \cup Range(Rest)}
  \cup {<<>>, << <<"B", 1>> >>, << <<"B", 1>>, <<"raw_mcast", 1>> >>, Macs \o SubSeq(Udp, 1, 3),
        << <<"local_mac", 1>>, <<"remote_mac", 1>> >>, << <<"B", 1>>, <<"remote_mac", 1>> >>,
        Macs \o SubSeq(Udp, 3, 4)}
  \cup {Macs \o Udp \o l : l \in {<<>>} \cup Range(Core \o Rest)}
  \cup {Macs \o << <<"rate_limit_type", "PP">>, <<"rate_units", "M">> >> \o l :
            l \in {<<>>} \cup Range(Core \o Rest)}
RawStarts ==
  {Start(prog, line, Frame("server"), Frame("client"), "current", 4096) :
      prog \in RawProgs, line \in RawLines}
  \cup {Start(prog, Macs, <<>>, <<>>, "current", 4096) : prog \in RawProgs}

\* The lines of the SEND bandwidth loops, with up to six numbers at a time.
MaybeNum(name, vs) == {<<>>} \cup Range(Num(name, vs))
SendStarts ==
  {Start(Plain("SEND", "BW"), n \o t \o r \o q \o l \o k \o o, <<>>, <<>>, "current", 4096) :
      n \in MaybeNum("n", <<6, 40, 513>>), t \in MaybeNum("t", <<3, 7>>),
      r \in MaybeNum("r", <<1, 3>>), q \in MaybeNum("Q", <<1, 3>>),
      l \in MaybeNum("l", <<2, 3, 4>>), k \in MaybeNum("recv_post_list", <<2, 3>>),
      o \in {<<>>} \cup Range(One(<<"a", "e">>) \o Num("s", <<32>>))}

MCStarts == {SendStarts, SameStarts, OddStarts, VersionStarts, RawStarts}
=============================================================================
