----------------------------- MODULE MCLatSend ------------------------------
(* Instances of LatSend for TLC.                                           *)
EXTENDS LatSend

\* A sweep, with every receive depth up to the iterations (the parser cuts a
\* larger one), and a run for a time, with and without a margin; every
\* moderation the send queue allows.
LatConfigs ==
    {p \in [test_type : {"ITERATIONS"}, tx_depth : 1..3, rx_depth : 1..Iters,
            cq_mod : 1..3, margin : {0}]
       \cup [test_type : {"DURATION"}, tx_depth : {2}, rx_depth : 1..2,
             cq_mod : 1..2, margin : 0..1] :
     p.cq_mod <= p.tx_depth}
=============================================================================
