---------------------------- MODULE MCValidation ----------------------------
(***************************************************************************)
(* The configurations of the validation model.                             *)
(***************************************************************************)
EXTENDS Validation

\* Four and a half rounds of a chunk with a slot before its tail: a validator
\* can be lapped by three rounds.
Rounds4 == [num_qps |-> 1, chunks |-> 1, ops |-> 3, iters |-> 14, tx_depth |-> 2, cq_mod |-> 1,
            mode |-> "WRITE", small |-> TRUE, cores |-> 8, faults |-> 1]
\* A READ test of two chunks that are all tail, completions every second message.
Read2 == [num_qps |-> 1, chunks |-> 2, ops |-> 2, iters |-> 7, tx_depth |-> 2, cq_mod |-> 2,
          mode |-> "READ", small |-> FALSE, cores |-> 2, faults |-> 1]
\* Three markers dealt to two validators.
Share3 == [num_qps |-> 1, chunks |-> 3, ops |-> 1, iters |-> 3, tx_depth |-> 1, cq_mod |-> 1,
           mode |-> "READ", small |-> FALSE, cores |-> 5, faults |-> 0]
\* Chunks of one slot, as payloads above 4 MB make them.
Short == [num_qps |-> 1, chunks |-> 1, ops |-> 1, iters |-> 3, tx_depth |-> 2, cq_mod |-> 1,
          mode |-> "WRITE", small |-> FALSE, cores |-> 1, faults |-> 1]
MCConfigs == {Rounds4, Read2, Share3, Short}
=============================================================================
