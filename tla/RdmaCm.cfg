\* Two queue pairs, two attempts.
CONSTANTS
    num_of_qps = 2
    max_retries = 2
    Conns = {"RC", "UD", "UDX"}
SPECIFICATION Spec
INVARIANTS CountersMatch  
 
CHECK_DEADLOCK FALSE
