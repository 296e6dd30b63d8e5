SPECIFICATION Spec
CONSTANTS
  Starts <- MCStarts
  RawMtu = 1500
  SrdMax = 8192
INVARIANTS
   LoopsGetTheirSettings PeersAgree
CHECK_DEADLOCK FALSE
