--------------------------- MODULE LatSendProofs ----------------------------
(***************************************************************************)
(* The SEND latency test, for every number of sizes and iterations and     *)
(* every configuration, in both test types.                                *)
(***************************************************************************)
EXTENDS LatSend, TLAPS

LEMMA Constants ==
    /\ Sizes \in Nat \ {0} /\ Iters \in Nat \ {0} /\ MaxSends \in Nat
    /\ \A p \in Configs : p.margin \in 0..1 /\ p.rx_depth \in Nat \ {0}
  BY LatSendAssumption, Zenon

LEMMA Sides ==
    /\ SERVER \in Side /\ CLIENT \in Side /\ SERVER # CLIENT
    /\ Peer(SERVER) = CLIENT /\ Peer(CLIENT) = SERVER
    /\ \A s \in Side : /\ s = SERVER \/ s = CLIENT
                       /\ Peer(s) \in Side /\ Peer(s) # s /\ Peer(Peer(s)) = s
                       /\ \A t \in Side : t # s => t = Peer(s)
  BY Zenon DEF Side, SERVER, CLIENT, Peer

(* Before the last message of any size, messages of the sweep remain. *)
LEMMA BeforeTheEnd ==
    ASSUME NEW I \in Nat \ {0}, NEW n \in Nat, NEW z \in 1..n, NEW x \in Nat, x < I
    PROVE  (z - 1) * I + x < n * I
<1>1. (n - z) * I >= 0
  OBVIOUS
<1> QED  BY <1>1

-----------------------------------------------------------------------------
(* The types.                                                              *)

PC == {"ready", "top", "recv", "count", "send", "post", "spoll", "report", "done"}

LEMMA TypeInit == Init => TypeOK
<1> SUFFICES ASSUME Init PROVE TypeOK
  BY Zenon
<1>1. up.rx_depth \in Nat /\ Iters \in Nat /\ 1 \in 1..Sizes
  BY Constants DEF Init
<1> QED  BY <1>1 DEF Init, TypeOK, State, OFF, ON

LEMMA TypeNext == TypeOK /\ [Next]_vars => TypeOK'
<1> SUFFICES ASSUME TypeOK, [Next]_vars PROVE TypeOK'
  BY Zenon
<1>n. /\ iters \in [Side -> Nat] /\ scnt \in [Side -> Nat] /\ rcnt \in [Side -> Nat]
      /\ recvq \in [Side -> Nat] /\ rcq \in [Side -> Nat] /\ acks \in [Side -> Nat]
      /\ scq \in [Side -> Nat] /\ posted \in [Side -> Nat] /\ retired \in [Side -> Nat]
  BY Zenon DEF TypeOK
<1>f. /\ firstRx \in [Side -> {OFF, ON}] /\ poll \in [Side -> {OFF, ON}]
      /\ alarm \in [Side -> {OFF, ON}] /\ pc \in [Side -> PC] /\ state \in [Side -> State]
      /\ size \in [Side -> 1..Sizes]
  BY Zenon DEF TypeOK, PC
<1>w. wire \in [Side -> Seq({OFF, ON})]
  BY Zenon DEF TypeOK
<1>u. up.rx_depth \in Nat
  BY Constants, Zenon DEF TypeOK
<1>p. OFF \in Nat /\ ON \in Nat
  BY Zenon DEF OFF, ON
<1>1. ASSUME NEW s \in Side, Top(s) PROVE TypeOK'
  <2>1. pc' \in [Side -> PC]
    BY <1>1, <1>f, Zenon DEF Top, PC
  <2> QED  BY <1>1, <2>1, Zenon DEF TypeOK, PC, Top, timeVars, wireVars, histVars
<1>2. ASSUME NEW s \in Side, Recv(s) PROVE TypeOK'
  <2>1. rcq' \in [Side -> Nat]
    BY <1>2, <1>n DEF Recv
  <2>2. rcnt' \in [Side -> Nat]
    BY <1>2, <1>n DEF Recv
  <2>3. pc' \in [Side -> PC] /\ firstRx' \in [Side -> {OFF, ON}]
    BY <1>2, <1>f, Zenon DEF Recv, PC
  <2>4. state' \in [Side -> State] /\ alarm' \in [Side -> {OFF, ON}]
    BY <1>2, <1>f, Zenon DEF Recv, set_on_first_rx_packet, timeVars, State
  <2>5. iters' \in [Side -> Nat]
    <3>1. iters' = iters \/ iters' = [iters EXCEPT ![s] = 0]
      BY <1>2, Zenon DEF Recv, set_on_first_rx_packet
    <3> QED  BY <3>1, <1>n
  <2> QED  BY <1>2, <2>1, <2>2, <2>3, <2>4, <2>5, Zenon DEF TypeOK, PC, Recv, histVars
<1>3. ASSUME NEW s \in Side, Count(s) PROVE TypeOK'
  <2>1. iters' \in [Side -> Nat]
    <3>1. iters' = iters \/ iters' = [iters EXCEPT ![s] = @ + 1]
      BY <1>3, Zenon DEF Count
    <3> QED  BY <3>1, <1>n
  <2>2. recvq' \in [Side -> Nat]
    <3>1. recvq' = recvq \/ recvq' = [recvq EXCEPT ![s] = @ + 1]
      BY <1>3, Zenon DEF Count
    <3> QED  BY <3>1, <1>n
  <2>3. pc' \in [Side -> PC]
    BY <1>3, <1>f, Zenon DEF Count, PC
  <2> QED  BY <1>3, <2>1, <2>2, <2>3, Zenon DEF TypeOK, PC, Count, timeVars, histVars
<1>4. ASSUME NEW s \in Side, RecvEnds(s) PROVE TypeOK'
  <2>1. rcq' \in [Side -> Nat]
    BY <1>4, <1>n DEF RecvEnds
  <2>2. pc' \in [Side -> PC]
    BY <1>4, <1>f, Zenon DEF RecvEnds, PC
  <2> QED  BY <1>4, <2>1, <2>2, Zenon DEF TypeOK, PC, RecvEnds, timeVars, histVars
<1>5. ASSUME NEW s \in Side, Send(s) PROVE TypeOK'
  <2>1. scnt' \in [Side -> Nat]
    <3>1. scnt' = scnt \/ scnt' = [scnt EXCEPT ![s] = @ + 1]
      BY <1>5, Zenon DEF Send
    <3> QED  BY <3>1, <1>n
  <2>2. poll' \in [Side -> {OFF, ON}]
    <3>1. poll' = poll \/ poll' = [poll EXCEPT ![s] = ON]
      BY <1>5, Zenon DEF Send
    <3> QED  BY <3>1, <1>f, Zenon
  <2>3. pc' \in [Side -> PC]
    BY <1>5, <1>f, Zenon DEF Send, PC
  <2> QED  BY <1>5, <2>1, <2>2, <2>3, Zenon DEF TypeOK, PC, Send, timeVars, wireVars, histVars
<1>6. ASSUME NEW s \in Side, Post(s) PROVE TypeOK'
  <2>1. wire' \in [Side -> Seq({OFF, ON})]
    <3>1. wire' = wire \/ wire' = [wire EXCEPT ![s] = Append(@, poll[s])]
      BY <1>6, Zenon DEF Post
    <3>2. Append(wire[s], poll[s]) \in Seq({OFF, ON})
      BY <1>f, <1>w
    <3> QED  BY <3>1, <3>2, <1>w, Zenon
  <2>2. posted' \in [Side -> Nat]
    <3>1. posted' = posted \/ posted' = [posted EXCEPT ![s] = @ + 1]
      BY <1>6, Zenon DEF Post
    <3> QED  BY <3>1, <1>n
  <2>3. pc' \in [Side -> PC]
    BY <1>6, <1>f, Zenon DEF Post, AfterPost, PC
  <2> QED  BY <1>6, <2>1, <2>2, <2>3, Zenon DEF TypeOK, PC, Post, timeVars
<1>7. ASSUME NEW s \in Side, SendPoll(s) PROVE TypeOK'
  <2>1. scq' \in [Side -> Nat]
    BY <1>7, <1>n DEF SendPoll
  <2>2. retired' \in [Side -> Nat]
    BY <1>7, <1>n, Zenon DEF SendPoll
  <2>3. poll' \in [Side -> {OFF, ON}] /\ pc' \in [Side -> PC]
    BY <1>7, <1>f, Zenon DEF SendPoll, PC
  <2> QED  BY <1>7, <2>1, <2>2, <2>3, Zenon DEF TypeOK, PC, SendPoll, timeVars
<1>8. ASSUME NEW s \in Side, Report(s) PROVE TypeOK'
  <2>1. size' \in [Side -> 1..Sizes]
    <3>1. size[s] < LastSize => size[s] + 1 \in 1..Sizes
      BY <1>f, Constants DEF LastSize
    <3>2. size' = size \/ (size[s] < LastSize /\ size' = [size EXCEPT ![s] = @ + 1])
      BY <1>8, Zenon DEF Report
    <3> QED  BY <3>1, <3>2, <1>f, Zenon
  <2>2. recvq' \in [Side -> Nat]
    <3>1. recvq' = recvq \/ recvq' = [recvq EXCEPT ![s] = @ + up.rx_depth]
      BY <1>8, Zenon DEF Report
    <3> QED  BY <3>1, <1>n, <1>u
  <2>3. pc' \in [Side -> PC]
    BY <1>8, <1>f, Zenon DEF Report, PC
  <2> QED  BY <1>8, <2>1, <2>2, <2>3, Zenon DEF TypeOK, PC, Report, timeVars, histVars
<1>9. ASSUME NEW s \in Side, catch_alarm(s) PROVE TypeOK'
  <2>1. state' \in [Side -> State] /\ alarm' \in [Side -> {OFF, ON}]
    BY <1>9, <1>f, Zenon DEF catch_alarm, State
  <2> QED  BY <1>9, <2>1, Zenon DEF TypeOK, catch_alarm, loopVars, wireVars, histVars
<1>10. ASSUME NEW s \in Side, Deliver(s) PROVE TypeOK'
  <2>p. Peer(s) \in Side
    BY Sides, Zenon
  <2>1. Tail(wire[s]) \in Seq({OFF, ON}) /\ Head(wire[s]) \in {OFF, ON}
    BY <1>10, <1>w DEF Deliver
  <2>2. wire' \in [Side -> Seq({OFF, ON})]
    BY <1>10, <2>1, <1>w, Zenon DEF Deliver
  <2>3. recvq' \in [Side -> Nat]
    <3>1. PICK t \in Side : recvq[t] > 0 /\ recvq' = [recvq EXCEPT ![t] = @ - 1]
      BY <1>10, <2>p, Zenon DEF Deliver
    <3> QED  BY <3>1, <1>n
  <2>4. rcq' \in [Side -> Nat]
    <3>1. PICK t \in Side : rcq' = [rcq EXCEPT ![t] = @ + 1]
      BY <1>10, <2>p, Zenon DEF Deliver
    <3> QED  BY <3>1, <1>n
  <2>5. acks' \in [Side -> Nat]
    <3>1. PICK h \in Nat : acks' = [acks EXCEPT ![s] = @ + h]
      BY <1>10, <2>1, <1>p, Zenon DEF Deliver
    <3> QED  BY <3>1, <1>n
  <2> QED  BY <1>10, <2>2, <2>3, <2>4, <2>5, Zenon DEF TypeOK, Deliver, timeVars, loopVars, histVars
<1>11. ASSUME NEW s \in Side, Complete(s) PROVE TypeOK'
  <2>1. acks' \in [Side -> Nat]
    BY <1>11, <1>n DEF Complete
  <2>2. scq' \in [Side -> Nat]
    BY <1>11, <1>n DEF Complete
  <2> QED  BY <1>11, <2>1, <2>2, Zenon DEF TypeOK, Complete, timeVars, loopVars, histVars
<1>12. CASE HandShake
  <2>1. pc' \in [Side -> PC]
    BY <1>12, Zenon DEF HandShake, PC
  <2> QED  BY <1>12, <2>1, Zenon DEF TypeOK, PC, HandShake, timeVars, wireVars, histVars
<1>13. CASE UNCHANGED vars
  BY <1>13, Zenon DEF TypeOK, vars, timeVars, loopVars, wireVars, histVars
<1> QED
  BY <1>1, <1>2, <1>3, <1>4, <1>5, <1>6, <1>7, <1>8, <1>9, <1>10, <1>11, <1>12, <1>13, Zenon
     DEF Next, Loop, Adapter, Finished

(* The numbers among a side's state; what precedes its size is one of      *)
(* them, so that no step but Report has to look into the product.          *)
Before(s) == (size[s] - 1) * Iters

LEMMA Numbers ==
    ASSUME TypeOK, NEW s \in Side
    PROVE  /\ scnt[s] \in Nat /\ rcnt[s] \in Nat /\ iters[s] \in Nat /\ posted[s] \in Nat
           /\ recvq[s] \in Nat /\ rcq[s] \in Nat /\ Len(wire[s]) \in Nat
           /\ size[s] \in 1..Sizes /\ size[s] \in Nat \ {0}
           /\ Before(s) \in Nat /\ Noticed(s) \in Nat
           /\ Noticed(s) = Before(s) + IF pc[s] = "ready" THEN 0 ELSE rcnt[s]
<1>1. /\ scnt[s] \in Nat /\ rcnt[s] \in Nat /\ iters[s] \in Nat /\ posted[s] \in Nat
      /\ recvq[s] \in Nat /\ rcq[s] \in Nat /\ size[s] \in 1..Sizes
  BY Zenon DEF TypeOK
<1>2. Len(wire[s]) \in Nat
  BY DEF TypeOK
<1>3. size[s] \in Nat \ {0}
  BY <1>1, Constants
<1>4. Before(s) \in Nat
  BY <1>3, Constants DEF Before
<1>5. Noticed(s) = Before(s) + IF pc[s] = "ready" THEN 0 ELSE rcnt[s]
  BY <1>4 DEF Noticed, Before
<1>6. Noticed(s) \in Nat
  BY <1>1, <1>4, <1>5
<1> QED  BY <1>1, <1>2, <1>3, <1>4, <1>5, <1>6, Zenon

-----------------------------------------------------------------------------
(* Whose turn it is.                                                       *)

LEMMA InTurnSame ==
    ASSUME NEW s \in Side, InTurn(s), UNCHANGED up,
           pc'[s] = pc[s], size'[s] = size[s], scnt'[s] = scnt[s], rcnt'[s] = rcnt[s],
           iters'[s] = iters[s], posted'[s] = posted[s], Ended(s) => Ended(s)'
    PROVE  InTurn(s)'
<1>1. Noticed(s)' = Noticed(s)
  BY Zenon DEF Noticed
<1> QED  BY <1>1, Zenon DEF InTurn, Duration, Ahead

LEMMA InTurnInit == Init => \A s \in Side : InTurn(s)
<1> SUFFICES ASSUME Init, NEW s \in Side PROVE InTurn(s)
  BY Zenon
<1>1. /\ pc[s] = "ready" /\ size[s] = 1 /\ scnt[s] = 0 /\ rcnt[s] = 0 /\ posted[s] = 0
      /\ ~Duration => iters[s] = Iters
  BY Zenon DEF Init
<1>2. Noticed(s) = 0 /\ Iters \in Nat
  BY <1>1, Constants DEF Noticed
<1>3. Ahead(s) \in 0..1
  BY DEF Ahead
<1> QED  BY <1>1, <1>2, <1>3 DEF InTurn

LEMMA OwnTurn ==
    ASSUME TypeOK, NEW s \in Side, InTurn(s), Loop(s)
    PROVE  InTurn(s)'
<1> DEFINE b == Before(s)
<1>n. /\ scnt[s] \in Nat /\ rcnt[s] \in Nat /\ posted[s] \in Nat /\ size[s] \in Nat \ {0}
      /\ b \in Nat /\ Noticed(s) \in Nat
      /\ Noticed(s) = b + IF pc[s] = "ready" THEN 0 ELSE rcnt[s]
      /\ Iters \in Nat \ {0} /\ MaxSends \in Nat
  BY Numbers, Constants, Zenon
<1>a. (s = CLIENT /\ Ahead(s) = 1) \/ (s # CLIENT /\ Ahead(s) = 0)
  BY Zenon DEF Ahead
<1>b. ASSUME size'[s] = size[s]
      PROVE  /\ Before(s)' = b
             /\ Noticed(s)' = b + IF pc'[s] = "ready" THEN 0 ELSE rcnt'[s]
  <2>1. TypeOK'
    BY TypeNext, Zenon DEF Next
  <2>2. Before(s)' = b
    BY <1>b, Zenon DEF Before
  <2>3. rcnt'[s] \in Nat
    BY <2>1, Zenon DEF TypeOK
  <2> QED  BY <1>b, <1>n, <2>2, <2>3 DEF Noticed, Before
<1>o. InTurn(s)
  BY Zenon
<1> HIDE DEF b
<1>e. /\ posted[s] - Noticed(s) \in (Ahead(s) - 1)..Ahead(s)
      /\ pc[s] = "count" => posted[s] = Noticed(s) + Ahead(s) - 1
      /\ ~Ended(s) =>
           /\ pc[s] \in {"recv", "spoll"} => posted[s] = Noticed(s) + Ahead(s)
           /\ pc[s] \in {"send", "post"} => posted[s] = Noticed(s) + Ahead(s) - 1
           /\ pc[s] = "top" =>
                  \/ posted[s] = Noticed(s) + Ahead(s)
                  \/ /\ s = CLIENT /\ posted[s] = Noticed(s)
                     /\ scnt[s] = 0 \/ (~Duration /\ scnt[s] = Iters)
           /\ pc[s] # "ready" => posted[s] = b + scnt[s] - (IF pc[s] = "post" THEN 1 ELSE 0)
      /\ Duration => size[s] = 1 /\ (pc[s] = "post" /\ ~Ended(s) => scnt[s] <= MaxSends)
      /\ ~Duration =>
            /\ iters[s] = Iters /\ scnt[s] <= Iters /\ rcnt[s] <= Iters
            /\ pc[s] = "recv" => rcnt[s] < Iters
            /\ pc[s] \in {"report", "done"} => scnt[s] = Iters /\ rcnt[s] = Iters
  BY <1>o, Zenon DEF InTurn, b, Before
<1> DEFINE Range == /\ posted'[s] - Noticed(s)' \in (Ahead(s) - 1)..Ahead(s)
                    /\ pc'[s] = "count" => posted'[s] = Noticed(s)' + Ahead(s) - 1
           Turn  == ~Ended(s)' =>
               /\ pc'[s] \in {"recv", "spoll"} => posted'[s] = Noticed(s)' + Ahead(s)
               /\ pc'[s] \in {"send", "post"} => posted'[s] = Noticed(s)' + Ahead(s) - 1
               /\ pc'[s] = "top" =>
                      \/ posted'[s] = Noticed(s)' + Ahead(s)
                      \/ /\ s = CLIENT /\ posted'[s] = Noticed(s)'
                         /\ scnt'[s] = 0 \/ (~Duration /\ scnt'[s] = Iters)
           Tally == ~Ended(s)' =>
               posted'[s] = b + scnt'[s] - (IF pc'[s] = "post" THEN 1 ELSE 0)
           Limit ==
               /\ Duration => (pc'[s] = "post" /\ ~Ended(s)' => scnt'[s] <= MaxSends)
               /\ ~Duration =>
                      /\ iters'[s] = Iters /\ scnt'[s] <= Iters /\ rcnt'[s] <= Iters
                      /\ pc'[s] = "recv" => rcnt'[s] < Iters
                      /\ pc'[s] \in {"report", "done"} => scnt'[s] = Iters /\ rcnt'[s] = Iters
           Goal == Range /\ Turn /\ Tally /\ Limit
<1>g. ASSUME Goal, pc'[s] # "ready", UNCHANGED up, size'[s] = size[s] PROVE InTurn(s)'
  <2>1. Before(s)' = b
    BY <1>b, <1>g, Zenon
  <2>2. Duration' = Duration
    BY <1>g, Zenon DEF Duration
  <2>3. Ahead(s)' = Ahead(s)
    BY Zenon DEF Ahead
  <2> QED  BY <1>g, <1>e, <2>1, <2>2, <2>3, Zenon DEF InTurn, Before
<1>1. CASE Top(s)
  <2>1. /\ pc[s] = "top" /\ UNCHANGED <<up, iters, size, scnt, rcnt, posted>>
        /\ Ended(s)' = Ended(s)
        /\ pc'[s] = IF ~More(s) THEN "report" ELSE IF Expects(s) THEN "recv" ELSE "send"
    BY <1>1, Zenon DEF Top, TypeOK, timeVars, histVars, Ended, Duration
  <2>2. Noticed(s)' = Noticed(s)
    BY <2>1, <1>b, <1>n, Zenon
  <2>3. CASE Ended(s)
    <3>1. Duration
      BY <2>3, Zenon DEF Ended
    <3>2. Goal
      BY <2>1, <2>2, <2>3, <3>1, <1>e, Zenon
    <3> QED  BY <2>1, <3>2, <1>g, Zenon
  <2>4. CASE ~Ended(s) /\ Duration
    <3>1. More(s) /\ (Expects(s) <=> ~(scnt[s] < 1 /\ s = CLIENT))
      BY <2>4, Zenon DEF Ended, More, Expects
    <3>2. Goal
      BY <2>1, <2>2, <2>4, <3>1, <1>e, <1>n, <1>a
    <3> QED  BY <2>1, <3>2, <1>g, Zenon
  <2>5. CASE ~Ended(s) /\ ~Duration
    <3>1. /\ More(s) <=> scnt[s] < Iters \/ rcnt[s] < Iters
          /\ Expects(s) <=> rcnt[s] < Iters /\ ~(scnt[s] < 1 /\ s = CLIENT)
      BY <2>5, <1>e, Zenon DEF More, Expects
    <3>2. /\ posted[s] = b + scnt[s] /\ Noticed(s) = b + rcnt[s]
          /\ \/ posted[s] = Noticed(s) + Ahead(s)
             \/ s = CLIENT /\ posted[s] = Noticed(s) /\ (scnt[s] = 0 \/ scnt[s] = Iters)
          /\ iters[s] = Iters /\ scnt[s] <= Iters /\ rcnt[s] <= Iters
      BY <2>1, <2>5, <1>e, <1>n
    <3>3. CASE ~More(s)
      <4>1. Range
        BY <2>1, <2>2, <1>e, Zenon
      <4>2. Turn /\ Tally /\ Limit
        BY <2>1, <2>2, <2>5, <3>1, <3>2, <3>3, <1>n
      <4> QED  BY <2>1, <3>3, <4>1, <4>2, <1>g, Zenon
    <3>4. CASE More(s) /\ Expects(s)
      <4>1. posted[s] = Noticed(s) + Ahead(s)
        BY <3>1, <3>2, <3>4, <1>n
      <4>2. Range
        BY <2>1, <2>2, <4>1, <1>n, <1>a, SMTT(30)
      <4>3. Turn /\ Tally /\ Limit
        BY <2>1, <2>2, <2>5, <3>1, <3>2, <3>4, <4>1, <1>n
      <4> QED  BY <2>1, <3>4, <4>2, <4>3, <1>g, Zenon
    <3>5. CASE More(s) /\ ~Expects(s)
      <4>1. posted[s] = Noticed(s) + Ahead(s) - 1
        BY <3>1, <3>2, <3>5, <1>n, <1>a
      <4> QED  BY <2>1, <2>2, <2>5, <3>1, <3>2, <3>5, <4>1, <1>n, <1>a, <1>g
    <3> QED  BY <3>3, <3>4, <3>5, Zenon
  <2> QED  BY <2>3, <2>4, <2>5, Zenon
<1>2. CASE Recv(s)
  <2>1. /\ pc[s] = "recv" /\ ~Ended(s) /\ UNCHANGED <<up, size, scnt, posted>>
        /\ rcnt'[s] = rcnt[s] + 1 /\ pc'[s] = "count"
    BY <1>2, Zenon DEF Recv, TypeOK, histVars
  <2>2. ~Duration => iters'[s] = iters[s]
    BY <1>2, Zenon DEF Recv, set_on_first_rx_packet
  <2>3. Noticed(s)' = Noticed(s) + 1
    BY <2>1, <1>b, <1>n
  <2>4. /\ posted[s] = Noticed(s) + Ahead(s) /\ posted[s] = b + scnt[s]
        /\ ~Duration => iters[s] = Iters /\ scnt[s] <= Iters /\ rcnt[s] < Iters
    BY <2>1, <1>e, <1>n
  <2>5. Goal
    <3>1. Range
      <4>1. /\ posted'[s] = Noticed(s)' + Ahead(s) - 1
            /\ Noticed(s)' \in Nat /\ Ahead(s) \in Nat
        BY <2>1, <2>3, <2>4, <1>n, <1>a
      <4> QED  BY <4>1
    <3>2. Turn
      BY <2>1, <2>2, <2>3, <2>4, <1>n, <1>a, Zenon
    <3>3. Tally
      BY <2>1, <2>2, <2>3, <2>4, <1>n, <1>a
    <3>4. Limit
      BY <2>1, <2>2, <2>3, <2>4, <1>n, <1>a
    <3> QED  BY <3>1, <3>2, <3>3, <3>4, Zenon
  <2> QED  BY <2>1, <2>5, <1>g, Zenon
<1>3. CASE Count(s)
  <2>1. /\ pc[s] = "count" /\ UNCHANGED <<up, size, scnt, rcnt, posted>> /\ pc'[s] = "send"
        /\ Ended(s)' = Ended(s)
    BY <1>3, Zenon DEF Count, TypeOK, histVars, timeVars, Ended, Duration
  <2>2. ~Duration => iters'[s] = iters[s]
    BY <1>3, Zenon DEF Count
  <2>3. Noticed(s)' = Noticed(s)
    BY <2>1, <1>b, <1>n, Zenon
  <2>4. Goal
    BY <2>1, <2>2, <2>3, <1>e, Zenon
  <2> QED  BY <2>1, <2>4, <1>g, Zenon
<1>4. CASE RecvEnds(s)
  <2>1. /\ pc[s] = "recv" /\ UNCHANGED <<up, size, scnt, rcnt, posted>> /\ pc'[s] = "send"
        /\ Duration /\ Ended(s)'
    BY <1>4, Zenon DEF RecvEnds, TypeOK, histVars, timeVars, Ended, Duration
  <2>2. Noticed(s)' = Noticed(s)
    BY <2>1, <1>b, <1>n, Zenon
  <2>3. Goal
    BY <2>1, <2>2, <1>e, Zenon
  <2> QED  BY <2>1, <2>3, <1>g, Zenon
<1>5. CASE Send(s)
  <2>1. /\ pc[s] = "send" /\ UNCHANGED <<up, iters, size, rcnt, posted>>
        /\ Ended(s)' = Ended(s) /\ (Duration => scnt[s] < MaxSends \/ state[s] = "END")
    BY <1>5, Zenon DEF Send, TypeOK, histVars, timeVars, Ended, Duration
  <2>2. CASE scnt[s] < iters[s] \/ (Duration /\ state[s] # "END")
    <3>1. scnt'[s] = scnt[s] + 1 /\ pc'[s] = "post"
      BY <1>5, <2>2 DEF Send, TypeOK
    <3>2. Noticed(s)' = Noticed(s)
      BY <2>1, <3>1, <1>b, <1>n, Zenon
    <3>3. ~Ended(s) => posted[s] = Noticed(s) + Ahead(s) - 1 /\ posted[s] = b + scnt[s]
      BY <2>1, <1>e, <1>n
    <3>4. /\ Duration /\ ~Ended(s) => scnt[s] < MaxSends
          /\ ~Duration => iters[s] = Iters /\ scnt[s] < Iters /\ rcnt[s] <= Iters
      BY <2>1, <2>2, <1>e, Zenon DEF Ended
    <3>5. posted[s] - Noticed(s) \in (Ahead(s) - 1)..Ahead(s)
      BY <1>e, Zenon
    <3>6. Goal
      <4>1. Range
        BY <2>1, <3>1, <3>2, <3>3, <3>4, <3>5, <1>n, <1>a, Zenon
      <4>2. Turn
        BY <2>1, <3>1, <3>2, <3>3, <3>4, <3>5, <1>n, <1>a, Zenon
      <4>3. Tally
        BY <2>1, <3>1, <3>2, <3>3, <3>4, <3>5, <1>n, <1>a
      <4>4. Limit
        BY <2>1, <3>1, <3>2, <3>3, <3>4, <3>5, <1>n, <1>a
      <4> QED  BY <4>1, <4>2, <4>3, <4>4, Zenon
    <3> QED  BY <2>1, <3>1, <3>6, <1>g, Zenon
  <2>3. CASE ~(scnt[s] < iters[s] \/ (Duration /\ state[s] # "END"))
    <3>1. scnt'[s] = scnt[s] /\ pc'[s] = "top"
      BY <1>5, <2>3, Zenon DEF Send, TypeOK
    <3>2. Noticed(s)' = Noticed(s)
      BY <2>1, <3>1, <1>b, <1>n, Zenon
    <3>3. Goal
      <4>1. CASE Duration
        BY <2>1, <2>3, <3>1, <3>2, <4>1, <1>e, Zenon DEF Ended
      <4>2. CASE ~Duration
        <5>1. ~Ended(s) /\ scnt[s] = Iters
          BY <2>3, <4>2, <1>e, <1>n DEF Ended
        <5>2. s = CLIENT
          BY <2>1, <4>2, <5>1, <1>e, <1>n, <1>a
        <5> QED  BY <2>1, <3>1, <3>2, <4>2, <5>1, <5>2, <1>e, <1>n, <1>a
      <4> QED  BY <4>1, <4>2, Zenon
    <3> QED  BY <2>1, <3>1, <3>3, <1>g, Zenon
  <2> QED  BY <2>2, <2>3, Zenon
<1>6. CASE Post(s)
  <2>1. /\ pc[s] = "post" /\ UNCHANGED <<up, iters, size, scnt, rcnt>> /\ Ended(s)' = Ended(s)
    BY <1>6, Zenon DEF Post, TypeOK, timeVars, Ended, Duration
  <2>2. CASE Ended(s)
    <3>1. posted'[s] = posted[s] /\ pc'[s] = "report" /\ Duration
      BY <1>6, <2>2, Zenon DEF Post, TypeOK, Ended
    <3>2. Noticed(s)' = Noticed(s)
      BY <2>1, <3>1, <1>b, <1>n, Zenon
    <3>3. Goal
      BY <2>1, <2>2, <3>1, <3>2, <1>e, Zenon
    <3> QED  BY <2>1, <3>1, <3>3, <1>g, Zenon
  <2>3. CASE ~Ended(s)
    <3>1. posted'[s] = posted[s] + 1 /\ pc'[s] \in {"spoll", "top"}
      BY <1>6, <2>3, Zenon DEF Post, AfterPost, TypeOK
    <3>2. Noticed(s)' = Noticed(s)
      BY <2>1, <3>1, <1>b, <1>n, Zenon
    <3>3. /\ posted[s] = Noticed(s) + Ahead(s) - 1 /\ posted[s] = b + scnt[s] - 1
          /\ ~Duration => iters[s] = Iters /\ scnt[s] <= Iters /\ rcnt[s] <= Iters
      BY <2>1, <2>3, <1>e, Zenon
    <3>4. Goal
      <4>1. Range
        <5>1. posted'[s] - Noticed(s)' \in (Ahead(s) - 1)..Ahead(s)
          <6>1. \A x, n \in Nat, k \in {0, 1} : x = n + k - 1 => (x + 1) - n \in (k - 1)..k
            OBVIOUS
          <6>2. posted[s] \in Nat /\ Noticed(s) \in Nat /\ Ahead(s) \in {0, 1}
            BY <1>n, <1>a, Zenon
          <6>3. (posted[s] + 1) - Noticed(s) \in (Ahead(s) - 1)..Ahead(s)
            BY <3>3, <6>1, <6>2, Zenon
          <6> QED  BY <3>1, <3>2, <6>3, Zenon
        <5>2. pc'[s] # "count"
          BY <3>1, Zenon
        <5> QED  BY <5>1, <5>2, Zenon
      <4>2. Turn
        BY <2>1, <3>1, <3>2, <3>3, <1>n, <1>a
      <4>3. Tally
        BY <2>1, <3>1, <3>2, <3>3, <1>n, <1>a
      <4>4. Limit
        BY <2>1, <3>1, <3>2, <3>3, <1>n, <1>a, Zenon
      <4> QED  BY <4>1, <4>2, <4>3, <4>4, Zenon
    <3> QED  BY <2>1, <3>1, <3>4, <1>g, Zenon
  <2> QED  BY <2>2, <2>3, Zenon
<1>7. CASE SendPoll(s)
  <2>1. /\ pc[s] = "spoll" /\ UNCHANGED <<up, iters, size, scnt, rcnt, posted>>
        /\ pc'[s] = "top" /\ Ended(s)' = Ended(s)
    BY <1>7, Zenon DEF SendPoll, TypeOK, timeVars, Ended, Duration
  <2>2. Noticed(s)' = Noticed(s)
    BY <2>1, <1>b, <1>n, Zenon
  <2>3. Goal
    BY <2>1, <2>2, <1>e, Zenon
  <2> QED  BY <2>1, <2>3, <1>g, Zenon
<1>8. CASE Report(s)
  <2>1. /\ pc[s] = "report" /\ UNCHANGED <<up, iters, scnt, rcnt, posted>> /\ Ended(s)' = Ended(s)
    BY <1>8, Zenon DEF Report, TypeOK, timeVars, histVars, Ended, Duration
  <2>2. CASE size[s] < LastSize
    <3>1. size'[s] = size[s] + 1 /\ pc'[s] = "ready"
      BY <1>8, <2>2 DEF Report, TypeOK
    <3>2. ~Duration /\ ~Duration' /\ ~Ended(s)
      BY <2>1, <2>2, <1>n DEF LastSize, Duration, Ended
    <3>3. scnt[s] = Iters /\ rcnt[s] = Iters /\ posted[s] = b + Iters
      BY <2>1, <3>2, <1>e, <1>n
    <3>4. Noticed(s)' = b + Iters
      BY <3>1, <1>n DEF Noticed, b, Before
    <3> QED  BY <2>1, <3>1, <3>2, <3>3, <3>4, <1>e, <1>n, <1>a, Zenon DEF InTurn, Ahead
  <2>3. CASE ~(size[s] < LastSize)
    <3>1. size'[s] = size[s] /\ pc'[s] = "done"
      BY <1>8, <2>3, Zenon DEF Report, TypeOK
    <3>2. Noticed(s)' = Noticed(s)
      BY <2>1, <3>1, <1>b, <1>n, Zenon
    <3>3. Goal
      BY <2>1, <3>1, <3>2, <1>e, Zenon
    <3> QED  BY <2>1, <3>1, <3>3, <1>g, Zenon
  <2> QED  BY <2>2, <2>3, Zenon
<1> QED  BY <1>1, <1>2, <1>3, <1>4, <1>5, <1>6, <1>7, <1>8, Zenon DEF Loop

(* A step of one side leaves the loop of the other alone. *)
LEMMA Others ==
    ASSUME TypeOK, NEW s \in Side, NEW t \in Side, t # s,
           Loop(s) \/ catch_alarm(s) \/ Adapter(s)
    PROVE  /\ UNCHANGED up
           /\ state'[t] = state[t] /\ iters'[t] = iters[t] /\ pc'[t] = pc[t]
           /\ size'[t] = size[t] /\ scnt'[t] = scnt[t] /\ rcnt'[t] = rcnt[t]
           /\ posted'[t] = posted[t]
<1>d. /\ DOMAIN pc = Side /\ DOMAIN size = Side /\ DOMAIN scnt = Side
      /\ DOMAIN rcnt = Side /\ DOMAIN posted = Side
  BY Zenon DEF TypeOK
<1>1. CASE Top(s) \/ RecvEnds(s) \/ SendPoll(s)
  BY <1>1, Zenon DEF Top, RecvEnds, SendPoll, TypeOK, timeVars, histVars
<1>2. CASE Recv(s)
  <2>1. /\ state' = state \/ \E v : state' = [state EXCEPT ![s] = v]
        /\ iters' = iters \/ iters' = [iters EXCEPT ![s] = 0]
    BY <1>2, Zenon DEF Recv, set_on_first_rx_packet, timeVars
  <2>2. state'[t] = state[t] /\ iters'[t] = iters[t]
    BY <2>1, Zenon DEF TypeOK
  <2> QED  BY <1>2, <2>2, Zenon DEF Recv, TypeOK, histVars
<1>3. CASE Count(s)
  BY <1>3, Zenon DEF Count, TypeOK, timeVars, histVars
<1>4. CASE Send(s)
  BY <1>4, <1>d, Zenon DEF Send, timeVars, histVars
<1>8. CASE Post(s)
  BY <1>8, <1>d, Zenon DEF Post, timeVars, histVars
<1>5. CASE Report(s)
  BY <1>5, <1>d, Zenon DEF Report, timeVars, histVars
<1>6. CASE catch_alarm(s)
  BY <1>6, Zenon DEF catch_alarm, TypeOK, loopVars, histVars
<1>7. CASE Adapter(s)
  BY <1>7, Zenon DEF Adapter, Deliver, Complete, timeVars, loopVars, histVars
<1> QED  BY <1>1, <1>2, <1>3, <1>4, <1>5, <1>6, <1>7, <1>8, Zenon DEF Loop

LEMMA TurnNext ==
    ASSUME TypeOK, [Next]_vars, NEW t \in Side, InTurn(t) PROVE InTurn(t)'
<1>1. ASSUME NEW s \in Side, Loop(s) \/ catch_alarm(s) \/ Adapter(s), t # s PROVE InTurn(t)'
  <2>1. /\ UNCHANGED up
        /\ state'[t] = state[t] /\ iters'[t] = iters[t] /\ pc'[t] = pc[t]
        /\ size'[t] = size[t] /\ scnt'[t] = scnt[t] /\ rcnt'[t] = rcnt[t]
        /\ posted'[t] = posted[t]
    BY <1>1, Others, Zenon
  <2> QED  BY <2>1, InTurnSame, Zenon DEF Ended, Duration
<1>2. CASE Loop(t)
  BY <1>2, OwnTurn, Zenon
<1>3. CASE catch_alarm(t)
  BY <1>3, InTurnSame, Zenon DEF catch_alarm, loopVars, histVars, Ended
<1>4. CASE Adapter(t)
  BY <1>4, InTurnSame, Zenon DEF Adapter, Deliver, Complete, timeVars, loopVars, histVars, Ended, Duration
<1>5. CASE HandShake
  <2>1. /\ pc[t] = "ready" /\ pc'[t] = "top" /\ scnt'[t] = 0 /\ rcnt'[t] = 0
        /\ UNCHANGED <<up, state, iters, size, posted>>
    BY <1>5, Zenon DEF HandShake, timeVars, histVars
  <2>2. /\ size[t] \in Nat \ {0} /\ Before(t) \in Nat /\ Noticed(t) = Before(t)
        /\ Iters \in Nat \ {0} /\ posted[t] = Before(t)
    BY <2>1, Numbers, Constants DEF InTurn
  <2>3. Noticed(t)' = Before(t) /\ Before(t)' = Before(t)
    BY <2>1, <2>2 DEF Noticed, Before
  <2>4. posted'[t] = (size'[t] - 1) * Iters + scnt'[t] - 0
    BY <2>1, <2>2 DEF Before
  <2>5. posted'[t] - Noticed(t)' \in (Ahead(t) - 1)..Ahead(t)
    BY <2>1, <2>2, <2>3 DEF Ahead
  <2>6. ~Duration => iters[t] = Iters
    BY Zenon DEF InTurn
  <2>7. Duration => size[t] = 1
    BY Zenon DEF InTurn
  <2>8. t # CLIENT => posted'[t] = Noticed(t)' + Ahead(t)
    BY <2>1, <2>2, <2>3 DEF Ahead
  <2>9. posted'[t] = Noticed(t)' /\ Duration' = Duration /\ Ahead(t)' = Ahead(t)
    BY <2>1, <2>2, <2>3, Zenon DEF Duration, Ahead
  <2> QED  BY <2>1, <2>2, <2>4, <2>5, <2>6, <2>7, <2>8, <2>9, SMTT(20) DEF InTurn
<1>6. CASE UNCHANGED vars
  BY <1>6, InTurnSame, Zenon DEF vars, timeVars, loopVars, histVars, Ended, Duration
<1> QED  BY <1>1, <1>2, <1>3, <1>4, <1>5, <1>6, Zenon DEF Next, Finished

LEMMA SameSizeNext == TypeOK /\ SameSize /\ [Next]_vars => SameSize'
<1> SUFFICES ASSUME TypeOK, SameSize, [Next]_vars PROVE SameSize'
  BY Zenon
<1>n. \A t \in Side : size[t] \in Nat
  BY Numbers, Zenon
<1>1. ASSUME NEW s \in Side, Loop(s) PROVE Begun(s)' = Begun(s)
  <2>1. CASE Report(s)
    <3>1. /\ pc[s] = "report"
          /\ \/ pc'[s] = "ready" /\ size'[s] = size[s] + 1
             \/ pc'[s] = "done" /\ size'[s] = size[s]
      BY <2>1 DEF Report, TypeOK
    <3> QED  BY <3>1, <1>n DEF Begun
  <2>2. CASE ~Report(s)
    <3>1. UNCHANGED size /\ pc[s] # "ready" /\ pc'[s] # "ready"
      BY <1>1, <2>2, Zenon DEF Loop, Top, Recv, Count, RecvEnds, Send, Post, AfterPost, SendPoll, TypeOK
    <3> QED  BY <3>1, Zenon DEF Begun
  <2> QED  BY <2>1, <2>2, Zenon
<1>2. ASSUME NEW s \in Side, Loop(s) PROVE SameSize'
  <2>1. ASSUME NEW t \in Side PROVE Begun(t)' = Begun(t)
    <3>1. CASE t = s
      BY <1>1, <1>2, <3>1, Zenon
    <3>2. CASE t # s
      BY <1>2, <3>2, Others, Zenon DEF Begun
    <3> QED  BY <3>1, <3>2, Zenon
  <2> QED  BY <2>1, Sides DEF SameSize
<1>3. ASSUME NEW s \in Side, catch_alarm(s) \/ Adapter(s) PROVE SameSize'
  BY <1>3, Zenon DEF catch_alarm, Adapter, Deliver, Complete, loopVars, SameSize, Begun
<1>4. CASE HandShake
  BY <1>4, <1>n, Sides DEF HandShake, SameSize, Begun
<1>5. CASE UNCHANGED vars
  BY <1>5, Zenon DEF vars, loopVars, SameSize, Begun
<1> QED  BY <1>2, <1>3, <1>4, <1>5, Zenon DEF Next, Finished

-----------------------------------------------------------------------------
(* Messages and receives.                                                  *)

LEMMA KeptInit == Init => \A t \in Side : Kept(t)
<1> SUFFICES ASSUME Init, NEW t \in Side PROVE Kept(t)
  BY Zenon
<1>1. /\ pc[t] = "ready" /\ size[t] = 1 /\ rcq[t] = 0 /\ recvq[t] = up.rx_depth
      /\ posted[Peer(t)] = 0 /\ wire[Peer(t)] = <<>>
  BY Sides, Zenon DEF Init
<1>2. up.rx_depth \in Nat
  BY Constants, Zenon DEF Init
<1>3. Noticed(t) = 0
  BY <1>1, Constants DEF Noticed
<1>4. Lost(t) = 0
  <2>1. Len(wire[Peer(t)]) = 0
    BY <1>1, Zenon
  <2>2. Lost(t) = 0 - 0 - 0 - 0
    BY <1>1, <1>3, <2>1, Zenon DEF Lost
  <2> QED  BY <2>2
<1> QED  BY <1>1, <1>2, <1>4 DEF Kept, Needed

(* What Lost(t) becomes when nothing is posted to t and nothing delivered. *)
LEMMA LostMoves ==
    ASSUME TypeOK, TypeOK', NEW t \in Side,
           posted'[Peer(t)] = posted[Peer(t)], wire'[Peer(t)] = wire[Peer(t)]
    PROVE  Lost(t)' = Lost(t) + (Noticed(t) - Noticed(t)') + (rcq[t] - rcq'[t])
<1>1. /\ posted[Peer(t)] \in Nat /\ Len(wire[Peer(t)]) \in Nat
      /\ Noticed(t) \in Nat /\ rcq[t] \in Nat /\ Noticed(t)' \in Nat /\ rcq'[t] \in Nat
  <2>1. Noticed(t)' \in Nat /\ rcq'[t] \in Nat
    <3>1. size'[t] \in 1..Sizes /\ rcnt'[t] \in Nat /\ rcq'[t] \in Nat
      BY Zenon DEF TypeOK
    <3>2. (size'[t] - 1) * Iters \in Nat
      BY <3>1, Constants
    <3> QED  BY <3>1, <3>2 DEF Noticed
  <2> QED  BY <2>1, Numbers, Sides, Zenon
<1> DEFINE w == Len(wire[Peer(t)])
<1>2. /\ Lost(t) = posted[Peer(t)] - Noticed(t) - rcq[t] - w
      /\ Lost(t)' = posted[Peer(t)] - Noticed(t)' - rcq'[t] - w
  BY Zenon DEF Lost
<1>3. w \in Nat
  BY <1>1, Zenon
<1> HIDE DEF w
<1>4. PICK p \in Nat, n \in Nat, m \in Nat, r \in Nat, q \in Nat :
          /\ p = posted[Peer(t)] /\ n = Noticed(t) /\ m = Noticed(t)'
          /\ r = rcq[t] /\ q = rcq'[t]
  BY <1>1, Zenon
<1>5. p - m - q - w = (p - n - r - w) + (n - m) + (r - q)
  BY <1>3
<1> QED  BY <1>2, <1>4, <1>5, Zenon

LEMMA KeptSame ==
    ASSUME NEW t \in Side, Kept(t), UNCHANGED up, Lost(t)' = Lost(t),
           rcq'[t] = rcq[t], recvq'[t] = recvq[t], rcnt'[t] = rcnt[t],
           ~Duration => iters'[t] = iters[t],
           Ended(t) => Ended(t)',
           pc'[t] = "count" <=> pc[t] = "count", pc'[t] = "ready" <=> pc[t] = "ready"
    PROVE  Kept(t)'
<1>1. Duration' = Duration /\ Needed(t)' = Needed(t)
  BY Zenon DEF Duration, Needed
<1>2. ~Duration => Reposts(t)' = Reposts(t)
  BY <1>1, Zenon DEF Reposts
<1> QED  BY <1>1, <1>2, Zenon DEF Kept

(* The steps of t itself. *)
LEMMA OwnKept ==
    ASSUME TypeOK, NEW t \in Side, InTurn(t), Kept(t), Loop(t) \/ catch_alarm(t)
    PROVE  Kept(t)'
<1>p. Peer(t) \in Side /\ Peer(t) # t
  BY Sides, Zenon
<1>t. TypeOK'
  BY TypeNext, Zenon DEF Next
<1>n. /\ rcnt[t] \in Nat /\ Before(t) \in Nat /\ Noticed(t) \in Nat
      /\ Noticed(t) = Before(t) + IF pc[t] = "ready" THEN 0 ELSE rcnt[t]
      /\ recvq[t] \in Nat /\ rcq[t] \in Nat /\ Iters \in Nat \ {0}
  BY Numbers, Constants, Zenon
<1>u. up.rx_depth \in Nat \ {0}
  BY Constants, Zenon DEF TypeOK
<1>l. Lost(t) \in Nat /\ (Lost(t) > 0 => Ended(t))
  BY Zenon DEF Kept
<1>i. ~Duration => iters[t] = Iters /\ rcnt[t] <= Iters
  BY Zenon DEF InTurn
<1>w. posted'[Peer(t)] = posted[Peer(t)] /\ wire'[Peer(t)] = wire[Peer(t)]
  <2>1. CASE Post(t)
    <3>1. /\ posted' = posted \/ posted' = [posted EXCEPT ![t] = @ + 1]
          /\ wire' = wire \/ wire' = [wire EXCEPT ![t] = Append(@, poll[t])]
      BY <2>1, Zenon DEF Post
    <3>2. posted \in [Side -> Nat] /\ wire \in [Side -> Seq({OFF, ON})]
      BY Zenon DEF TypeOK
    <3> QED  BY <1>p, <3>1, <3>2, Zenon
  <2>2. CASE ~Post(t)
    <3>1. UNCHANGED <<posted, wire>>
      BY <2>2, Zenon DEF Loop, Top, Recv, Count, RecvEnds, Send, SendPoll, Report, catch_alarm,
                  histVars, wireVars
    <3> QED  BY <3>1, Zenon
  <2> QED  BY <2>1, <2>2, Zenon
<1>m. Lost(t)' = Lost(t) + (Noticed(t) - Noticed(t)') + (rcq[t] - rcq'[t])
  BY <1>t, <1>w, LostMoves, Zenon
<1>k. ASSUME Noticed(t)' = Noticed(t), rcq'[t] = rcq[t] PROVE Lost(t)' = Lost(t)
  BY <1>k, <1>m, <1>n, <1>l
<1>b. ASSUME size'[t] = size[t]
      PROVE  Noticed(t)' = Before(t) + IF pc'[t] = "ready" THEN 0 ELSE rcnt'[t]
  <2>1. rcnt'[t] \in Nat
    BY <1>t, Zenon DEF TypeOK
  <2> QED  BY <1>b, <1>n, <2>1 DEF Noticed, Before
<1>1. CASE Top(t) \/ Send(t) \/ Post(t) \/ SendPoll(t) \/ catch_alarm(t)
  <2>1. /\ UNCHANGED <<up, iters, size, rcnt, recvq, rcq>> /\ (Ended(t) => Ended(t)')
        /\ pc'[t] = "count" <=> pc[t] = "count"
        /\ pc'[t] = "ready" <=> pc[t] = "ready"
    <3>1. CASE Top(t) \/ SendPoll(t)
      BY <3>1, Zenon DEF Top, SendPoll, timeVars, wireVars, Ended, Duration, TypeOK
    <3>2. CASE Send(t) \/ Post(t)
      BY <3>2, Zenon DEF Send, Post, AfterPost, timeVars, wireVars, Ended, Duration, TypeOK
    <3>3. CASE catch_alarm(t)
      BY <3>3, Zenon DEF catch_alarm, loopVars, wireVars, Ended
    <3> QED  BY <1>1, <3>1, <3>2, <3>3, Zenon
  <2>2. Noticed(t)' = Noticed(t)
    BY <2>1, <1>b, <1>n, Zenon
  <2>3. Lost(t)' = Lost(t)
    BY <2>1, <2>2, <1>k, Zenon
  <2> QED  BY <2>1, <2>3, KeptSame, Zenon
<1>2. CASE Recv(t)
  <2>1. /\ pc[t] = "recv" /\ ~Ended(t) /\ UNCHANGED <<up, size, recvq>>
        /\ rcq[t] > 0 /\ rcq'[t] = rcq[t] - 1 /\ rcnt'[t] = rcnt[t] + 1 /\ pc'[t] = "count"
        /\ ~Duration => iters'[t] = iters[t]
    <3>1. ~Duration => iters'[t] = iters[t]
      BY <1>2, Zenon DEF Recv, set_on_first_rx_packet
    <3> QED  BY <1>2, <3>1, Zenon DEF Recv, TypeOK
  <2>2. Noticed(t)' = Noticed(t) + 1
    BY <2>1, <1>b, <1>n
  <2>3. Lost(t)' = 0 /\ Lost(t) = 0
    BY <2>1, <2>2, <1>m, <1>n, <1>l
  <2>4. Duration' = Duration
    BY <2>1, Zenon DEF Duration
  <2>5. CASE Duration
    BY <2>1, <2>3, <2>4, <2>5, <1>n, <1>u DEF Kept
  <2>6. CASE ~Duration
    <3>1. Reposts(t)' <=> rcnt[t] + 1 + up.rx_depth <= Iters
      BY <2>1, <2>4, <2>6, <1>i, Zenon DEF Reposts
    <3>2. Needed(t)' = IF rcnt[t] + 1 + up.rx_depth <= Iters THEN up.rx_depth
                       ELSE Iters - (rcnt[t] + 1)
      BY <2>1, Zenon DEF Needed
    <3>3. recvq[t] + rcq[t] >= IF rcnt[t] + up.rx_depth <= Iters THEN up.rx_depth
                               ELSE Iters - rcnt[t]
      BY <2>1, <2>6, <1>n, <1>u, SMTT(20) DEF Kept, Needed
    <3> QED  BY <2>1, <2>3, <2>4, <2>6, <3>1, <3>2, <3>3, <1>n, <1>u, <1>i DEF Kept
  <2> QED  BY <2>5, <2>6, Zenon
<1>3. CASE Count(t)
  <2>1. /\ pc[t] = "count" /\ pc'[t] = "send" /\ UNCHANGED <<up, state, size, rcnt, rcq>>
        /\ ~Duration => iters'[t] = iters[t]
        /\ recvq'[t] = IF Reposts(t) THEN recvq[t] + 1 ELSE recvq[t]
    BY <1>3, Zenon DEF Count, timeVars, TypeOK
  <2>2. Noticed(t)' = Noticed(t)
    BY <2>1, <1>b, <1>n, Zenon
  <2>3. Lost(t)' = Lost(t)
    BY <2>1, <2>2, <1>k, Zenon
  <2>4. Duration' = Duration /\ Ended(t)' = Ended(t)
    BY <2>1, Zenon DEF Duration, Ended
  <2>5. Duration => Reposts(t)
    BY Zenon DEF Reposts
  <2>6. Needed(t)' = Needed(t)
    BY <2>1, Zenon DEF Needed
  <2>7. Needed(t) \in Int
    BY <1>n, <1>u DEF Needed
  <2>8. CASE Duration
    <3>1. recvq'[t] = recvq[t] + 1 /\ rcq'[t] = rcq[t]
      BY <2>1, <2>5, <2>8, Zenon
    <3>2. recvq[t] + rcq[t] + Lost(t) + 1 = up.rx_depth
      BY <2>1, <2>8, Zenon DEF Kept
    <3>3. recvq'[t] + rcq'[t] + Lost(t)' + 0 = up.rx_depth
      BY <3>1, <3>2, <2>3, <1>n, <1>l
    <3> QED  BY <2>1, <2>3, <2>4, <2>8, <3>3, <1>l, Zenon DEF Kept
  <2>9. CASE ~Duration
    <3>1. recvq[t] + rcq[t] + (IF Reposts(t) THEN 1 ELSE 0) >= Needed(t)
      BY <2>1, <2>9, Zenon DEF Kept
    <3>2. recvq'[t] + rcq'[t] + 0 >= Needed(t)
      BY <2>1, <2>7, <3>1, <1>n
    <3> QED  BY <2>1, <2>3, <2>4, <2>6, <2>9, <3>2, <1>l, Zenon DEF Kept
  <2> QED  BY <2>8, <2>9, Zenon
<1>4. CASE RecvEnds(t)
  <2>1. /\ pc[t] = "recv" /\ pc'[t] = "send" /\ UNCHANGED <<up, state, size, rcnt, recvq>>
        /\ rcq'[t] = (IF rcq[t] > 0 THEN rcq[t] - 1 ELSE 0) /\ Duration /\ Ended(t)
    BY <1>4, Zenon DEF RecvEnds, timeVars, TypeOK, Ended
  <2>2. Noticed(t)' = Noticed(t)
    BY <2>1, <1>b, <1>n, Zenon
  <2>3. Lost(t)' = Lost(t) + (rcq[t] - rcq'[t])
    BY <2>1, <2>2, <1>m, <1>n, <1>l
  <2>4. Duration' /\ Ended(t)'
    BY <2>1, Zenon DEF Duration, Ended
  <2> QED  BY <2>1, <2>3, <2>4, <1>n, <1>u, <1>l DEF Kept
<1>5. CASE Report(t)
  <2>1. pc[t] = "report" /\ UNCHANGED <<up, state, iters, rcnt, rcq>>
    BY <1>5, Zenon DEF Report, timeVars, TypeOK
  <2>4. Duration' = Duration /\ Ended(t)' = Ended(t)
    BY <2>1, Zenon DEF Duration, Ended
  <2>2. CASE size[t] < LastSize
    <3>1. pc'[t] = "ready" /\ size'[t] = size[t] + 1 /\ recvq'[t] = recvq[t] + up.rx_depth
      BY <1>5, <2>2 DEF Report, TypeOK
    <3>2. ~Duration /\ rcnt[t] = Iters
      <4>1. size[t] \in Nat \ {0}
        BY Numbers, Zenon
      <4>2. ~Duration
        BY <2>2, <4>1 DEF LastSize
      <4> QED  BY <2>1, <4>2, Zenon DEF InTurn
    <3>3. Noticed(t)' = Noticed(t)
      <4>1. size[t] \in Nat \ {0}
        BY Numbers, Zenon
      <4>2. Noticed(t)' = Before(t) + Iters
        BY <3>1, <4>1, <1>n, SMTT(20) DEF Noticed, Before
      <4> QED  BY <2>1, <3>2, <4>2, <1>n, Zenon
    <3>4. Lost(t)' = Lost(t)
      BY <2>1, <3>3, <1>k, Zenon
    <3>5. Needed(t)' = up.rx_depth
      BY <2>1, <3>1, Zenon DEF Needed
    <3> QED  BY <2>1, <2>4, <3>1, <3>2, <3>4, <3>5, <1>n, <1>u, <1>l DEF Kept
  <2>3. CASE ~(size[t] < LastSize)
    <3>1. pc'[t] = "done" /\ size'[t] = size[t] /\ recvq'[t] = recvq[t]
      BY <1>5, <2>3, Zenon DEF Report, TypeOK
    <3>2. Noticed(t)' = Noticed(t)
      BY <2>1, <3>1, <1>b, <1>n, Zenon
    <3>3. Lost(t)' = Lost(t)
      BY <2>1, <3>2, <1>k, Zenon
    <3> QED  BY <2>1, <2>4, <3>1, <3>3, KeptSame, Zenon
  <2> QED  BY <2>2, <2>3, Zenon
<1> QED  BY <1>1, <1>2, <1>3, <1>4, <1>5, Zenon DEF Loop

(* The steps of the peer and of the adapters: what is posted goes on the   *)
(* wire, and what is delivered takes a receive.                            *)
LEMMA OthersKept ==
    ASSUME TypeOK, NEW t \in Side, Kept(t),
           Loop(Peer(t)) \/ catch_alarm(Peer(t)) \/ Adapter(Peer(t)) \/ Adapter(t)
    PROVE  Kept(t)'
<1> DEFINE p == Peer(t)
<1>p. p \in Side /\ p # t /\ Peer(p) = t
  BY Sides, Zenon
<1>n. /\ posted[p] \in Nat /\ Noticed(t) \in Nat /\ rcq[t] \in Nat /\ recvq[t] \in Nat
  BY <1>p, Numbers, Zenon
<1>l. Len(wire[p]) \in Nat
  BY <1>p, Numbers, Zenon
<1> HIDE DEF p
<1>o. ASSUME Loop(p) \/ catch_alarm(p) \/ Adapter(p)
      PROVE  /\ UNCHANGED up
             /\ iters'[t] = iters[t] /\ pc'[t] = pc[t] /\ rcnt'[t] = rcnt[t]
             /\ (Ended(t) => Ended(t)') /\ Noticed(t)' = Noticed(t)
  <2>1. /\ UNCHANGED up
        /\ state'[t] = state[t] /\ iters'[t] = iters[t] /\ pc'[t] = pc[t]
        /\ size'[t] = size[t] /\ rcnt'[t] = rcnt[t]
    BY <1>o, <1>p, Others, Zenon
  <2> QED  BY <2>1, Zenon DEF Noticed, Ended, Duration
<1>1. CASE (Loop(p) /\ ~Post(p)) \/ catch_alarm(p)
  <2>1. UNCHANGED <<posted, wire>>
    BY <1>1, Zenon DEF Loop, Top, Recv, Count, RecvEnds, Send, SendPoll, Report, catch_alarm,
                histVars, wireVars
  <2>2. rcq'[t] = rcq[t] /\ recvq'[t] = recvq[t]
    <3>1. /\ rcq' = rcq \/ \E v : rcq' = [rcq EXCEPT ![p] = v]
          /\ recvq' = recvq \/ \E v : recvq' = [recvq EXCEPT ![p] = v]
      BY <1>1, Zenon DEF Loop, Top, Recv, Count, RecvEnds, Send, SendPoll, Report, catch_alarm, wireVars
    <3>2. rcq \in [Side -> Nat] /\ recvq \in [Side -> Nat]
      BY Zenon DEF TypeOK
    <3> QED  BY <3>1, <3>2, <1>p, Zenon
  <2>3. Lost(t)' = Lost(t)
    BY <2>1, <2>2, <1>1, <1>o, Zenon DEF Lost
  <2> QED  BY <2>2, <2>3, <1>1, <1>o, KeptSame, Zenon
<1>2. CASE Post(p)
  <2>1. UNCHANGED <<rcq, recvq>>
    BY <1>2, Zenon DEF Post
  <2>2. \/ UNCHANGED <<posted, wire>>
        \/ posted'[p] = posted[p] + 1 /\ wire'[p] = Append(wire[p], poll[p])
    <3>1. \/ UNCHANGED <<posted, wire>>
          \/ posted' = [posted EXCEPT ![p] = @ + 1] /\ wire' = [wire EXCEPT ![p] = Append(@, poll[p])]
      BY <1>2, Zenon DEF Post
    <3>2. posted \in [Side -> Nat] /\ wire \in [Side -> Seq({OFF, ON})]
      BY Zenon DEF TypeOK
    <3> QED  BY <3>1, <3>2, <1>p, Zenon
  <2>3. Lost(t)' = Lost(t)
    <3>1. CASE UNCHANGED <<posted, wire>>
      BY <3>1, <2>1, <1>2, <1>o, Zenon DEF Lost, Loop
    <3>2. CASE posted'[p] = posted[p] + 1 /\ wire'[p] = Append(wire[p], poll[p])
      <4>1. Len(wire'[p]) = Len(wire[p]) + 1
        BY <3>2, <1>p DEF TypeOK
      <4>2. PICK w \in Nat : w = Len(wire[p])
        BY <1>l, Zenon
      <4>3. Noticed(t)' = Noticed(t) /\ rcq'[t] = rcq[t] /\ posted'[p] = posted[p] + 1
        BY <2>1, <3>2, <1>2, <1>o, Zenon DEF Loop
      <4>4. /\ Lost(t) = posted[p] - Noticed(t) - rcq[t] - w
            /\ Lost(t)' = posted'[p] - Noticed(t)' - rcq'[t] - (w + 1)
        BY <4>1, <4>2, Zenon DEF Lost, p
      <4> QED  BY <4>3, <4>4, <1>n
    <3> QED  BY <2>2, <3>1, <3>2, Zenon
  <2> QED  BY <2>1, <2>3, <1>2, <1>o, KeptSame, Zenon DEF Loop
<1>3. CASE Deliver(p)
  <2>1. /\ UNCHANGED <<posted, up>> /\ recvq[t] > 0 /\ recvq'[t] = recvq[t] - 1
        /\ rcq'[t] = rcq[t] + 1 /\ wire[p] # <<>> /\ wire'[p] = Tail(wire[p])
    BY <1>3, <1>p, Zenon DEF Deliver, TypeOK, histVars
  <2>2. Len(wire'[p]) = Len(wire[p]) - 1
    BY <2>1, <1>p DEF TypeOK
  <2>3. Lost(t)' = Lost(t)
    <3>1. PICK w \in Nat : w = Len(wire[p])
      BY <1>l, Zenon
    <3>2. Noticed(t)' = Noticed(t) /\ posted'[p] = posted[p] /\ rcq'[t] = rcq[t] + 1
      BY <2>1, <1>3, <1>o, Zenon DEF Adapter
    <3>3. /\ Lost(t) = posted[p] - Noticed(t) - rcq[t] - w
          /\ Lost(t)' = posted'[p] - Noticed(t)' - rcq'[t] - (w - 1)
      BY <2>2, <3>1, Zenon DEF Lost, p
    <3> QED  BY <3>2, <3>3, <1>n
  <2>4. recvq'[t] + rcq'[t] = recvq[t] + rcq[t]
    BY <2>1, <1>n
  <2>5. /\ iters'[t] = iters[t] /\ pc'[t] = pc[t] /\ rcnt'[t] = rcnt[t] /\ (Ended(t) => Ended(t)')
    BY <1>3, <1>o, Zenon DEF Adapter
  <2>6. Duration' = Duration /\ Needed(t)' = Needed(t) /\ Reposts(t)' = Reposts(t)
    BY <2>1, <2>5, Zenon DEF Duration, Needed, Reposts
  <2> QED  BY <2>1, <2>3, <2>4, <2>5, <2>6, Zenon DEF Kept
<1>4. CASE Complete(p) \/ Complete(t)
  <2>1. UNCHANGED <<up, timeVars, iters, loopVars, recvq, rcq, wire, histVars>>
    BY <1>4, Zenon DEF Complete
  <2>2. Lost(t)' = Lost(t) /\ (Ended(t) => Ended(t)')
    BY <2>1, Zenon DEF Lost, Noticed, Ended, Duration, timeVars, loopVars, histVars
  <2> QED  BY <2>1, <2>2, KeptSame, Zenon DEF loopVars
<1>5. CASE Deliver(t)
  <2>1. /\ UNCHANGED <<up, timeVars, iters, loopVars, posted>> /\ wire'[p] = wire[p]
        /\ recvq'[t] = recvq[t] /\ rcq'[t] = rcq[t]
    BY <1>5, <1>p, Zenon DEF Deliver, TypeOK, histVars, p
  <2>2. Lost(t)' = Lost(t) /\ (Ended(t) => Ended(t)')
    BY <2>1, Zenon DEF Lost, Noticed, Ended, Duration, timeVars, loopVars, p
  <2> QED  BY <2>1, <2>2, KeptSame, Zenon DEF loopVars
<1> QED  BY <1>1, <1>2, <1>3, <1>4, <1>5, Zenon DEF Adapter, p

LEMMA KeptNext ==
    ASSUME TypeOK, [Next]_vars, NEW t \in Side, InTurn(t), Kept(t) PROVE Kept(t)'
<1>1. ASSUME NEW s \in Side, Loop(s) \/ catch_alarm(s) \/ Adapter(s) PROVE Kept(t)'
  BY <1>1, OwnKept, OthersKept, Sides, Zenon
<1>2. CASE HandShake
  <2>1. /\ pc[t] = "ready" /\ pc'[t] = "top" /\ rcnt'[t] = 0
        /\ UNCHANGED <<up, state, size, posted, wire, rcq, recvq>>
    BY <1>2, Zenon DEF HandShake, timeVars, wireVars, histVars
  <2>2. Noticed(t)' = Noticed(t)
    <3>1. Before(t) \in Nat
      BY Numbers, Zenon
    <3> QED  BY <2>1, <3>1 DEF Noticed, Before
  <2>3. Lost(t)' = Lost(t)
    BY <2>1, <2>2, Zenon DEF Lost
  <2>4. Duration' = Duration /\ Ended(t)' = Ended(t)
    BY <2>1, Zenon DEF Duration, Ended
  <2>5. /\ Needed(t)' <= Needed(t) /\ Needed(t) \in Nat /\ Needed(t)' \in Nat
    <3>1. up.rx_depth \in Nat \ {0} /\ Iters \in Nat \ {0}
      BY Constants, Zenon DEF TypeOK
    <3> QED  BY <2>1, <3>1 DEF Needed
  <2>6. recvq[t] \in Nat /\ rcq[t] \in Nat
    BY Numbers, Zenon
  <2> QED  BY <2>1, <2>3, <2>4, <2>5, <2>6 DEF Kept
<1>3. CASE UNCHANGED vars
  <2>1. Lost(t)' = Lost(t) /\ (Ended(t) => Ended(t)')
    BY <1>3, Zenon DEF vars, Lost, Noticed, Ended, Duration, timeVars, loopVars, wireVars, histVars
  <2> QED  BY <1>3, <2>1, KeptSame, Zenon DEF vars, loopVars, wireVars
<1> QED  BY <1>1, <1>2, <1>3, Zenon DEF Next, Finished

LEMMA InvHolds == Spec => []LatSendInv
<1>1. Init => LatSendInv
  <2>1. Init => SameSize
    BY Sides DEF Init, SameSize, Begun
  <2> QED  BY <2>1, TypeInit, InTurnInit, KeptInit, Zenon DEF LatSendInv
<1>2. LatSendInv /\ [Next]_vars => LatSendInv'
  BY TypeNext, SameSizeNext, TurnNext, KeptNext, Zenon DEF LatSendInv
<1> QED  BY <1>1, <1>2, PTL DEF Spec

-----------------------------------------------------------------------------
(* What follows.                                                           *)

(* Each message answers one: neither side is ever two messages ahead of    *)
(* what the other has noticed.                                             *)
LEMMA Alternate ==
    ASSUME LatSendInv, NEW s \in Side
    PROVE  /\ Noticed(s) + rcq[s] + Lost(s) <= posted[Peer(s)]
           /\ posted[Peer(s)] <= Noticed(s) + 1
           /\ pc[s] = "count" => posted[Peer(s)] = Noticed(s)
<1>s. /\ SERVER \in Side /\ CLIENT \in Side /\ Peer(SERVER) = CLIENT /\ Peer(CLIENT) = SERVER
      /\ SERVER # CLIENT /\ (s = SERVER \/ s = CLIENT)
  BY Sides, Zenon
<1>1. ASSUME NEW t \in Side
      PROVE  /\ posted[t] \in Nat /\ Noticed(t) \in Nat /\ rcq[t] \in Nat /\ Lost(t) \in Nat
             /\ Noticed(t) + rcq[t] + Lost(t) <= posted[Peer(t)]
             /\ posted[t] - Noticed(t) \in (Ahead(t) - 1)..Ahead(t)
             /\ pc[t] = "count" => posted[t] = Noticed(t) + Ahead(t) - 1
  <2>1. /\ posted[t] \in Nat /\ posted[Peer(t)] \in Nat /\ Noticed(t) \in Nat /\ rcq[t] \in Nat
    BY Numbers, Sides, Zenon DEF LatSendInv
  <2>2. Lost(t) \in Nat
    BY Zenon DEF LatSendInv, Kept
  <2>3. PICK w \in Nat : w = Len(wire[Peer(t)])
    BY Numbers, Sides, Zenon DEF LatSendInv
  <2>4. Lost(t) = posted[Peer(t)] - Noticed(t) - rcq[t] - w
    BY <2>3, Zenon DEF Lost
  <2>5. Noticed(t) + rcq[t] + Lost(t) <= posted[Peer(t)]
    BY <2>1, <2>2, <2>4
  <2> QED  BY <2>1, <2>2, <2>5, Zenon DEF LatSendInv, InTurn
<1>2. Ahead(CLIENT) = 1 /\ Ahead(SERVER) = 0
  BY <1>s, Zenon DEF Ahead
<1>3. /\ Noticed(SERVER) + rcq[SERVER] + Lost(SERVER) <= posted[CLIENT]
      /\ Noticed(CLIENT) + rcq[CLIENT] + Lost(CLIENT) <= posted[SERVER]
  BY <1>1, <1>s, Zenon
<1>4. /\ posted[SERVER] <= Noticed(SERVER) /\ posted[CLIENT] <= Noticed(CLIENT) + 1
      /\ pc[SERVER] = "count" => posted[SERVER] = Noticed(SERVER) - 1
      /\ pc[CLIENT] = "count" => posted[CLIENT] = Noticed(CLIENT)
  BY <1>1, <1>2, <1>s
<1>5. /\ posted[SERVER] \in Nat /\ posted[CLIENT] \in Nat
      /\ Noticed(SERVER) \in Nat /\ Noticed(CLIENT) \in Nat
      /\ rcq[SERVER] \in Nat /\ rcq[CLIENT] \in Nat /\ Lost(SERVER) \in Nat /\ Lost(CLIENT) \in Nat
  BY <1>1, <1>s, Zenon
<1>6. /\ posted[CLIENT] <= Noticed(SERVER) + 1 /\ posted[SERVER] <= Noticed(CLIENT) + 1
      /\ pc[SERVER] = "count" => posted[CLIENT] = Noticed(SERVER)
      /\ pc[CLIENT] = "count" => posted[SERVER] = Noticed(CLIENT)
  <2>1. PICK ps \in Nat : ps = posted[SERVER]  BY <1>5, Zenon
  <2>2. PICK pk \in Nat : pk = posted[CLIENT]  BY <1>5, Zenon
  <2>3. PICK ns \in Nat : ns = Noticed(SERVER)  BY <1>5, Zenon
  <2>4. PICK nk \in Nat : nk = Noticed(CLIENT)  BY <1>5, Zenon
  <2>5. ns <= pk /\ nk <= ps
    <3>1. \A n, r, l, x \in Nat : n + r + l <= x => n <= x
      OBVIOUS
    <3> QED  BY <1>3, <1>5, <2>1, <2>2, <2>3, <2>4, <3>1, Zenon
  <2>6. /\ ps <= ns /\ pk <= nk + 1
        /\ pc[SERVER] = "count" => ps = ns - 1
        /\ pc[CLIENT] = "count" => pk = nk
    BY <1>4, <2>1, <2>2, <2>3, <2>4, Zenon
  <2>7. /\ pk <= ns + 1 /\ ps <= nk + 1
        /\ pc[SERVER] = "count" => pk = ns
        /\ pc[CLIENT] = "count" => ps = nk
    BY <2>5, <2>6
  <2> QED  BY <2>1, <2>2, <2>3, <2>4, <2>7, Zenon
<1> QED  BY <1>1, <1>6, <1>s, Zenon

LEMMA InvGivesReceive == LatSendInv => ArrivalHasReceive
<1> SUFFICES ASSUME LatSendInv, NEW p \in Side, wire[p] # <<>> PROVE recvq[Peer(p)] > 0
  BY Zenon DEF ArrivalHasReceive
<1> DEFINE t == Peer(p)
<1>p. t \in Side /\ Peer(t) = p
  BY Sides, Zenon
<1> HIDE DEF t
<1>t. TypeOK /\ InTurn(t) /\ InTurn(p) /\ Kept(t) /\ SameSize
  BY <1>p, Zenon DEF LatSendInv
<1>n. /\ posted[p] \in Nat /\ Noticed(t) \in Nat /\ rcq[t] \in Nat /\ recvq[t] \in Nat
      /\ rcnt[t] \in Nat /\ scnt[p] \in Nat /\ Before(t) \in Nat /\ Before(p) \in Nat
      /\ Noticed(t) = Before(t) + (IF pc[t] = "ready" THEN 0 ELSE rcnt[t])
      /\ Noticed(p) = Before(p) + (IF pc[p] = "ready" THEN 0 ELSE rcnt[p])
      /\ size[t] \in Nat \ {0} /\ size[p] \in Nat \ {0} /\ Iters \in Nat \ {0}
  BY <1>p, <1>t, Numbers, Constants, Zenon
<1>u. up.rx_depth \in Nat \ {0}
  BY <1>t, Constants, Zenon DEF TypeOK
<1>w. PICK w \in Nat : w = Len(wire[p]) /\ w > 0
  BY <1>t DEF TypeOK
<1>l. Lost(t) = posted[p] - Noticed(t) - rcq[t] - w /\ Lost(t) \in Nat
  <2>1. Lost(t) = posted[p] - Noticed(t) - rcq[t] - w
    BY <1>p, <1>w, Zenon DEF Lost
  <2> QED  BY <1>t, <2>1, Zenon DEF Kept
<1>1. /\ posted[p] <= Noticed(t) + 1
      /\ pc[t] = "count" => posted[p] = Noticed(t)
  BY <1>p, Alternate, Zenon
<1>2. /\ posted[p] = Noticed(t) + 1 /\ rcq[t] = 0 /\ Lost(t) = 0 /\ pc[t] # "count"
  <2>1. \A a, n, r, l, k \in Nat :
            k > 0 /\ a <= n + 1 /\ l = a - n - r - k => a = n + 1 /\ r = 0 /\ l = 0
    OBVIOUS
  <2>2. posted[p] = Noticed(t) + 1 /\ rcq[t] = 0 /\ Lost(t) = 0
    <3>1. /\ posted[p] \in Nat /\ Noticed(t) \in Nat /\ rcq[t] \in Nat /\ Lost(t) \in Nat
          /\ w > 0 /\ posted[p] <= Noticed(t) + 1 /\ Lost(t) = posted[p] - Noticed(t) - rcq[t] - w
      BY <1>1, <1>l, <1>n, <1>w, Zenon
    <3> QED  BY <2>1, <3>1, ZenonT(60)
  <2> QED  BY <2>2, <1>1, <1>n, SMTT(30)
<1>3. CASE Duration
  <2>1. recvq[t] = up.rx_depth
    BY <1>2, <1>3, <1>t, <1>n, <1>u DEF Kept
  <2> QED  BY <2>1, <1>u DEF t
<1>4. CASE ~Duration
  <2>1. recvq[t] >= Needed(t)
    BY <1>2, <1>4, <1>t, <1>n, <1>u DEF Kept
  <2>2. CASE pc[t] = "ready" \/ rcnt[t] + up.rx_depth <= Iters
    BY <2>1, <2>2, <1>n, <1>u DEF Needed, t
  <2>3. CASE ~(pc[t] = "ready" \/ rcnt[t] + up.rx_depth <= Iters)
    <3>1. rcnt[t] <= Iters /\ scnt[p] <= Iters /\ ~Ended(p)
      BY <1>4, <1>t, Zenon DEF InTurn, Ended
    <3>2. CASE rcnt[t] < Iters
      BY <2>1, <2>3, <3>2, <1>n, <1>u, SMTT(30) DEF Needed, t
    <3>3. CASE rcnt[t] = Iters
      <4>1. posted[p] = Before(t) + Iters + 1
        BY <1>2, <2>3, <3>3, <1>n, Zenon
      <4>2. posted[p] <= Before(p) + (IF pc[p] = "ready" THEN 0 ELSE Iters)
        <5>1. CASE pc[p] = "ready"
          BY <5>1, <1>t, <1>n, SMTT(20) DEF InTurn
        <5>2. CASE pc[p] # "ready"
          <6>1. posted[p] = Before(p) + scnt[p] - (IF pc[p] = "post" THEN 1 ELSE 0)
            BY <3>1, <5>2, <1>t, Zenon DEF InTurn, Before
          <6> QED  BY <3>1, <5>2, <6>1, <1>n, SMTT(30)
        <5> QED  BY <5>1, <5>2, Zenon
      <4>3. Begun(t) = size[t] /\ Begun(p) = Begun(t)
        BY <2>3, <1>t, <1>p, Sides, Zenon DEF SameSize, Begun
      <4>4. Before(t) + Iters = Before(p) + (IF pc[p] = "ready" THEN 0 ELSE Iters)
        <5>1. CASE pc[p] = "ready"
          <6>1. size[p] - 1 = size[t]
            BY <4>3, <5>1, Zenon DEF Begun
          <6>2. \A z, i \in Nat : (z - 1) * i + i = z * i
            OBVIOUS
          <6>3. Before(p) = size[t] * Iters
            BY <6>1, Zenon DEF Before
          <6>4. Before(t) + Iters = size[t] * Iters
            BY <6>2, <1>n, Zenon DEF Before
          <6>5. size[t] * Iters + 0 = size[t] * Iters
            BY <1>n
          <6> QED  BY <5>1, <6>3, <6>4, <6>5, Zenon
        <5>2. CASE pc[p] # "ready"
          <6>1. size[p] = size[t]
            BY <4>3, <5>2, Zenon DEF Begun
          <6> QED  BY <5>2, <6>1, Zenon DEF Before
        <5> QED  BY <5>1, <5>2, Zenon
      <4> QED  BY <4>1, <4>2, <4>4, <1>n
    <3> QED  BY <3>1, <3>2, <3>3, <1>n
  <2> QED  BY <2>2, <2>3, Zenon
<1> QED  BY <1>3, <1>4, Zenon

(* A message of the SEND latency test always finds a receive posted,       *)
(* whatever the receive depth, through every size and until END, also when *)
(* END makes the receiver drop a message without posting its receive       *)
(* again.                                                                  *)
THEOREM ArrivalsHaveReceives == Spec => []ArrivalHasReceive
  BY InvHolds, InvGivesReceive, PTL

-----------------------------------------------------------------------------
(* Refinement of PingPong.                                                 *)

LEMMA PeerIsPeer == \A s \in Side : PP!Peer(s) = Peer(s)
<1> SUFFICES ASSUME NEW s \in Side PROVE PP!Peer(s) = Peer(s)
  BY Zenon
<1>1. Peer(s) \in Side /\ Peer(s) # s /\ \A t \in Side : t # s => t = Peer(s)
  BY Sides, Zenon
<1> QED  BY <1>1, Zenon DEF PP!Peer

(* A step of the loop of s posts a message, takes a receive completion or  *)
(* changes neither count; no other step changes them.                      *)
LEMMA Counts ==
    ASSUME LatSendInv, NEW s \in Side, Loop(s)
    PROVE  /\ \A t \in Side : t # s => posted'[t] = posted[t] /\ Noticed(t)' = Noticed(t)
           /\ \/ posted' = posted /\ Noticed(s)' = Noticed(s)
              \/ /\ posted' = [posted EXCEPT ![s] = @ + 1] /\ Noticed(s)' = Noticed(s)
                 /\ pc[s] = "post" /\ ~Ended(s)
              \/ /\ posted' = posted /\ Noticed(s)' = Noticed(s) + 1
                 /\ rcq[s] > 0
<1>t. TypeOK /\ InTurn(s)
  BY Zenon DEF LatSendInv
<1>n. /\ rcnt[s] \in Nat /\ size[s] \in Nat \ {0} /\ Iters \in Nat \ {0} /\ Before(s) \in Nat
  BY <1>t, Numbers, Constants, Zenon
<1>o. ASSUME NEW t \in Side, t # s
      PROVE  posted'[t] = posted[t] /\ Noticed(t)' = Noticed(t)
  <2>1. /\ pc'[t] = pc[t] /\ size'[t] = size[t] /\ rcnt'[t] = rcnt[t] /\ posted'[t] = posted[t]
    <3>t. /\ DOMAIN pc = Side /\ DOMAIN size = Side /\ DOMAIN rcnt = Side /\ DOMAIN posted = Side
      BY <1>t, Zenon DEF TypeOK
    <3>1. \E k : pc' = [pc EXCEPT ![s] = k]
      BY Zenon DEF Loop, Top, Recv, Count, RecvEnds, Send, Post, SendPoll, Report
    <3>2. size' = size \/ size' = [size EXCEPT ![s] = size[s] + 1]
      BY Zenon DEF Loop, Top, Recv, Count, RecvEnds, Send, Post, SendPoll, Report
    <3>3. rcnt' = rcnt \/ rcnt' = [rcnt EXCEPT ![s] = rcnt[s] + 1]
      BY Zenon DEF Loop, Top, Recv, Count, RecvEnds, Send, Post, SendPoll, Report
    <3>4. posted' = posted \/ posted' = [posted EXCEPT ![s] = posted[s] + 1]
      BY Zenon DEF Loop, Top, Recv, Count, RecvEnds, Send, Post, SendPoll, Report, histVars
    <3> QED  BY <1>o, <3>t, <3>1, <3>2, <3>3, <3>4, Zenon
  <2> QED  BY <2>1, Zenon DEF Noticed
<1>1. CASE Top(s) \/ Count(s) \/ RecvEnds(s) \/ Send(s) \/ SendPoll(s)
  <2>1. posted' = posted /\ UNCHANGED <<size, rcnt>> /\ pc[s] # "ready" /\ pc'[s] # "ready"
    BY <1>1, <1>t, Zenon DEF Top, Count, RecvEnds, Send, SendPoll, histVars, TypeOK
  <2>2. Noticed(s)' = Noticed(s)
    BY <2>1, Zenon DEF Noticed
  <2> QED  BY <2>1, <2>2, <1>o, Zenon
<1>2. CASE Recv(s)
  <2>1. /\ posted' = posted /\ size' = size /\ rcnt'[s] = rcnt[s] + 1 /\ rcq[s] > 0
        /\ pc[s] # "ready" /\ pc'[s] # "ready"
    BY <1>2, <1>t, Zenon DEF Recv, histVars, TypeOK
  <2>2. Noticed(s) = Before(s) + rcnt[s] /\ Noticed(s)' = Before(s) + (rcnt[s] + 1)
    BY <2>1, Zenon DEF Noticed, Before
  <2>3. Noticed(s)' = Noticed(s) + 1
    BY <2>2, <1>n
  <2> QED  BY <2>1, <2>3, <1>o, Zenon
<1>3. CASE Post(s)
  <2>1. /\ UNCHANGED <<size, rcnt>> /\ pc[s] = "post" /\ pc'[s] # "ready"
        /\ posted' = posted \/ (~Ended(s) /\ posted' = [posted EXCEPT ![s] = @ + 1])
    BY <1>3, <1>t, Zenon DEF Post, AfterPost, TypeOK
  <2>2. Noticed(s)' = Noticed(s)
    BY <2>1, Zenon DEF Noticed
  <2> QED  BY <2>1, <2>2, <1>o, Zenon
<1>4. CASE Report(s)
  <2>1. posted' = posted /\ rcnt' = rcnt /\ pc[s] = "report"
    BY <1>4, Zenon DEF Report, histVars
  <2>2. CASE size[s] < LastSize
    <3>1. size'[s] = size[s] + 1 /\ pc'[s] = "ready"
      <4>1. DOMAIN size = Side /\ DOMAIN pc = Side
        BY <1>t, Zenon DEF TypeOK
      <4> QED  BY <1>4, <2>2, <4>1, Zenon DEF Report
    <3>2. ~Duration
      BY <2>2, <1>t, <1>n DEF InTurn, LastSize
    <3>3. rcnt[s] = Iters
      BY <2>1, <3>2, <1>t, Zenon DEF InTurn
    <3>4. Noticed(s)' = Noticed(s)
      BY <2>1, <3>1, <3>3, <1>n DEF Noticed
    <3> QED  BY <2>1, <3>4, <1>o, Zenon
  <2>3. CASE ~(size[s] < LastSize)
    <3>1. size' = size /\ pc'[s] = "done"
      BY <1>4, <2>3, <1>t, Zenon DEF Report, TypeOK
    <3>2. Noticed(s)' = Noticed(s)
      BY <2>1, <3>1, Zenon DEF Noticed
    <3> QED  BY <2>1, <3>2, <1>o, Zenon
  <2> QED  BY <2>2, <2>3, Zenon
<1> QED  BY <1>1, <1>2, <1>3, <1>4, Zenon DEF Loop

(* A side that posts a message has fewer than Total behind it.             *)
LEMMA SendsLeft ==
    ASSUME LatSendInv, NEW s \in Side, pc[s] = "post", ~Ended(s)
    PROVE  posted[s] < IF MaxSends > Sizes * Iters THEN MaxSends ELSE Sizes * Iters
<1>t. TypeOK /\ InTurn(s)
  BY Zenon DEF LatSendInv
<1>n. /\ posted[s] \in Nat /\ scnt[s] \in Nat /\ size[s] \in 1..Sizes
      /\ Iters \in Nat \ {0} /\ Sizes \in Nat /\ MaxSends \in Nat /\ Sizes * Iters \in Nat
  <2>1. /\ Iters \in Nat \ {0} /\ Sizes \in Nat /\ MaxSends \in Nat
    BY Constants, Zenon
  <2> QED  BY <2>1, <1>t, Numbers
<1>1. posted[s] = (size[s] - 1) * Iters + scnt[s] - 1
  BY <1>t, Zenon DEF InTurn
<1>2. CASE Duration
  <2>1. posted[s] < MaxSends
    BY <1>1, <1>2, <1>t, <1>n DEF InTurn
  <2> QED  BY <2>1, <1>n
<1>3. CASE ~Duration
  <2>1. scnt[s] <= Iters
    BY <1>3, <1>t, Zenon DEF InTurn
  <2>2. posted[s] < Sizes * Iters
    <3>1. CASE scnt[s] = 0
      <4>1. (size[s] - 1) * Iters + 0 < Sizes * Iters
        BY <1>n, BeforeTheEnd
      <4> QED  BY <1>1, <3>1, <4>1, <1>n
    <3>2. CASE scnt[s] > 0
      <4>1. scnt[s] - 1 \in Nat /\ scnt[s] - 1 < Iters
        BY <2>1, <3>2, <1>n
      <4>2. (size[s] - 1) * Iters + (scnt[s] - 1) < Sizes * Iters
        BY <4>1, <1>n, BeforeTheEnd, Zenon
      <4> QED  BY <1>1, <4>2, <1>n, Zenon
    <3> QED  BY <3>1, <3>2, <1>n
  <2> QED  BY <2>2, <1>n
<1> QED  BY <1>2, <1>3, Zenon

LEMMA PPInit == Init => PP!Init
<1> SUFFICES ASSUME Init PROVE PP!Init
  BY Zenon
<1>1. \A s \in Side : Noticed(s) = 0
  BY Constants DEF Init, Noticed
<1> QED  BY <1>1, Zenon DEF PP!Init, Init

LEMMA PPStep == LatSendInv /\ [Next]_vars => [PP!Next]_(PP!vars)
<1> SUFFICES ASSUME LatSendInv, [Next]_vars PROVE [PP!Next]_(PP!vars)
  BY Zenon
<1> DEFINE R == [t \in Side |-> Noticed(t)]
<1>p. DOMAIN posted = Side /\ posted = [t \in Side |-> posted[t]]
  BY Zenon DEF LatSendInv, TypeOK
<1>1. CASE UNCHANGED vars \/ \E s \in Side : catch_alarm(s) \/ Adapter(s)
  <2>1. posted' = posted /\ UNCHANGED <<pc, size, rcnt>>
    BY <1>1, Zenon DEF vars, loopVars, histVars, catch_alarm, Adapter, Deliver, Complete
  <2>2. R' = R
    BY <2>1, Zenon DEF Noticed
  <2> QED  BY <2>1, <2>2, Zenon DEF PP!vars
<1>2. CASE HandShake
  <2>1. posted' = posted
    BY <1>2, Zenon DEF HandShake, histVars
  <2>2. ASSUME NEW t \in Side PROVE Noticed(t)' = Noticed(t)
    <3>1. pc[t] = "ready" /\ pc'[t] = "top" /\ rcnt'[t] = 0 /\ size' = size
      BY <1>2, Zenon DEF HandShake
    <3>2. Noticed(t) = Before(t) /\ Noticed(t)' = Before(t) + 0 /\ Before(t) \in Nat
      BY <3>1, Numbers, Zenon DEF Noticed, Before, LatSendInv
    <3> QED  BY <3>2
  <2>3. R' = R
    BY <2>2, Zenon
  <2> QED  BY <2>1, <2>3, Zenon DEF PP!vars
<1>3. ASSUME NEW s \in Side, Loop(s) PROVE [PP!Next]_(PP!vars)
  <2>o. \A t \in Side : t # s => posted'[t] = posted[t] /\ Noticed(t)' = Noticed(t)
    BY <1>3, Counts, Zenon
  <2>n. /\ posted[s] \in Nat /\ Noticed(s) \in Nat /\ rcq[s] \in Nat
        /\ posted[Peer(s)] \in Nat /\ Lost(s) \in Nat
    <3>1. Peer(s) \in Side
      BY Sides, Zenon
    <3> QED  BY <3>1, Numbers, Zenon DEF LatSendInv, Kept
  <2>1. CASE posted' = posted /\ Noticed(s)' = Noticed(s)
    <3>1. R' = R
      BY <2>o, <2>1, Zenon
    <3> QED  BY <2>1, <3>1, Zenon DEF PP!vars
  <2>2. CASE /\ posted' = [posted EXCEPT ![s] = @ + 1] /\ Noticed(s)' = Noticed(s)
             /\ pc[s] = "post" /\ ~Ended(s)
    <3>1. R' = R
      BY <2>o, <2>2, Zenon
    <3>2. posted[s] = Noticed(s) + Ahead(s) - 1
      BY <2>2, Zenon DEF LatSendInv, InTurn
    <3>3. posted[s] < IF MaxSends > Sizes * Iters THEN MaxSends ELSE Sizes * Iters
      BY <2>2, SendsLeft, Zenon
    <3>4. IF s = CLIENT THEN posted[s] = Noticed(s) ELSE posted[s] < Noticed(s)
      BY <3>2, <2>n DEF Ahead
    <3>5. R[s] = Noticed(s)
      BY Zenon
    <3> HIDE DEF R
    <3>6. PP!Send(s)
      BY <2>2, <3>1, <3>3, <3>4, <3>5, Zenon DEF PP!Send, PP!MaySend, R
    <3> QED  BY <3>6, Zenon DEF PP!Next
  <2>3. CASE posted' = posted /\ Noticed(s)' = Noticed(s) + 1 /\ rcq[s] > 0
    <3>1. R' = [R EXCEPT ![s] = @ + 1]
      BY <2>o, <2>3, Zenon
    <3>2. Noticed(s) < posted[Peer(s)]
      <4>1. Noticed(s) + rcq[s] + Lost(s) <= posted[Peer(s)]
        BY Alternate, Zenon
      <4>2. \A n, r, l, x \in Nat : n + r + l <= x /\ r > 0 => n < x
        OBVIOUS
      <4> QED  BY <2>3, <4>1, <4>2, <2>n, Zenon
    <3>3. PP!Peer(s) = Peer(s) /\ R[s] = Noticed(s)
      BY PeerIsPeer, Zenon
    <3> HIDE DEF R
    <3>4. PP!Receive(s)
      BY <2>3, <3>1, <3>2, <3>3, Zenon DEF PP!Receive, R
    <3> QED  BY <3>4, Zenon DEF PP!Next
  <2> QED  BY <1>3, <2>1, <2>2, <2>3, Counts, Zenon
<1> QED  BY <1>1, <1>2, <1>3, Zenon DEF Next, Finished

(* The SEND latency test implements PingPong for every number of sizes and *)
(* iterations, and in duration mode: END, which a side may see at any      *)
(* point of its loop, never makes it send out of turn.                     *)
THEOREM PlaysPingPong == Spec => ImplementsPingPong
  BY PPInit, PPStep, InvHolds, PTL DEF Spec, ImplementsPingPong, PP!Spec

(* Between two messages of a side of the SEND latency test lies a whole    *)
(* round trip, so that the difference of its time stamps measures one:     *)
(* when it posts a message its peer has taken the completions of all the   *)
(* earlier ones.                                                           *)
THEOREM MeasuresRoundTrips == Spec => []PP!RoundTrip
<1>1. LatSendInv => PP!RoundTrip
  <2>1. SUFFICES ASSUME LatSendInv, NEW s \in Side
                 PROVE  posted[s] <= [t \in Side |-> Noticed(t)][PP!Peer(s)] + 1
    BY Zenon DEF PP!RoundTrip
  <2>2. Peer(s) \in Side /\ Peer(Peer(s)) = s
    BY <2>1, Sides, Zenon
  <2>3. posted[Peer(Peer(s))] <= Noticed(Peer(s)) + 1
    BY <2>1, <2>2, Alternate, Zenon
  <2>4. PP!Peer(s) = Peer(s)
    BY <2>1, PeerIsPeer, Zenon
  <2> QED  BY <2>2, <2>3, <2>4, Zenon
<1> QED  BY <1>1, InvHolds, PTL
=============================================================================
