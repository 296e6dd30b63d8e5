--------------------------- MODULE LatWriteProofs ---------------------------
(***************************************************************************)
(* The RDMA WRITE latency test, for every number of sizes and iterations,  *)
(* every width of the number a message carries, and both test types.       *)
(***************************************************************************)
EXTENDS LatWrite, ModFacts, TLAPS

LEMMA Constants ==
    /\ Sizes \in Nat \ {0} /\ Iters \in Nat \ {0} /\ ByteMod \in Nat \ {0, 1}
    /\ 1 \in Size /\ 0 \in Byte
    /\ \A k \in Nat : k % ByteMod \in Byte
  BY LatWriteAssumption DEF Size, Byte

LEMMA Sides ==
    /\ SERVER \in Side /\ CLIENT \in Side /\ SERVER # CLIENT
    /\ \A s \in Side : /\ s = SERVER \/ s = CLIENT
                       /\ Peer(s) \in Side /\ Peer(s) # s /\ Peer(Peer(s)) = s
                       /\ \A t \in Side : t # s => t = Peer(s)
  BY Zenon DEF Side, SERVER, CLIENT, Peer

(* Messages are counted through all sizes: two of them with the same place *)
(* are the same message of the same size, or the last one of a size and    *)
(* what comes before the first one of the next.                            *)
LEMMA SamePlace ==
    ASSUME NEW I \in Nat \ {0}, NEW a \in Int, NEW b \in Int,
           NEW x \in 0..I, NEW y \in 0..(I - 1), a * I + x = b * I + y
    PROVE  (a = b /\ x = y) \/ (b = a + 1 /\ x = I /\ y = 0)
<1> DEFINE e == b - a
<1>1. e \in Int /\ e * I = x - y
  OBVIOUS
<1> HIDE DEF e
<1>2. CASE e >= 2
  <2>1. (e - 2) * I >= 0
    BY <1>1, <1>2
  <2> QED  BY <1>1, <2>1
<1>3. CASE e <= -1
  <2>1. (-e - 1) * I >= 0
    BY <1>1, <1>3
  <2> QED  BY <1>1, <2>1
<1>4. CASE e = 0
  BY <1>1, <1>4 DEF e
<1>5. CASE e = 1
  BY <1>1, <1>5 DEF e
<1> QED  BY <1>1, <1>2, <1>3, <1>4, <1>5

(* Before the last message of any size, messages of the sweep remain. *)
LEMMA BeforeTheEnd ==
    ASSUME NEW I \in Nat \ {0}, NEW n \in Nat, NEW z \in 1..n, NEW x \in Nat, x < I
    PROVE  /\ (z - 1) * I + x \in Nat
           /\ (z - 1) * I + x < n * I
<1>1. (n - z) * I >= 0 /\ (z - 1) * I >= 0
  OBVIOUS
<1> QED  BY <1>1

-----------------------------------------------------------------------------
(* The types.                                                              *)

LEMMA TypeInit == Init => TypeOK
  BY Constants DEF Init, TypeOK, State, InitialByte

(* What a WRITE reads is a message, and placing one leaves bytes behind. *)
LEMMA WireTypes ==
    ASSUME TypeOK, NEW s \in Side
    PROVE  /\ wq[s] # <<>> => /\ Head(wq[s]) \in Size
                              /\ [z \in 1..Head(wq[s]) |-> buf[s][z]] \in Message
           /\ flight[s] # <<>> =>
                  \A m \in [Size -> Byte] :
                      [z \in Size |-> IF z \in DOMAIN Head(flight[s])
                                      THEN Head(flight[s])[z] ELSE m[z]] \in [Size -> Byte]
<1>1. ASSUME wq[s] # <<>>
      PROVE  Head(wq[s]) \in Size /\ [z \in 1..Head(wq[s]) |-> buf[s][z]] \in Message
  <2>1. PICK h \in Size : h = Head(wq[s])
    BY <1>1 DEF TypeOK
  <2>2. \A z \in 1..h : z \in Size
    BY Constants DEF Size
  <2>3. [z \in 1..h |-> buf[s][z]] \in [1..h -> Byte]
    BY <2>2 DEF TypeOK
  <2> QED  BY <2>1, <2>3, Zenon DEF Message
<1>2. ASSUME flight[s] # <<>>, NEW m \in [Size -> Byte]
      PROVE  [z \in Size |-> IF z \in DOMAIN Head(flight[s])
                             THEN Head(flight[s])[z] ELSE m[z]] \in [Size -> Byte]
  <2>1. Head(flight[s]) \in Message
    BY <1>2 DEF TypeOK
  <2>2. PICK h \in Size : Head(flight[s]) \in [1..h -> Byte]
    BY <2>1, Zenon DEF Message
  <2> QED  BY <2>2, Zenon
<1> QED  BY <1>1, <1>2, Zenon

LEMMA TypeNext == TypeOK /\ [Next]_vars => TypeOK'
<1> SUFFICES ASSUME TypeOK, [Next]_vars PROVE TypeOK'
  BY Zenon
<1>n. /\ scnt \in [Side -> Nat] /\ ccnt \in [Side -> Nat] /\ rcnt \in [Side -> Nat]
      /\ got \in [Side -> Nat]
  BY Zenon DEF TypeOK
<1>w. wq \in [Side -> Seq(Size)]
  BY Zenon DEF TypeOK
<1>1. ASSUME NEW s \in Side, Top(s) PROVE TypeOK'
  <2>1. rcnt' \in [Side -> Nat]
    <3>1. rcnt' = rcnt \/ rcnt' = [rcnt EXCEPT ![s] = @ + 1]
      BY <1>1, Zenon DEF Top
    <3> QED  BY <1>n, <3>1
  <2>2. pc' \in [Side -> {"top", "wait", "send", "sent", "poll", "report", "done"}]
    BY <1>1, ZenonT(30) DEF TypeOK, Top
  <2> QED  BY <1>1, <2>1, <2>2, Zenon DEF TypeOK, Top, userVars, wireVars
<1>2. ASSUME NEW s \in Side, Wait(s) PROVE TypeOK'
  BY <1>2, Zenon DEF TypeOK, Wait, userVars, wireVars
<1>3. ASSUME NEW s \in Side, Send(s) PROVE TypeOK'
  <2>1. Number(s) \in Byte
    BY Constants DEF Number, TypeOK
  <2>2. size[s] \in Size /\ buf[s] \in [Size -> Byte]
    BY Zenon DEF TypeOK
  <2>3. buf' \in [Side -> [Size -> Byte]]
    <3>1. CASE buf' = [buf EXCEPT ![s][size[s]] = Number(s)]
      BY <3>1, <2>1, <2>2, Zenon DEF TypeOK
    <3> QED  BY <1>3, <3>1, Zenon DEF Send, TypeOK
  <2>4. scnt' \in [Side -> Nat]
    <3>1. scnt' = scnt \/ scnt' = [scnt EXCEPT ![s] = @ + 1]
      BY <1>3, Zenon DEF Send
    <3> QED  BY <1>n, <3>1
  <2>5. wq' \in [Side -> Seq(Size)]
    <3>1. wq' = wq \/ wq' = [wq EXCEPT ![s] = Append(@, size[s])]
      BY <1>3, Zenon DEF Send
    <3>2. Append(wq[s], size[s]) \in Seq(Size)
      BY <1>w, <2>2
    <3> QED  BY <1>w, <3>1, <3>2, Zenon
  <2>6. pc' \in [Side -> {"top", "wait", "send", "sent", "poll", "report", "done"}]
    BY <1>3, Zenon DEF TypeOK, Send
  <2> QED  BY <1>3, <2>3, <2>4, <2>5, <2>6, Zenon DEF TypeOK, Send, userVars
<1>4. ASSUME NEW s \in Side, Sent(s) PROVE TypeOK'
  BY <1>4, Zenon DEF TypeOK, Sent, userVars, wireVars
<1>5. ASSUME NEW s \in Side, Poll(s) PROVE TypeOK'
  <2>1. cq' \in [Side -> Nat]
    BY <1>5 DEF TypeOK, Poll
  <2>2. ccnt' \in [Side -> Nat]
    BY <1>5 DEF TypeOK, Poll
  <2>3. iters' \in [Side -> Nat]
    BY <1>5, SMTT(30) DEF TypeOK, Poll
  <2>4. pc' \in [Side -> {"top", "wait", "send", "sent", "poll", "report", "done"}]
    BY <1>5, Zenon DEF TypeOK, Poll
  <2> QED  BY <1>5, <2>1, <2>2, <2>3, <2>4, Zenon DEF TypeOK, Poll, userVars
<1>6. ASSUME NEW s \in Side, PollEnds(s) PROVE TypeOK'
  BY <1>6, Zenon DEF TypeOK, PollEnds, userVars, wireVars
<1>7. ASSUME NEW s \in Side, Report(s) PROVE TypeOK'
  <2>1. size[s] < LastSize => size[s] + 1 \in Size
    <3>1. size[s] \in 1..Sizes /\ LastSize <= Sizes
      BY Constants DEF LastSize, Size, TypeOK
    <3> QED  BY <3>1, Constants DEF Size, LastSize
  <2>2. size' \in [Side -> Size]
    BY <1>7, <2>1, Zenon DEF TypeOK, Report
  <2>3. scnt' \in [Side -> Nat] /\ ccnt' \in [Side -> Nat] /\ rcnt' \in [Side -> Nat]
    <3>1. \/ UNCHANGED <<scnt, ccnt, rcnt>>
          \/ /\ scnt' = [scnt EXCEPT ![s] = 0]
             /\ ccnt' = [ccnt EXCEPT ![s] = 0]
             /\ rcnt' = [rcnt EXCEPT ![s] = 0]
      BY <1>7, Zenon DEF Report, FirstOfSize
    <3> QED  BY <1>n, <3>1
  <2>4. pc' \in [Side -> {"top", "wait", "send", "sent", "poll", "report", "done"}]
    BY <1>7, ZenonT(30) DEF TypeOK, Report
  <2> QED  BY <1>7, <2>2, <2>3, <2>4, Zenon DEF TypeOK, Report, userVars, wireVars
<1>8. ASSUME NEW s \in Side, catch_alarm(s) PROVE TypeOK'
  BY <1>8, Zenon DEF TypeOK, catch_alarm, State, userVars, loopVars, wireVars
<1>9. ASSUME NEW s \in Side, Start(s) PROVE TypeOK'
  <2> DEFINE w == [z \in 1..Head(wq[s]) |-> buf[s][z]]
  <2>1. w \in Message
    BY <1>9, WireTypes, Zenon DEF Start
  <2>2. flight' = [flight EXCEPT ![s] = Append(@, w)]
    BY <1>9, Zenon DEF Start
  <2> HIDE DEF w
  <2>3. flight' \in [Side -> Seq(Message)]
    BY <2>1, <2>2 DEF TypeOK
  <2>4. wq' \in [Side -> Seq(Size)]
    BY <1>9 DEF Start, TypeOK
  <2> QED  BY <1>9, <2>3, <2>4, Zenon DEF TypeOK, Start, userVars, loopVars
<1>10. ASSUME NEW s \in Side, Place(s) PROVE TypeOK'
  <2> DEFINE n == [z \in Size |-> IF z \in DOMAIN Head(flight[s])
                                 THEN Head(flight[s])[z] ELSE mem[Peer(s)][z]]
  <2>1. n \in [Size -> Byte]
    <3>1. mem[Peer(s)] \in [Size -> Byte]
      BY Sides, Zenon DEF TypeOK
    <3> QED  BY <1>10, <3>1, WireTypes, Zenon DEF Place
  <2>2. mem' = [mem EXCEPT ![Peer(s)] = n]
    BY <1>10, Zenon DEF Place
  <2> HIDE DEF n
  <2>3. mem' \in [Side -> [Size -> Byte]]
    BY <2>1, <2>2, Sides, Zenon DEF TypeOK
  <2>4. flight' \in [Side -> Seq(Message)]
    BY <1>10 DEF Place, TypeOK
  <2>5. unacked' \in [Side -> Nat]
    BY <1>10 DEF Place, TypeOK
  <2>6. got' \in [Side -> Nat]
    <3>1. got' = [got EXCEPT ![Peer(s)] = @ + 1] /\ Peer(s) \in Side
      BY <1>10, Sides, Zenon DEF Place
    <3> QED  BY <1>n, <3>1
  <2> QED  BY <1>10, <2>3, <2>4, <2>5, <2>6, Zenon DEF TypeOK, Place, userVars, loopVars
<1>11. ASSUME NEW s \in Side, Complete(s) PROVE TypeOK'
  <2>1. unacked' \in [Side -> Nat]
    BY <1>11 DEF Complete, TypeOK
  <2>2. cq' \in [Side -> Nat]
    BY <1>11 DEF Complete, TypeOK
  <2> QED  BY <1>11, <2>1, <2>2, Zenon DEF TypeOK, Complete, userVars, loopVars
<1>12. CASE UNCHANGED vars
  BY <1>12, Zenon DEF TypeOK, vars, userVars, loopVars, wireVars
<1> QED
  BY <1>1, <1>2, <1>3, <1>4, <1>5, <1>6, <1>7, <1>8, <1>9, <1>10, <1>11, <1>12, Zenon
     DEF Next, Loop, Adapter, Finished

-----------------------------------------------------------------------------
(* Whose turn it is, and what is outstanding.                              *)

LEMMA TurnInit == Init => \A s \in Side : InTurn(s) /\ OneAtATime(s)
<1> SUFFICES ASSUME Init, NEW s \in Side PROVE InTurn(s) /\ OneAtATime(s)
  BY Zenon
<1>1. InTurn(s)
  <2>1. /\ pc[s] = "top" /\ scnt[s] = 0 /\ rcnt[s] = 0 /\ ccnt[s] = 0 /\ size[s] = 1
        /\ Duration => iters[s] = 0
        /\ ~Duration => state[s] = "START" /\ iters[s] = Iters
    BY Zenon DEF Init
  <2>2. s = SERVER \/ s = CLIENT
    BY Sides, Zenon
  <2> QED  BY <2>1, <2>2, Constants DEF InTurn, Answers
<1>2. OneAtATime(s)
  BY DEF Init, OneAtATime, Due, Pending
<1> QED  BY <1>1, <1>2, Zenon

(* The numbers among a side's state. *)
LEMMA Numbers ==
    ASSUME TypeOK, NEW s \in Side
    PROVE  /\ scnt[s] \in Nat /\ ccnt[s] \in Nat /\ rcnt[s] \in Nat /\ iters[s] \in Nat
           /\ Len(wq[s]) \in Nat /\ Len(flight[s]) \in Nat
           /\ unacked[s] \in Nat /\ cq[s] \in Nat /\ got[s] \in Nat
           /\ size[s] \in Size /\ size[s] \in Nat \ {0} /\ size[s] <= Sizes
           /\ Pending(s) \in Nat /\ Due(s) \in Nat
<1>1. Len(wq[s]) \in Nat /\ Len(flight[s]) \in Nat
  BY DEF TypeOK
<1>2. /\ scnt[s] \in Nat /\ ccnt[s] \in Nat /\ rcnt[s] \in Nat /\ iters[s] \in Nat
      /\ unacked[s] \in Nat /\ cq[s] \in Nat /\ got[s] \in Nat /\ size[s] \in Size
  BY Zenon DEF TypeOK
<1>3. size[s] \in Nat \ {0} /\ size[s] <= Sizes
  BY <1>2, Constants DEF Size
<1>4. Pending(s) \in Nat
  <2>1. \A a, b \in Nat : a + b \in Nat
    OBVIOUS
  <2> QED  BY <1>1, <2>1, Zenon DEF Pending
<1>5. Due(s) \in Nat
  BY <1>2, <1>4 DEF Due
<1> QED  BY <1>1, <1>2, <1>3, <1>4, <1>5, Zenon

(* Every variable but the user's parameters is a function on the sides. *)
LEMMA Domains ==
    ASSUME TypeOK
    PROVE  /\ DOMAIN state = Side /\ DOMAIN iters = Side /\ DOMAIN pc = Side
           /\ DOMAIN size = Side /\ DOMAIN scnt = Side /\ DOMAIN ccnt = Side
           /\ DOMAIN rcnt = Side /\ DOMAIN buf = Side /\ DOMAIN mem = Side
           /\ DOMAIN wq = Side /\ DOMAIN flight = Side /\ DOMAIN unacked = Side
           /\ DOMAIN cq = Side /\ DOMAIN got = Side
  BY Zenon DEF TypeOK

(* A step of one side leaves the loop of the other alone, and what the     *)
(* other has sent: a WRITE of s is placed in the memory of its peer t.     *)
LEMMA OtherSide ==
    ASSUME TypeOK, NEW s \in Side, NEW t \in Side, t # s,
           Loop(s) \/ catch_alarm(s) \/ Adapter(s)
    PROVE  /\ UNCHANGED test_type
           /\ state'[t] = state[t] /\ iters'[t] = iters[t] /\ pc'[t] = pc[t]
           /\ size'[t] = size[t] /\ scnt'[t] = scnt[t] /\ ccnt'[t] = ccnt[t]
           /\ rcnt'[t] = rcnt[t] /\ buf'[t] = buf[t] /\ mem'[s] = mem[s] /\ got'[s] = got[s]
           /\ wq'[t] = wq[t] /\ flight'[t] = flight[t] /\ unacked'[t] = unacked[t]
           /\ cq'[t] = cq[t]
<1>p. Peer(s) # s
  BY Sides, Zenon
<1>1. CASE Top(s)
  BY <1>1, Domains, Zenon DEF Top, userVars, wireVars
<1>2. CASE Wait(s)
  BY <1>2, Domains, Zenon DEF Wait, userVars, wireVars
<1>3. CASE Send(s)
  BY <1>3, Domains, Zenon DEF Send, userVars
<1>4. CASE Sent(s)
  BY <1>4, Domains, Zenon DEF Sent, userVars, wireVars
<1>5. CASE Poll(s)
  BY <1>5, Domains, Zenon DEF Poll, userVars
<1>6. CASE PollEnds(s)
  BY <1>6, Domains, Zenon DEF PollEnds, userVars, wireVars
<1>7. CASE Report(s)
  BY <1>7, Domains DEF Report, FirstOfSize, userVars, wireVars
<1>8. CASE catch_alarm(s)
  BY <1>8, Domains, Zenon DEF catch_alarm, userVars, loopVars, wireVars
<1>9. CASE Start(s)
  BY <1>9, Domains, Zenon DEF Start, userVars, loopVars
<1>10. CASE Place(s)
  BY <1>10, <1>p, Domains, Zenon DEF Place, userVars, loopVars
<1>11. CASE Complete(s)
  BY <1>11, Domains, Zenon DEF Complete, userVars, loopVars
<1> QED
  BY <1>1, <1>2, <1>3, <1>4, <1>5, <1>6, <1>7, <1>8, <1>9, <1>10, <1>11, Zenon DEF Loop, Adapter

LEMMA OthersTurn ==
    ASSUME TypeOK, NEW s \in Side, NEW t \in Side, t # s,
           Loop(s) \/ catch_alarm(s) \/ Adapter(s)
    PROVE  /\ InTurn(t) => InTurn(t)'
           /\ OneAtATime(t) => OneAtATime(t)'
<1>1. /\ UNCHANGED test_type
      /\ state'[t] = state[t] /\ iters'[t] = iters[t] /\ pc'[t] = pc[t]
      /\ size'[t] = size[t] /\ scnt'[t] = scnt[t] /\ ccnt'[t] = ccnt[t] /\ rcnt'[t] = rcnt[t]
      /\ wq'[t] = wq[t] /\ flight'[t] = flight[t] /\ unacked'[t] = unacked[t] /\ cq'[t] = cq[t]
  BY OtherSide, Zenon
<1>2. InTurn(t) => InTurn(t)'
  BY <1>1, Zenon DEF InTurn, SentLast, Answers, Duration
<1>3. OneAtATime(t) => OneAtATime(t)'
  BY <1>1, Zenon DEF OneAtATime, Due, Pending, SentLast, Ended, More, Duration
<1> QED  BY <1>2, <1>3, Zenon

(* A step of the loop keeps the side's own turn. *)
LEMMA OwnTurn ==
    ASSUME TypeOK, NEW s \in Side, InTurn(s), OneAtATime(s), Loop(s)
    PROVE  InTurn(s)' /\ OneAtATime(s)'
<1>n. /\ scnt[s] \in Nat /\ ccnt[s] \in Nat /\ rcnt[s] \in Nat /\ iters[s] \in Nat
      /\ Pending(s) \in Nat /\ unacked[s] \in Nat /\ cq[s] \in Nat
      /\ size[s] \in Nat \ {0} /\ Due(s) \in Nat
  BY Numbers, Zenon
<1>s. s = SERVER \/ s = CLIENT
  BY Sides, Zenon
<1>i. Iters \in Nat \ {0} /\ SERVER # CLIENT
  BY Constants, Sides, Zenon
<1>1. CASE Top(s)
  <2>1. /\ pc[s] = "top" /\ UNCHANGED test_type
        /\ state'[s] = state[s] /\ iters'[s] = iters[s] /\ size'[s] = size[s]
        /\ scnt'[s] = scnt[s] /\ ccnt'[s] = ccnt[s] /\ Due(s)' = Due(s)
    BY <1>1, Zenon DEF Top, userVars, wireVars, Due, Pending
  <2>2. \/ ~More(s) /\ pc'[s] = "report" /\ rcnt'[s] = rcnt[s]
        \/ More(s) /\ Expects(s) /\ pc'[s] = "wait" /\ rcnt'[s] = rcnt[s] + 1
        \/ More(s) /\ ~Expects(s) /\ pc'[s] = "send" /\ rcnt'[s] = rcnt[s]
    BY <1>1, Domains, Zenon DEF Top
  <2>3. InTurn(s)'
    <3>1. CASE ~Duration
      <4>1. Due(s) = 0 /\ ccnt[s] = scnt[s] /\ state[s] = "START" /\ iters[s] = Iters
            /\ scnt[s] <= Iters /\ rcnt[s] <= Iters
        BY <2>1, <3>1, <1>n, <1>i DEF InTurn, OneAtATime, Ended
      <4> QED
        BY <2>1, <2>2, <3>1, <4>1, <1>n, <1>s, <1>i
           DEF InTurn, SentLast, Answers, More, Expects, Duration
    <3>2. CASE Duration
      BY <2>1, <2>2, <3>2, <1>n, <1>s, <1>i
         DEF InTurn, SentLast, Answers, Expects, Duration
    <3> QED  BY <3>1, <3>2, Zenon
  <2>4. OneAtATime(s)'
    BY <2>1, <2>2, <1>n, <1>s, <1>i, Zenon
       DEF OneAtATime, SentLast
  <2> QED  BY <2>3, <2>4, Zenon
<1>2. CASE Wait(s)
  <2>1. /\ pc[s] = "wait" /\ pc'[s] = "send" /\ UNCHANGED test_type
        /\ state'[s] = state[s] /\ iters'[s] = iters[s] /\ size'[s] = size[s]
        /\ scnt'[s] = scnt[s] /\ ccnt'[s] = ccnt[s] /\ rcnt'[s] = rcnt[s] /\ Due(s)' = Due(s)
    BY <1>2, Domains, Zenon DEF Wait, userVars, wireVars, Due, Pending
  <2> QED  BY <2>1, <1>n, <1>s, <1>i, Zenon DEF InTurn, OneAtATime, Answers, Duration
<1>3. CASE Send(s)
  <2>1. /\ pc[s] = "send" /\ pc'[s] = "sent" /\ UNCHANGED test_type
        /\ state'[s] = state[s] /\ iters'[s] = iters[s] /\ size'[s] = size[s]
        /\ ccnt'[s] = ccnt[s] /\ rcnt'[s] = rcnt[s]
    BY <1>3, Domains, Zenon DEF Send, userVars
  <2>2. \/ MoreSends(s) /\ scnt'[s] = scnt[s] + 1 /\ Due(s)' = Due(s) + 1
        \/ ~MoreSends(s) /\ scnt'[s] = scnt[s] /\ Due(s)' = Due(s)
    <3>1. UNCHANGED <<flight, unacked, cq>>
      BY <1>3, Zenon DEF Send
    <3>2. CASE MoreSends(s)
      <4>1. scnt'[s] = scnt[s] + 1 /\ wq'[s] = Append(wq[s], size[s])
        BY <1>3, <3>2, Domains, Zenon DEF Send
      <4>2. Len(wq'[s]) = Len(wq[s]) + 1
        BY <4>1, Domains
      <4>3. Pending(s)' = Pending(s) + 1
        <5>1. \A a, b \in Nat : (a + 1) + b = (a + b) + 1
          OBVIOUS
        <5>2. Len(wq[s]) \in Nat /\ Len(flight[s]) \in Nat
          BY Numbers, Zenon
        <5> QED  BY <3>1, <4>2, <5>1, <5>2, Zenon DEF Pending
      <4>4. Due(s)' = Due(s) + 1
        BY <3>1, <4>3, <1>n DEF Due
      <4> QED  BY <3>2, <4>1, <4>4, Zenon
    <3>3. CASE ~MoreSends(s)
      BY <1>3, <3>1, <3>3, Zenon DEF Send, Due, Pending
    <3> QED  BY <3>2, <3>3, Zenon
  <2>3. InTurn(s)'
    BY <2>1, <2>2, <1>n, <1>s, <1>i DEF InTurn, SentLast, Answers, MoreSends, Duration
  <2>4. OneAtATime(s)'
    <3>1. CASE MoreSends(s)
      <4>1. Due(s)' = 1 /\ scnt'[s] = scnt[s] + 1 /\ Due(s)' = scnt'[s] - ccnt'[s]
        BY <2>1, <2>2, <3>1, <1>n DEF OneAtATime
      <4>2. ~SentLast(s)'
        BY <2>1, <4>1, <1>n, <1>i DEF InTurn, SentLast, Answers, Duration
      <4> QED  BY <2>1, <4>1, <4>2, SMTT(30) DEF OneAtATime
    <3>2. CASE ~MoreSends(s)
      <4>1. Due(s)' = 0 /\ scnt'[s] = scnt[s] /\ Due(s)' = scnt'[s] - ccnt'[s]
        BY <2>1, <2>2, <3>2, <1>n, Zenon DEF OneAtATime
      <4>2. SentLast(s)'
        <5>1. ~Duration /\ scnt[s] = Iters /\ rcnt[s] <= Iters
          BY <3>2, <1>n, <1>i DEF InTurn, MoreSends
        <5>2. rcnt[s] = scnt[s] + Answers(s)
          BY <2>1, Zenon DEF InTurn
        <5>3. s = SERVER /\ rcnt[s] = Iters
          BY <5>1, <5>2, <1>n, <1>s, <1>i DEF Answers
        <5> QED  BY <2>1, <4>1, <5>1, <5>3, Zenon DEF SentLast, Duration
      <4> QED  BY <2>1, <4>1, <4>2, Zenon DEF OneAtATime
    <3> QED  BY <3>1, <3>2, Zenon
  <2> QED  BY <2>3, <2>4, Zenon
<1>4. CASE Sent(s)
  <2>1. /\ pc[s] = "sent" /\ UNCHANGED test_type
        /\ pc'[s] = IF Ended(s) THEN "report"
                    ELSE IF ccnt[s] < iters[s] \/ Duration THEN "poll" ELSE "top"
        /\ state'[s] = state[s] /\ iters'[s] = iters[s] /\ size'[s] = size[s]
        /\ scnt'[s] = scnt[s] /\ ccnt'[s] = ccnt[s] /\ rcnt'[s] = rcnt[s] /\ Due(s)' = Due(s)
    BY <1>4, Domains, Zenon DEF Sent, userVars, wireVars, Due, Pending
  <2>2. InTurn(s)'
    <3>1. CASE Duration
      BY <2>1, <3>1, <1>n, <1>s, <1>i, Zenon DEF InTurn, SentLast, Answers, Duration
    <3>2. CASE ~Duration
      <4>1. pc'[s] = IF ccnt[s] < iters[s] THEN "poll" ELSE "top"
        BY <2>1, <3>2, Zenon DEF Ended
      <4>2. SentLast(s) => ccnt[s] = iters[s]
        BY <2>1, <3>2, <1>n, <1>i DEF InTurn, OneAtATime, SentLast
      <4> QED
        BY <2>1, <3>2, <4>1, <4>2, <1>n, <1>s, <1>i DEF InTurn, SentLast, Answers, Duration
    <3> QED  BY <3>1, <3>2, Zenon
  <2>3. OneAtATime(s)'
    BY <2>1, <1>n, <1>s, <1>i DEF InTurn, OneAtATime, SentLast, Answers, Duration, Ended
  <2> QED  BY <2>2, <2>3, Zenon
<1>5. CASE Poll(s)
  <2>1. /\ pc[s] = "poll" /\ pc'[s] = "top" /\ cq[s] > 0 /\ UNCHANGED test_type
        /\ state'[s] = state[s] /\ size'[s] = size[s] /\ Due(s)' = Due(s) - 1
        /\ scnt'[s] = scnt[s] /\ ccnt'[s] = ccnt[s] + 1 /\ rcnt'[s] = rcnt[s]
    <3>1. cq'[s] = cq[s] - 1 /\ UNCHANGED <<wq, flight, unacked>>
      BY <1>5, Domains, Zenon DEF Poll
    <3>p. Pending(s)' = Pending(s)
      BY <3>1, Zenon DEF Pending
    <3>2. Due(s)' = Due(s) - 1
      BY <3>1, <3>p, <1>n DEF Due
    <3> QED  BY <1>5, <3>2, Domains, Zenon DEF Poll, userVars
  <2>2. iters'[s] = iters[s] \/ (Duration /\ iters'[s] = iters[s] + 1)
    BY <1>5, Domains, Zenon DEF Poll
  <2> QED  BY <2>1, <2>2, <1>n, <1>s, <1>i DEF InTurn, OneAtATime, Answers, SentLast, Duration
<1>6. CASE PollEnds(s)
  <2>1. /\ pc[s] = "poll" /\ pc'[s] = "top" /\ Ended(s) /\ UNCHANGED test_type
        /\ state'[s] = state[s] /\ iters'[s] = iters[s] /\ size'[s] = size[s]
        /\ scnt'[s] = scnt[s] /\ ccnt'[s] = ccnt[s] /\ rcnt'[s] = rcnt[s] /\ Due(s)' = Due(s)
    BY <1>6, Domains, Zenon DEF PollEnds, userVars, wireVars, Due, Pending
  <2> QED
    BY <2>1, <1>n, <1>s, <1>i DEF InTurn, OneAtATime, Answers, SentLast, Duration, Ended, More
<1>7. CASE Report(s)
  <2>1. /\ pc[s] = "report" /\ UNCHANGED test_type /\ Due(s)' = Due(s)
        /\ state'[s] = state[s] /\ iters'[s] = iters[s]
    BY <1>7, Domains, Zenon DEF Report, userVars, wireVars, Due, Pending
  <2>2. \/ /\ size[s] < LastSize /\ pc'[s] = "top" /\ size'[s] = size[s] + 1
           /\ scnt'[s] = 0 /\ ccnt'[s] = 0 /\ rcnt'[s] = 0
        \/ /\ pc'[s] = "done" /\ size'[s] = size[s]
           /\ scnt'[s] = scnt[s] /\ ccnt'[s] = ccnt[s] /\ rcnt'[s] = rcnt[s]
    BY <1>7, Domains DEF Report, FirstOfSize
  <2>3. CASE size[s] < LastSize /\ pc'[s] = "top" /\ scnt'[s] = 0 /\ ccnt'[s] = 0 /\ rcnt'[s] = 0
    <3>1. ~Duration
      BY <2>3, <1>n DEF LastSize
    <3>2. state[s] = "START" /\ iters[s] = Iters /\ scnt[s] = Iters /\ ccnt[s] = Iters
      BY <2>1, <3>1, <1>i, Zenon DEF InTurn
    <3>3. InTurn(s)'
      <4>1. ~Duration' /\ Answers(s)' = Answers(s)
        BY <2>1, <3>1, Zenon DEF Duration, Answers
      <4>2. s = SERVER \/ rcnt'[s] + 1 = scnt'[s] + Answers(s)
        BY <2>3, <1>s DEF Answers
      <4>3. scnt'[s] <= Iters /\ rcnt'[s] <= Iters
        BY <2>3, <1>i
      <4> QED  BY <2>1, <2>3, <3>2, <4>1, <4>2, <4>3, Zenon DEF InTurn
    <3>4. Due(s) = 0
      BY <3>2, <1>n, <1>i DEF OneAtATime
    <3> QED  BY <2>1, <2>3, <3>3, <3>4, <1>n DEF OneAtATime
  <2>4. CASE /\ pc'[s] = "done" /\ size'[s] = size[s]
             /\ scnt'[s] = scnt[s] /\ ccnt'[s] = ccnt[s] /\ rcnt'[s] = rcnt[s]
    <3>1. InTurn(s)'
      BY <2>1, <2>4, <1>i, Zenon DEF InTurn, Duration
    <3> QED  BY <2>1, <2>4, <3>1, <1>i, Zenon DEF OneAtATime
  <2> QED  BY <2>2, <2>3, <2>4, Zenon
<1> QED  BY <1>1, <1>2, <1>3, <1>4, <1>5, <1>6, <1>7, Zenon DEF Loop

(* The adapter moves a WRITE on and the alarm changes the state: neither   *)
(* changes whose turn it is.                                               *)
LEMMA AdapterMoves ==
    ASSUME TypeOK, NEW s \in Side
    PROVE  /\ Start(s) => Due(s)' = Due(s) /\ Pending(s)' = Pending(s)
           /\ Place(s) => Due(s)' = Due(s) /\ Pending(s)' = Pending(s) - 1
           /\ Complete(s) => Due(s)' = Due(s) /\ Pending(s)' = Pending(s)
<1>n. Len(wq[s]) \in Nat /\ Len(flight[s]) \in Nat
  BY Numbers, Zenon
<1>d. unacked[s] \in Nat /\ cq[s] \in Nat /\ Pending(s) \in Nat
  BY Numbers, Zenon
<1>1. ASSUME Start(s) PROVE Due(s)' = Due(s) /\ Pending(s)' = Pending(s)
  <2>1. wq'[s] = Tail(wq[s]) /\ wq[s] # <<>>
    BY <1>1, Domains, Zenon DEF Start
  <2>2. Len(wq'[s]) = Len(wq[s]) - 1
    BY <2>1, Domains
  <2>3. PICK w \in Message : flight'[s] = Append(flight[s], w)
    <3>1. [z \in 1..Head(wq[s]) |-> buf[s][z]] \in Message
      BY <2>1, WireTypes, Zenon
    <3> QED  BY <1>1, <3>1, Domains, Zenon DEF Start
  <2>4. Len(flight'[s]) = Len(flight[s]) + 1
    BY <2>3, Domains
  <2>5. Pending(s)' = Pending(s)
    <3>1. \A a, b \in Nat : (a - 1) + (b + 1) = a + b
      OBVIOUS
    <3> QED  BY <1>n, <2>2, <2>4, <3>1, Zenon DEF Pending
  <2> QED  BY <1>1, <2>5, Zenon DEF Start, Due
<1>2. ASSUME Place(s) PROVE Due(s)' = Due(s) /\ Pending(s)' = Pending(s) - 1
  <2>1. flight'[s] = Tail(flight[s]) /\ flight[s] # <<>>
    BY <1>2, Domains, Zenon DEF Place
  <2>2. Len(flight'[s]) = Len(flight[s]) - 1
    BY <2>1, Domains
  <2>3. unacked'[s] = unacked[s] + 1 /\ UNCHANGED <<wq, cq>>
    BY <1>2, Domains, Zenon DEF Place
  <2>4. Pending(s)' = Pending(s) - 1
    <3>1. \A a, b \in Nat : a + (b - 1) = (a + b) - 1
      OBVIOUS
    <3>2. Len(wq'[s]) = Len(wq[s])
      BY <2>3, Zenon
    <3> QED  BY <1>n, <2>2, <3>1, <3>2, Zenon DEF Pending
  <2>5. Due(s)' = Due(s)
    BY <1>d, <2>3, <2>4 DEF Due
  <2> QED  BY <2>4, <2>5, Zenon
<1>3. ASSUME Complete(s) PROVE Due(s)' = Due(s) /\ Pending(s)' = Pending(s)
  <2>1. unacked'[s] = unacked[s] - 1 /\ cq'[s] = cq[s] + 1 /\ UNCHANGED <<wq, flight>>
    BY <1>3, Domains, Zenon DEF Complete
  <2>2. Pending(s)' = Pending(s)
    BY <2>1, Zenon DEF Pending
  <2>3. Due(s)' = Due(s)
    BY <1>d, <2>1, <2>2 DEF Due
  <2> QED  BY <2>2, <2>3, Zenon
<1> QED  BY <1>1, <1>2, <1>3, Zenon

LEMMA AdapterTurn ==
    ASSUME TypeOK, NEW s \in Side, InTurn(s), OneAtATime(s), Adapter(s) \/ catch_alarm(s)
    PROVE  InTurn(s)' /\ OneAtATime(s)'
<1>1. CASE Adapter(s)
  <2>1. Due(s)' = Due(s) /\ UNCHANGED <<test_type, state, iters, pc, size, scnt, ccnt, rcnt>>
    BY <1>1, AdapterMoves, Zenon DEF Adapter, Start, Place, Complete, userVars, loopVars
  <2> QED
    BY <2>1, Zenon DEF InTurn, OneAtATime, SentLast, Answers, Duration, Ended, More
<1>2. CASE catch_alarm(s)
  <2>1. /\ Duration /\ Due(s)' = Due(s) /\ state[s] # "END"
        /\ UNCHANGED <<test_type, iters, pc, size, scnt, ccnt, rcnt>>
    BY <1>2, Zenon DEF catch_alarm, userVars, loopVars, wireVars, Due, Pending
  <2> QED
    BY <2>1, Zenon DEF InTurn, OneAtATime, SentLast, Answers, Duration, Ended
<1> QED  BY <1>1, <1>2, Zenon

LEMMA TurnNext == TypeOK /\ Turns /\ [Next]_vars => Turns'
<1> SUFFICES ASSUME TypeOK, Turns, [Next]_vars, NEW t \in Side
             PROVE  InTurn(t)' /\ OneAtATime(t)'
  BY Zenon DEF Turns
<1>t. InTurn(t) /\ OneAtATime(t)
  BY Zenon DEF Turns
<1>1. ASSUME NEW s \in Side, Loop(s) \/ catch_alarm(s) \/ Adapter(s)
      PROVE  InTurn(t)' /\ OneAtATime(t)'
  <2>1. CASE t = s
    BY <1>1, <1>t, <2>1, OwnTurn, AdapterTurn, Zenon
  <2>2. CASE t # s
    BY <1>1, <1>t, <2>2, OthersTurn, Zenon
  <2> QED  BY <2>1, <2>2, Zenon
<1>2. CASE UNCHANGED vars
  BY <1>2, <1>t, ZenonT(30) DEF vars, userVars, loopVars, wireVars, InTurn, OneAtATime, Due, Pending,
                    SentLast, Answers, Duration, Ended, More
<1> QED  BY <1>1, <1>2, Zenon DEF Next, Finished

-----------------------------------------------------------------------------
(* What the WRITEs carry.                                                  *)

LEMMA OneWrite ==
    ASSUME TypeOK, NEW s \in Side, OneAtATime(s)
    PROVE  /\ Pending(s) \in 0..1 /\ Pending(s) <= Due(s)
           /\ Pending(s) = 0 => wq[s] = <<>> /\ flight[s] = <<>>
           /\ wq[s] # <<>> => Pending(s) = 1 /\ Tail(wq[s]) = <<>> /\ flight[s] = <<>>
           /\ flight[s] # <<>> => Pending(s) = 1 /\ Tail(flight[s]) = <<>> /\ wq[s] = <<>>
<1>1. Pending(s) \in Nat /\ Pending(s) <= Due(s) /\ Due(s) <= 1 /\ Pending(s) <= 1
  BY Numbers DEF OneAtATime, Due
<1>2. /\ wq[s] \in Seq(Size) /\ flight[s] \in Seq(Message)
  BY Zenon DEF TypeOK
<1>3. /\ wq[s] # <<>> => Len(wq[s]) >= 1 /\ (Len(wq[s]) = 1 => Tail(wq[s]) = <<>>)
      /\ flight[s] # <<>> => Len(flight[s]) >= 1 /\ (Len(flight[s]) = 1 => Tail(flight[s]) = <<>>)
      /\ Len(wq[s]) \in Nat /\ Len(flight[s]) \in Nat
  <2>1. ASSUME NEW S, NEW q \in Seq(S), q # <<>>
        PROVE  Len(q) >= 1 /\ (Len(q) = 1 => Tail(q) = <<>>)
    <3>1. Len(q) >= 1
      BY <2>1
    <3>2. ASSUME Len(q) = 1 PROVE Tail(q) = <<>>
      <4>1. Tail(q) \in Seq(S) /\ Len(Tail(q)) = 0
        BY <2>1, <3>2
      <4>2. \A r \in Seq(S) : Len(r) = 0 => r = <<>>
        OBVIOUS
      <4> QED  BY <4>1, <4>2, Zenon
    <3> QED  BY <3>1, <3>2, Zenon
  <2>2. Len(wq[s]) \in Nat /\ Len(flight[s]) \in Nat
    BY <1>2
  <2> QED  BY <1>2, <2>1, <2>2, Zenon
<1>4. /\ Len(wq[s]) = 0 => wq[s] = <<>>
      /\ Len(flight[s]) = 0 => flight[s] = <<>>
  BY <1>2
<1>5. ASSUME NEW a \in Nat, NEW b \in Nat, a + b <= 1
      PROVE  /\ a + b = 0 => a = 0 /\ b = 0
             /\ a >= 1 => a = 1 /\ b = 0 /\ a + b = 1
             /\ b >= 1 => b = 1 /\ a = 0 /\ a + b = 1
  BY <1>5
<1>6. Len(wq[s]) + Len(flight[s]) <= 1
  BY <1>1, Zenon DEF Pending
<1>7. /\ Pending(s) = 0 => Len(wq[s]) = 0 /\ Len(flight[s]) = 0
      /\ Len(wq[s]) >= 1 => Len(wq[s]) = 1 /\ Len(flight[s]) = 0 /\ Pending(s) = 1
      /\ Len(flight[s]) >= 1 => Len(flight[s]) = 1 /\ Len(wq[s]) = 0 /\ Pending(s) = 1
  BY <1>3, <1>5, <1>6, Zenon DEF Pending
<1>8. Pending(s) \in 0..1
  BY <1>1
<1> QED  BY <1>1, <1>3, <1>4, <1>7, <1>8, Zenon

LEMMA CarriedInit == Init => \A s \in Side : Carried(s)
<1> SUFFICES ASSUME Init, NEW s \in Side PROVE Carried(s)
  BY Zenon
<1>1. /\ size[s] = 1 /\ scnt[s] = 0 /\ wq[s] = <<>> /\ flight[s] = <<>>
      /\ buf[s] = [z \in Size |-> 0] /\ mem[Peer(s)] = [z \in Size |-> 0] /\ got[Peer(s)] = 0
  BY Sides, Zenon DEF Init, InitialByte
<1>2. Pending(s) = 0
  BY <1>1 DEF Pending
<1>3. 0 % ByteMod = 0
  BY Constants
<1>4. SentAll(s) = 0
  BY <1>1, Constants DEF SentAll
<1>5. \A z \in Size : z \in Nat /\ z >= 1
  BY Constants DEF Size
<1> QED  BY <1>1, <1>2, <1>3, <1>4, <1>5 DEF Carried

(* Carried(s) depends on s only through this. *)
LEMMA CarriedSame ==
    ASSUME NEW s \in Side, Carried(s),
           buf'[s] = buf[s], mem'[Peer(s)] = mem[Peer(s)], size'[s] = size[s],
           scnt'[s] = scnt[s], wq'[s] = wq[s], flight'[s] = flight[s],
           got'[Peer(s)] = got[Peer(s)]
    PROVE  Carried(s)'
  BY ZenonT(30) DEF Carried, Pending, SentAll

(* The other side's steps touch nothing of it: what is placed by the peer  *)
(* goes to the memory of s.                                                *)
LEMMA OthersCarried ==
    ASSUME TypeOK, NEW s \in Side, NEW t \in Side, t # s, Carried(t),
           Loop(s) \/ catch_alarm(s) \/ Adapter(s)
    PROVE  Carried(t)'
<1>1. Peer(t) = s
  BY Sides, Zenon
<1> QED  BY <1>1, OtherSide, CarriedSame, ZenonT(30)

LEMMA OwnCarried ==
    ASSUME TypeOK, NEW s \in Side, InTurn(s), OneAtATime(s), Carried(s),
           Loop(s) \/ catch_alarm(s) \/ Adapter(s)
    PROVE  Carried(s)'
<1>p. Peer(s) \in Side /\ Peer(s) # s
  BY Sides, Zenon
<1>n. /\ scnt[s] \in Nat /\ ccnt[s] \in Nat /\ size[s] \in Size /\ size[s] \in Nat \ {0}
      /\ got[Peer(s)] \in Nat
  BY <1>p, Numbers, Zenon
<1>o. /\ Pending(s) \in 0..1 /\ Pending(s) <= Due(s)
      /\ Pending(s) = 0 => wq[s] = <<>> /\ flight[s] = <<>>
      /\ wq[s] # <<>> => Pending(s) = 1 /\ Tail(wq[s]) = <<>> /\ flight[s] = <<>>
      /\ flight[s] # <<>> => Pending(s) = 1 /\ Tail(flight[s]) = <<>> /\ wq[s] = <<>>
  BY OneWrite, Zenon
<1>c. /\ \A z \in Size :
            /\ buf[s][z] = IF z < size[s] THEN Iters % ByteMod
                           ELSE IF z = size[s] THEN scnt[s] % ByteMod ELSE 0
            /\ mem[Peer(s)][z] = IF z = size[s] THEN (scnt[s] - Pending(s)) % ByteMod
                                 ELSE buf[s][z]
      /\ got[Peer(s)] = SentAll(s) - Pending(s)
  BY Zenon DEF Carried
<1>z. \A z \in Size : z \in Nat
  BY Constants DEF Size
<1>i. Iters \in Nat \ {0} /\ ByteMod \in Nat \ {0, 1}
  BY Constants, Zenon
<1>b. (size[s] - 1) * Iters \in Int
  BY <1>n, <1>i
<1>1. CASE Top(s) \/ Wait(s) \/ Sent(s) \/ PollEnds(s) \/ Poll(s)
  BY <1>1, CarriedSame, Zenon DEF Top, Wait, Sent, PollEnds, Poll, wireVars
<1>2. CASE Send(s)
  <2>1. CASE ~MoreSends(s)
    BY <1>2, <2>1, CarriedSame, Zenon DEF Send
  <2>2. CASE MoreSends(s)
    <3>1. Pending(s) = 0 /\ wq[s] = <<>> /\ flight[s] = <<>>
      BY <1>2, <1>o DEF Send, OneAtATime
    <3>2. /\ scnt'[s] = scnt[s] + 1 /\ size'[s] = size[s] /\ flight'[s] = <<>>
          /\ mem'[Peer(s)] = mem[Peer(s)] /\ got'[Peer(s)] = got[Peer(s)]
      BY <1>2, <2>2, <3>1, Domains, Zenon DEF Send
    <3>3. wq'[s] = <<size[s]>>
      <4>1. wq'[s] = Append(wq[s], size[s])
        BY <1>2, <2>2, Domains, Zenon DEF Send
      <4> QED  BY <4>1, <3>1
    <3>4. Pending(s)' = 1
      BY <3>2, <3>3 DEF Pending
    <3>5. \A z \in Size : buf'[s][z] = IF z = size[s] THEN (scnt[s] + 1) % ByteMod ELSE buf[s][z]
      BY <1>2, <2>2, SMTT(30) DEF Send, Number, TypeOK
    <3>6. SentAll(s)' = SentAll(s) + 1
      BY <3>2, <1>n, <1>b, SMTT(20) DEF SentAll
    <3>7. \A z \in Size :
            /\ buf'[s][z] = IF z < size'[s] THEN Iters % ByteMod
                            ELSE IF z = size'[s] THEN scnt'[s] % ByteMod ELSE 0
            /\ mem'[Peer(s)][z] = IF z = size'[s] THEN (scnt'[s] - Pending(s)') % ByteMod
                                  ELSE buf'[s][z]
      <4>1. scnt'[s] - Pending(s)' = scnt[s] - Pending(s)
        BY <3>1, <3>2, <3>4, <1>n
      <4>2. ~(size[s] < size[s])
        BY <1>n
      <4> QED  BY <3>2, <3>5, <4>1, <4>2, <1>c, Zenon
    <3>8. got'[Peer(s)] = SentAll(s)' - Pending(s)'
      BY <3>1, <3>2, <3>4, <3>6, <1>c, <1>n, <1>b DEF SentAll
    <3> QED  BY <3>2, <3>3, <3>7, <3>8, SMTT(20) DEF Carried
  <2> QED  BY <2>1, <2>2, Zenon
<1>3. CASE Report(s)
  <2>1. CASE ~(size[s] < LastSize)
    BY <1>3, <2>1, CarriedSame, Zenon DEF Report, wireVars
  <2>2. CASE size[s] < LastSize
    <3>1. ~Duration /\ scnt[s] = Iters /\ Pending(s) = 0
      BY <1>3, <2>2, <1>n, <1>o, <1>i DEF Report, LastSize, InTurn, OneAtATime
    <3>2. /\ scnt'[s] = 0 /\ size'[s] = size[s] + 1 /\ UNCHANGED <<buf, mem, wq, flight, got>>
      BY <1>3, <2>2, Domains DEF Report, FirstOfSize, wireVars
    <3>3. Pending(s)' = 0
      BY <3>1, <3>2, Zenon DEF Pending
    <3>4. SentAll(s)' = SentAll(s)
      BY <3>1, <3>2, <1>n, <1>i DEF SentAll
    <3>5. 0 % ByteMod = 0
      BY <1>i
    <3>6. \A z \in Size :
            /\ buf'[s][z] = IF z < size'[s] THEN Iters % ByteMod
                            ELSE IF z = size'[s] THEN scnt'[s] % ByteMod ELSE 0
            /\ mem'[Peer(s)][z] = IF z = size'[s] THEN (scnt'[s] - Pending(s)') % ByteMod
                                  ELSE buf'[s][z]
      BY <3>1, <3>2, <3>3, <3>5, <1>c, <1>n, <1>z, SMTT(20)
    <3>7. wq'[s] = <<>> /\ flight'[s] = <<>>
      BY <3>1, <3>2, <1>o, Zenon
    <3>8. got'[Peer(s)] = SentAll(s)' - Pending(s)'
      BY <3>1, <3>2, <3>3, <3>4, <1>c, Zenon
    <3> QED  BY <3>6, <3>7, <3>8, Zenon DEF Carried
  <2> QED  BY <2>1, <2>2, Zenon
<1>4. CASE catch_alarm(s)
  BY <1>4, CarriedSame, Zenon DEF catch_alarm, loopVars, wireVars
<1>5. CASE Start(s)
  <2>1. /\ Pending(s)' = Pending(s) /\ UNCHANGED <<buf, mem, size, scnt, got>>
    BY <1>5, AdapterMoves, Zenon DEF Start, loopVars
  <2>2. flight[s] = <<>> /\ wq'[s] = <<>> /\ Head(wq[s]) = size[s]
    BY <1>5, <1>o, Domains, Zenon DEF Start, Carried
  <2>3. flight'[s] = <<[z \in 1..size[s] |-> buf[s][z]]>>
    <3>1. flight'[s] = Append(flight[s], [z \in 1..size[s] |-> buf[s][z]])
      BY <1>5, <2>2, Domains, Zenon DEF Start
    <3> QED  BY <3>1, <2>2
  <2>4. SentAll(s)' = SentAll(s)
    BY <2>1, Zenon DEF SentAll
  <2> QED  BY <2>1, <2>2, <2>3, <2>4, <1>c DEF Carried
<1>6. CASE Place(s)
  <2>1. /\ Pending(s)' = Pending(s) - 1 /\ UNCHANGED <<buf, size, scnt, wq>>
    BY <1>6, AdapterMoves, Zenon DEF Place, loopVars
  <2>2. /\ Pending(s) = 1 /\ flight'[s] = <<>> /\ wq[s] = <<>>
        /\ Head(flight[s]) = [z \in 1..size[s] |-> buf[s][z]]
    BY <1>6, <1>o, Domains, Zenon DEF Place, Carried
  <2>3. got'[Peer(s)] = got[Peer(s)] + 1
    BY <1>6, <1>p, Domains, Zenon DEF Place
  <2>4. \A z \in Size : mem'[Peer(s)][z] = IF z \in 1..size[s] THEN buf[s][z] ELSE mem[Peer(s)][z]
    BY <1>6, <2>2, <1>p, Domains, Zenon DEF Place
  <2>5. \A z \in Size : mem'[Peer(s)][z] = buf[s][z]
    BY <2>4, <1>c, <1>n
  <2>6. scnt[s] - Pending(s)' = scnt[s]
    BY <2>1, <2>2, <1>n
  <2>7. \A z \in Size :
            mem'[Peer(s)][z] = IF z = size[s] THEN (scnt[s] - Pending(s)') % ByteMod
                               ELSE buf[s][z]
    <3>n. ~(size[s] < size[s])
      BY <1>n
    <3>1. buf[s][size[s]] = scnt[s] % ByteMod
      BY <1>c, <1>n, <3>n, Zenon
    <3> QED  BY <2>5, <2>6, <3>1, Zenon
  <2>8. got'[Peer(s)] = SentAll(s)' - Pending(s)'
    BY <2>1, <2>2, <2>3, <1>c, <1>n, <1>b, SMTT(20) DEF SentAll
  <2> QED  BY <2>1, <2>2, <2>7, <2>8, <1>c, Zenon DEF Carried
<1>7. CASE Complete(s)
  BY <1>7, CarriedSame, Zenon DEF Complete, loopVars
<1> QED  BY <1>1, <1>2, <1>3, <1>4, <1>5, <1>6, <1>7, Zenon DEF Loop, Adapter

-----------------------------------------------------------------------------
(* The byte a side polls.                                                  *)

(* The heart of the matter: the number polled for is in memory only when   *)
(* the message has come.  What has been placed is either one message       *)
(* short, and then the byte differs, or the peer is still in the size      *)
(* before, and then the byte is the one the buffer was cleared with.       *)
LEMMA ReleasedForReal ==
    ASSUME LatWriteInv, NEW s \in Side, pc[s] = "wait", Released(s), state[s] # "END"
    PROVE  Noticed(s) + 1 <= got[s]
<1> DEFINE p == Peer(s)
           x == scnt[p] - Pending(p)
           y == rcnt[s] - 1
<1>p. p \in Side /\ Peer(p) = s
  BY Sides, Zenon
<1>n. /\ scnt[p] \in Nat /\ rcnt[s] \in Nat /\ got[s] \in Nat
      /\ size[s] \in Size /\ size[s] \in Nat \ {0} /\ size[p] \in Size /\ size[p] \in Nat \ {0}
      /\ Pending(p) \in Nat /\ ccnt[p] \in Nat /\ Due(p) \in Nat
  BY <1>p, Numbers, Zenon DEF LatWriteInv
<1>i. Iters \in Nat \ {0} /\ ByteMod \in Nat \ {0, 1}
  BY Constants, Zenon
<1>o. Pending(p) <= Due(p)
  BY <1>p, OneWrite, Zenon DEF LatWriteInv, Turns
<1>x. x \in Nat
  <2>1. Due(p) = scnt[p] - ccnt[p]
    BY <1>p, Zenon DEF LatWriteInv, Turns, OneAtATime
  <2> QED  BY <2>1, <1>o, <1>n
<1>y. y \in Nat
  <2>1. rcnt[s] > 0
    BY Zenon DEF LatWriteInv, Turns, InTurn
  <2> QED  BY <2>1, <1>n
<1>c. /\ mem[s][size[s]] = IF size[s] = size[p] THEN x % ByteMod ELSE buf[p][size[s]]
      /\ buf[p][size[s]] = IF size[s] < size[p] THEN Iters % ByteMod
                           ELSE IF size[s] = size[p] THEN scnt[p] % ByteMod ELSE 0
      /\ got[s] = SentAll(p) - Pending(p)
  <2> HIDE DEF p
  <2>1. Carried(p) /\ Peer(p) = s /\ size[s] \in Size
    BY <1>p, <1>n, Zenon DEF LatWriteInv
  <2> QED  BY <2>1, Zenon DEF Carried
<1>g. got[s] = (size[p] - 1) * Iters + x
  BY <1>c, <1>n, <1>i DEF SentAll
<1>q. Noticed(s) = (size[s] - 1) * Iters + y
  BY Zenon DEF Noticed
<1>l. Noticed(s) <= got[s]
  BY Zenon DEF LatWriteInv, NoticedForReal
<1>r. mem[s][size[s]] = (y + 1) % ByteMod
  <2>1. mem[s][size[s]] = rcnt[s] % ByteMod
    BY Zenon DEF Released
  <2>2. y + 1 = rcnt[s]
    BY <1>n
  <2> QED  BY <2>1, <2>2, Zenon
<1> SUFFICES ASSUME Noticed(s) = got[s] PROVE FALSE
  <2>1. Noticed(s) \in Int
    BY <1>q, <1>y, <1>n, <1>i
  <2> QED  BY <1>l, <1>n, <2>1
<1> HIDE DEF p, x, y
<1>1. ASSUME size[s] = size[p], x = y PROVE FALSE
  <2>1. (y + 1) % ByteMod # y % ByteMod
    BY <1>y, <1>i, ModNext, Zenon
  <2> QED  BY <1>1, <1>c, <1>r, <2>1, Zenon
<1>2. CASE Duration
  <2>1. size[s] = 1 /\ size[p] = 1
    BY <1>2, <1>p, Zenon DEF LatWriteInv, Turns, InTurn
  <2>2. x = y
    BY <2>1, <1>g, <1>q, <1>x, <1>y, <1>i
  <2> QED  BY <1>1, <2>1, <2>2, Zenon
<1>3. CASE ~Duration
  <2>1. scnt[p] <= Iters /\ rcnt[s] <= Iters
    BY <1>3, <1>p, Zenon DEF LatWriteInv, Turns, InTurn
  <2>2. x \in 0..Iters /\ y \in 0..(Iters - 1)
    BY <2>1, <1>x, <1>y, <1>n, <1>i DEF x, y
  <2>3. (size[p] - 1) * Iters + x = (size[s] - 1) * Iters + y
    BY <1>g, <1>q, Zenon
  <2>4. \/ size[p] - 1 = size[s] - 1 /\ x = y
        \/ size[s] - 1 = size[p] - 1 + 1 /\ x = Iters /\ y = 0
    <3> DEFINE a == size[p] - 1
               b == size[s] - 1
    <3>1. a \in Int /\ b \in Int /\ a * Iters + x = b * Iters + y
      BY <1>n, <2>3
    <3> HIDE DEF a, b
    <3>2. (a = b /\ x = y) \/ (b = a + 1 /\ x = Iters /\ y = 0)
      BY <2>2, <3>1, <1>i, SamePlace
    <3> QED  BY <3>2, Zenon DEF a, b
  <2>5. CASE size[p] - 1 = size[s] - 1 /\ x = y
    BY <2>5, <1>1, <1>n
  <2>6. CASE size[s] = size[p] + 1 /\ y = 0
    <3>1. mem[s][size[s]] = 0
      BY <2>6, <1>c, <1>n
    <3>2. (0 + 1) % ByteMod # 0 % ByteMod
      BY <1>i, ModNext, Zenon
    <3>3. 0 % ByteMod = 0
      BY <1>i
    <3> QED  BY <2>6, <3>1, <3>2, <3>3, <1>r, Zenon
  <2> QED  BY <2>4, <2>5, <2>6, <1>n
<1> QED  BY <1>2, <1>3, Zenon

LEMMA NoticedNext == LatWriteInv /\ [Next]_vars => NoticedForReal'
<1> SUFFICES ASSUME LatWriteInv, [Next]_vars, NEW t \in Side, state'[t] # "END"
             PROVE  Noticed(t)' <= got'[t]
  BY Zenon DEF NoticedForReal
<1>t. TypeOK /\ Turns /\ NoticedForReal
  BY Zenon DEF LatWriteInv
<1>n. /\ rcnt[t] \in Nat /\ size[t] \in Nat \ {0} /\ got[t] \in Nat /\ Iters \in Nat \ {0}
      /\ (size[t] - 1) * Iters \in Int
  <2>1. rcnt[t] \in Nat /\ size[t] \in Nat \ {0} /\ got[t] \in Nat /\ Iters \in Nat \ {0}
    BY <1>t, Numbers, Constants, Zenon
  <2> QED  BY <2>1
<1>i. Noticed(t) \in Int
  BY <1>n DEF Noticed
<1>g. got' \in [Side -> Nat]
  BY <1>t, TypeNext, Zenon DEF TypeOK
<1>1. ASSUME NEW s \in Side, Loop(s) \/ catch_alarm(s) \/ Adapter(s), t # s
      PROVE  Noticed(t)' <= got'[t]
  <2>1. pc'[t] = pc[t] /\ size'[t] = size[t] /\ rcnt'[t] = rcnt[t] /\ state'[t] = state[t]
    BY <1>1, <1>t, OtherSide, Zenon
  <2>2. got'[t] = got[t] \/ got'[t] = got[t] + 1
    <3>1. CASE Loop(s)
      BY <3>1, Zenon DEF Loop, Top, Wait, Send, Sent, Poll, PollEnds, Report, wireVars
    <3>2. CASE catch_alarm(s) \/ Adapter(s)
      <4>1. got' = got \/ got' = [got EXCEPT ![Peer(s)] = @ + 1]
        BY <3>2, Zenon DEF catch_alarm, Adapter, Start, Place, Complete, wireVars
      <4>2. got \in [Side -> Nat]
        BY <1>t, Zenon DEF TypeOK
      <4> QED  BY <4>1, <4>2, Zenon
    <3> QED  BY <1>1, <3>1, <3>2, Zenon
  <2>3. Noticed(t)' = Noticed(t)
    BY <2>1, Zenon DEF Noticed
  <2>4. state[t] # "END" /\ got'[t] >= got[t]
    BY <2>1, <2>2, <1>n
  <2> QED  BY <2>2, <2>3, <2>4, <1>t, <1>n, <1>i DEF NoticedForReal
<1>2. ASSUME UNCHANGED <<pc, size, rcnt>> \/ (Noticed(t)' = Noticed(t)), got'[t] = got[t],
             state[t] # "END"
      PROVE  Noticed(t)' <= got'[t]
  <2>1. Noticed(t)' = Noticed(t)
    BY <1>2, Zenon DEF Noticed
  <2> QED  BY <1>2, <1>t, <2>1, Zenon DEF NoticedForReal
<1>3. CASE Top(t)
  <2>1. /\ UNCHANGED <<state, size, got>> /\ pc[t] = "top"
        /\ \/ pc'[t] = "wait" /\ rcnt'[t] = rcnt[t] + 1
           \/ pc'[t] # "wait" /\ rcnt'[t] = rcnt[t]
    BY <1>3, <1>t, Domains, Zenon DEF Top, wireVars
  <2>2. Noticed(t)' = Noticed(t)
    BY <2>1, <1>n DEF Noticed
  <2> QED  BY <2>1, <2>2, <1>2, Zenon
<1>4. CASE Wait(t)
  <2>1. /\ UNCHANGED <<state, size, got, rcnt>> /\ pc[t] = "wait" /\ pc'[t] = "send" /\ Released(t)
    BY <1>4, <1>t, Domains, Zenon DEF Wait, wireVars
  <2>2. Noticed(t)' = Noticed(t) + 1
    BY <2>1, <1>n DEF Noticed
  <2> QED  BY <2>1, <2>2, ReleasedForReal, Zenon
<1>5. CASE Send(t) \/ Sent(t) \/ Poll(t) \/ PollEnds(t)
  <2>1. UNCHANGED <<state, size, got, rcnt>> /\ pc[t] # "wait" /\ pc'[t] # "wait"
    BY <1>5, <1>t, Domains, Zenon DEF Send, Sent, Poll, PollEnds, wireVars
  <2>2. Noticed(t)' = Noticed(t)
    BY <2>1, Zenon DEF Noticed
  <2> QED  BY <2>1, <2>2, <1>2, Zenon
<1>6. CASE Report(t)
  <2>1. UNCHANGED <<state, got>> /\ pc[t] = "report"
    BY <1>6, Zenon DEF Report, wireVars
  <2>2. CASE size[t] < LastSize
    <3>1. size'[t] = size[t] + 1 /\ rcnt'[t] = 0 /\ pc'[t] = "top"
      BY <1>6, <2>2, <1>t, Domains DEF Report, FirstOfSize
    <3>2. rcnt[t] = Iters
      BY <2>1, <2>2, <1>t, <1>n DEF LastSize, Turns, InTurn
    <3>3. Noticed(t)' = Noticed(t)
      BY <2>1, <3>1, <3>2, <1>n DEF Noticed
    <3> QED  BY <2>1, <3>3, <1>2, Zenon
  <2>3. CASE ~(size[t] < LastSize)
    <3>1. UNCHANGED <<size, rcnt>> /\ pc'[t] = "done"
      BY <1>6, <2>3, <1>t, Domains, Zenon DEF Report
    <3>2. Noticed(t)' = Noticed(t)
      BY <2>1, <3>1, Zenon DEF Noticed
    <3> QED  BY <2>1, <3>2, <1>2, Zenon
  <2> QED  BY <2>2, <2>3, Zenon
<1>7. CASE catch_alarm(t)
  <2>1. UNCHANGED <<pc, size, rcnt, got>> /\ state[t] # "END"
    BY <1>7, Zenon DEF catch_alarm, loopVars, wireVars
  <2> QED  BY <2>1, <1>2, Zenon
<1>8. CASE Adapter(t)
  <2>1. UNCHANGED <<pc, size, rcnt, state>>
    BY <1>8, Zenon DEF Adapter, Start, Place, Complete, loopVars
  <2>2. got' = got \/ got' = [got EXCEPT ![Peer(t)] = @ + 1]
    BY <1>8, Zenon DEF Adapter, Start, Place, Complete
  <2>3. got'[t] = got[t]
    BY <2>2, <1>t, Sides, Domains, Zenon
  <2> QED  BY <2>1, <2>3, <1>2, Zenon
<1>9. CASE UNCHANGED vars
  BY <1>9, <1>2, Zenon DEF vars, loopVars, wireVars
<1> QED  BY <1>1, <1>3, <1>4, <1>5, <1>6, <1>7, <1>8, <1>9, Zenon DEF Next, Loop, Finished

LEMMA InvInit == Init => LatWriteInv
<1> SUFFICES ASSUME Init PROVE LatWriteInv
  BY Zenon
<1>1. \A s \in Side : Noticed(s) = 0 /\ got[s] = 0
  BY Constants DEF Init, Noticed
<1> QED  BY <1>1, TypeInit, TurnInit, CarriedInit DEF LatWriteInv, Turns, NoticedForReal

LEMMA InvNext == LatWriteInv /\ [Next]_vars => LatWriteInv'
<1> SUFFICES ASSUME LatWriteInv, [Next]_vars PROVE LatWriteInv'
  BY Zenon
<1>1. TypeOK' /\ Turns' /\ NoticedForReal'
  BY TypeNext, TurnNext, NoticedNext, Zenon DEF LatWriteInv
<1>2. ASSUME NEW t \in Side PROVE Carried(t)'
  <2>1. TypeOK /\ InTurn(t) /\ OneAtATime(t) /\ Carried(t)
    BY Zenon DEF LatWriteInv, Turns
  <2>2. ASSUME NEW s \in Side, Loop(s) \/ catch_alarm(s) \/ Adapter(s) PROVE Carried(t)'
    BY <2>1, <2>2, OwnCarried, OthersCarried, Zenon
  <2>3. CASE UNCHANGED vars
    BY <2>1, <2>3, CarriedSame, Zenon DEF vars, loopVars, wireVars
  <2> QED  BY <2>2, <2>3, Zenon DEF Next, Finished
<1> QED  BY <1>1, <1>2, Zenon DEF LatWriteInv

LEMMA InvHolds == Spec => []LatWriteInv
  BY InvInit, InvNext, PTL DEF Spec

(* A side of the WRITE latency test goes on only when the message it polls *)
(* for has been placed, however many sizes and iterations it runs, however *)
(* narrow the number in the last byte, and whatever END does to the peer.  *)
THEOREM NoticesForReal == Spec => []NoticedForReal
<1>1. LatWriteInv => NoticedForReal
  BY Zenon DEF LatWriteInv
<1> QED  BY <1>1, InvHolds, PTL

-----------------------------------------------------------------------------
(* The test implements PingPong.                                           *)

LEMMA PeerIsPeer == \A s \in Side : PP!Peer(s) = Peer(s)
<1> SUFFICES ASSUME NEW s \in Side PROVE PP!Peer(s) = Peer(s)
  BY Zenon
<1>1. Peer(s) \in Side /\ Peer(s) # s /\ \A t \in Side : t # s => t = Peer(s)
  BY Sides, Zenon
<1> QED  BY <1>1, Zenon DEF PP!Peer

LEMMA PPInit == Init => PP!Init
<1> SUFFICES ASSUME Init PROVE PP!Init
  BY Zenon
<1>1. \A s \in Side : SentAll(s) = 0 /\ Noticed(s) = 0
  BY Constants DEF Init, SentAll, Noticed
<1> QED  BY <1>1, Zenon DEF PP!Init, Played

(* In iterations mode a step of the loop of s sends a message, notices one *)
(* or does neither; nothing else changes what is sent or noticed.          *)
LEMMA PlayedStep ==
    ASSUME LatWriteInv, ~Duration, NEW s \in Side, Loop(s) \/ Adapter(s)
    PROVE  /\ ~Duration'
           /\ \A t \in Side : t # s => SentAll(t)' = SentAll(t) /\ Noticed(t)' = Noticed(t)
           /\ \/ SentAll(s)' = SentAll(s) /\ Noticed(s)' = Noticed(s)
              \/ /\ SentAll(s)' = SentAll(s) + 1 /\ Noticed(s)' = Noticed(s)
                 /\ pc[s] = "send" /\ scnt[s] < Iters
              \/ /\ SentAll(s)' = SentAll(s) /\ Noticed(s)' = Noticed(s) + 1
                 /\ Wait(s)
<1>t. TypeOK /\ InTurn(s) /\ OneAtATime(s)
  BY Zenon DEF LatWriteInv, Turns
<1>n. /\ scnt[s] \in Nat /\ rcnt[s] \in Nat /\ size[s] \in Nat \ {0} /\ Iters \in Nat \ {0}
      /\ (size[s] - 1) * Iters \in Int
  <2>1. scnt[s] \in Nat /\ rcnt[s] \in Nat /\ size[s] \in Nat \ {0} /\ Iters \in Nat \ {0}
    BY <1>t, Numbers, Constants, Zenon
  <2> QED  BY <2>1
<1>d. ~Duration'
  BY Zenon DEF Loop, Adapter, Top, Wait, Send, Sent, Poll, PollEnds, Report, Start, Place, Complete,
         userVars, Duration
<1>o. ASSUME NEW t \in Side, t # s
      PROVE  SentAll(t)' = SentAll(t) /\ Noticed(t)' = Noticed(t)
  <2>1. pc'[t] = pc[t] /\ size'[t] = size[t] /\ rcnt'[t] = rcnt[t] /\ scnt'[t] = scnt[t]
    BY <1>o, <1>t, OtherSide, Zenon
  <2> QED  BY <2>1, Zenon DEF SentAll, Noticed
<1>1. CASE Top(s)
  <2>1. /\ UNCHANGED <<size, scnt>> /\ pc[s] = "top"
        /\ \/ pc'[s] = "wait" /\ rcnt'[s] = rcnt[s] + 1
           \/ pc'[s] # "wait" /\ rcnt'[s] = rcnt[s]
    BY <1>1, <1>t, Domains, Zenon DEF Top
  <2>2. SentAll(s)' = SentAll(s) /\ Noticed(s)' = Noticed(s)
    BY <2>1, <1>n DEF SentAll, Noticed
  <2> QED  BY <2>2, <1>d, <1>o, Zenon
<1>2. CASE Wait(s)
  <2>1. UNCHANGED <<size, scnt, rcnt>> /\ pc[s] = "wait" /\ pc'[s] = "send"
    BY <1>2, <1>t, Domains, Zenon DEF Wait
  <2>2. SentAll(s)' = SentAll(s) /\ Noticed(s)' = Noticed(s) + 1
    BY <2>1, <1>n DEF SentAll, Noticed
  <2> QED  BY <1>2, <2>2, <1>d, <1>o, Zenon
<1>3. CASE Send(s)
  <2>1. /\ UNCHANGED <<size, rcnt>> /\ pc[s] = "send" /\ pc'[s] = "sent"
        /\ scnt'[s] = scnt[s] \/ (scnt[s] < iters[s] /\ scnt'[s] = scnt[s] + 1)
    BY <1>3, <1>t, Domains, Zenon DEF Send, MoreSends
  <2>2. Noticed(s)' = Noticed(s)
    BY <2>1, Zenon DEF Noticed
  <2>3. SentAll(s)' = SentAll(s) \/ (SentAll(s)' = SentAll(s) + 1 /\ scnt[s] < Iters)
    BY <2>1, <1>t, <1>n DEF SentAll, InTurn
  <2> QED  BY <2>1, <2>2, <2>3, <1>d, <1>o, Zenon
<1>4. CASE Sent(s) \/ Poll(s) \/ PollEnds(s)
  <2>1. UNCHANGED <<size, scnt, rcnt>> /\ pc[s] # "wait" /\ pc'[s] # "wait"
    BY <1>4, <1>t, Domains, Zenon DEF Sent, Poll, PollEnds
  <2>2. SentAll(s)' = SentAll(s) /\ Noticed(s)' = Noticed(s)
    BY <2>1, Zenon DEF SentAll, Noticed
  <2> QED  BY <2>2, <1>d, <1>o, Zenon
<1>5. CASE Report(s)
  <2>1. pc[s] = "report" /\ pc'[s] # "wait"
    BY <1>5, <1>t, Domains, Zenon DEF Report
  <2>2. scnt[s] = Iters /\ rcnt[s] = Iters
    BY <2>1, <1>t, Zenon DEF InTurn
  <2>3. \/ size'[s] = size[s] + 1 /\ scnt'[s] = 0 /\ rcnt'[s] = 0
        \/ UNCHANGED <<size, scnt, rcnt>>
    BY <1>5, <1>t, Domains DEF Report, FirstOfSize
  <2>4. SentAll(s)' = SentAll(s) /\ Noticed(s)' = Noticed(s)
    BY <2>1, <2>2, <2>3, <1>n DEF SentAll, Noticed
  <2> QED  BY <2>4, <1>d, <1>o, Zenon
<1>6. CASE Adapter(s)
  <2>1. UNCHANGED <<pc, size, scnt, rcnt>>
    BY <1>6, Zenon DEF Adapter, Start, Place, Complete, loopVars
  <2>2. SentAll(s)' = SentAll(s) /\ Noticed(s)' = Noticed(s)
    BY <2>1, Zenon DEF SentAll, Noticed
  <2> QED  BY <2>2, <1>d, <1>o, Zenon
<1> QED  BY <1>1, <1>2, <1>3, <1>4, <1>5, <1>6, Zenon DEF Loop

LEMMA PPStep == LatWriteInv /\ [Next]_vars => [PP!Next]_(PP!vars)
<1> SUFFICES ASSUME LatWriteInv, [Next]_vars PROVE [PP!Next]_(PP!vars)
  BY Zenon
<1> DEFINE S == [t \in Side |-> SentAll(t)]
           R == [t \in Side |-> Noticed(t)]
<1>1. CASE UNCHANGED vars
  <2>1. Duration' = Duration
    BY <1>1, Zenon DEF vars, userVars, Duration
  <2>2. \A t \in Side : SentAll(t)' = SentAll(t) /\ Noticed(t)' = Noticed(t)
    BY <1>1, Zenon DEF vars, loopVars, SentAll, Noticed
  <2> QED  BY <2>1, <2>2, Zenon DEF PP!vars, Played
<1>2. CASE Duration
  <2>1. Duration'
    BY <1>2, ZenonT(30)
    DEF Next, Loop, Adapter, Finished, Top, Wait, Send, Sent, Poll, PollEnds, Report,
        catch_alarm, Start, Place, Complete, vars, userVars, Duration
  <2> QED  BY <1>2, <2>1, Zenon DEF PP!vars, Played
<1>3. ASSUME ~Duration, NEW s \in Side, Loop(s) \/ Adapter(s) PROVE [PP!Next]_(PP!vars)
  <2>d. Played(S) = S /\ Played(R) = R /\ Played(S)' = S' /\ Played(R)' = R'
    BY <1>3, PlayedStep, Zenon DEF Played
  <2>o. \A t \in Side : t # s => SentAll(t)' = SentAll(t) /\ Noticed(t)' = Noticed(t)
    BY <1>3, PlayedStep, Zenon
  <2>1. CASE SentAll(s)' = SentAll(s) /\ Noticed(s)' = Noticed(s)
    <3>1. S' = S /\ R' = R
      BY <2>o, <2>1, Zenon
    <3> QED  BY <2>d, <3>1, Zenon DEF PP!vars
  <2>2. CASE /\ SentAll(s)' = SentAll(s) + 1 /\ Noticed(s)' = Noticed(s)
             /\ pc[s] = "send" /\ scnt[s] < Iters
    <3>1. S' = [S EXCEPT ![s] = @ + 1] /\ R' = R
      BY <2>o, <2>2, Zenon
    <3>2. rcnt[s] = scnt[s] + Answers(s)
      BY <2>2, Zenon DEF LatWriteInv, Turns, InTurn
    <3>n. /\ scnt[s] \in Nat /\ rcnt[s] \in Nat /\ size[s] \in 1..Sizes
          /\ Iters \in Nat \ {0} /\ Sizes \in Nat
      BY Numbers, Constants, Zenon DEF LatWriteInv, Size
    <3>3. S[s] < Sizes * Iters
      BY <2>2, <3>n, BeforeTheEnd, Zenon DEF SentAll
    <3>4. IF s = SERVER THEN S[s] = R[s] ELSE S[s] < R[s]
      <4>1. s = SERVER \/ s = CLIENT
        BY Sides, Zenon
      <4>2. (size[s] - 1) * Iters \in Int
        BY <3>n
      <4> QED  BY <2>2, <3>2, <3>n, <4>1, <4>2, Sides DEF SentAll, Noticed, Answers
    <3> HIDE DEF S, R
    <3>5. PP!Send(s)
      BY <2>d, <3>1, <3>3, <3>4, Zenon DEF PP!Send, PP!MaySend, S, R
    <3> QED  BY <3>5, Zenon DEF PP!Next
  <2>3. CASE SentAll(s)' = SentAll(s) /\ Noticed(s)' = Noticed(s) + 1 /\ Wait(s)
    <3>1. S' = S /\ R' = [R EXCEPT ![s] = @ + 1]
      BY <2>o, <2>3, Zenon
    <3>2. R[s] < S[Peer(s)]
      <4>1. pc[s] = "wait" /\ Released(s) /\ state[s] # "END"
        BY <1>3, <2>3, Zenon DEF Wait, LatWriteInv, Turns, InTurn
      <4>2. Noticed(s) + 1 <= got[s]
        BY <4>1, ReleasedForReal, Zenon
      <4>3. Peer(s) \in Side /\ Peer(Peer(s)) = s
        BY Sides, Zenon
      <4>4. got[s] = SentAll(Peer(s)) - Pending(Peer(s))
        BY <4>3, Zenon DEF LatWriteInv, Carried
      <4>5. /\ Pending(Peer(s)) \in Nat /\ SentAll(Peer(s)) \in Int /\ Noticed(s) \in Int
        <5>1. /\ scnt[Peer(s)] \in Nat /\ size[Peer(s)] \in Nat /\ Pending(Peer(s)) \in Nat
              /\ rcnt[s] \in Nat /\ size[s] \in Nat /\ Iters \in Nat
          BY <4>3, Numbers, Constants, Zenon DEF LatWriteInv
        <5>2. (size[Peer(s)] - 1) * Iters \in Int /\ (size[s] - 1) * Iters \in Int
          BY <5>1
        <5> QED  BY <5>1, <5>2 DEF SentAll, Noticed
      <4> QED  BY <4>2, <4>3, <4>4, <4>5
    <3>3. PP!Peer(s) = Peer(s)
      BY PeerIsPeer, Zenon
    <3> HIDE DEF S, R
    <3>4. PP!Receive(s)
      BY <2>d, <3>1, <3>2, <3>3, Zenon DEF PP!Receive, S, R
    <3> QED  BY <3>4, Zenon DEF PP!Next
  <2> QED  BY <1>3, <2>1, <2>2, <2>3, PlayedStep, Zenon
<1> QED  BY <1>1, <1>2, <1>3, Zenon DEF Next, Finished, catch_alarm

(* In iterations mode the two sides alternate through all sizes, with      *)
(* nothing between the sizes to synchronise them: for every number of      *)
(* sizes and iterations the WRITE latency test implements PingPong, and so *)
(* has the round trips PingPong promises.                                  *)
THEOREM PlaysPingPong == Spec => ImplementsPingPong
  BY PPInit, PPStep, InvHolds, PTL DEF Spec, ImplementsPingPong, PP!Spec

(* What a side has sent is what it has noticed, or one more for the side   *)
(* that begins and one less for the one that answers.                      *)
LEMMA OwnLead ==
    ASSUME LatWriteInv, ~Duration, NEW s \in Side
    PROVE  /\ SentAll(s) \in Int /\ Noticed(s) \in Int
           /\ SentAll(s) - Noticed(s) \in (0 - Answers(s))..(1 - Answers(s))
           /\ Noticed(s) <= SentAll(Peer(s))
<1>t. TypeOK /\ InTurn(s)
  BY Zenon DEF LatWriteInv, Turns
<1>n. scnt[s] \in Nat /\ rcnt[s] \in Nat /\ size[s] \in Nat \ {0} /\ Iters \in Nat \ {0}
  BY <1>t, Numbers, Constants, Zenon
<1>a. Answers(s) \in 0..1 /\ (s = SERVER => Answers(s) = 0)
  <2>1. SERVER # CLIENT
    BY Sides, Zenon
  <2> QED  BY <2>1 DEF Answers
<1>1. PICK b \in Int : b = (size[s] - 1) * Iters
  <2>1. (size[s] - 1) * Iters \in Int
    BY <1>n
  <2> QED  BY <2>1, Zenon
<1>2. PICK n \in Int : n = (IF pc[s] = "wait" THEN rcnt[s] - 1 ELSE rcnt[s])
  BY <1>n
<1>3. SentAll(s) = b + scnt[s] /\ Noticed(s) = b + n
  BY <1>1, <1>2, Zenon DEF SentAll, Noticed
<1>4. scnt[s] - n \in (0 - Answers(s))..(1 - Answers(s))
  <2>1. CASE pc[s] = "wait"
    <3>1. rcnt[s] = scnt[s] + Answers(s) /\ n = rcnt[s] - 1
      BY <1>t, <1>2, <2>1 DEF InTurn
    <3> QED  BY <1>n, <1>a, <3>1
  <2>2. CASE pc[s] = "send"
    <3>1. rcnt[s] = scnt[s] + Answers(s) /\ n = rcnt[s]
      BY <1>t, <1>2, <2>2 DEF InTurn
    <3> QED  BY <1>n, <1>a, <3>1
  <2>3. CASE pc[s] \in {"report", "done"}
    <3>1. scnt[s] = rcnt[s] /\ n = rcnt[s] /\ Answers(s) \in 0..1
      BY <1>t, <1>a, <1>2, <2>3 DEF InTurn
    <3> QED  BY <1>n, <3>1
  <2>4. CASE pc[s] \in {"top", "sent", "poll"}
    <3>1. \/ rcnt[s] + 1 = scnt[s] + Answers(s)
          \/ s = SERVER /\ scnt[s] = rcnt[s]
      BY <1>t, <2>4 DEF InTurn, SentLast
    <3>2. n = rcnt[s]
      BY <1>2, <2>4
    <3> QED  BY <1>n, <1>a, <3>1, <3>2
  <2> QED  BY <1>t, <2>1, <2>2, <2>3, <2>4 DEF TypeOK
<1>5. Noticed(s) <= SentAll(Peer(s))
  <2>1. Peer(s) \in Side /\ Peer(Peer(s)) = s
    BY Sides, Zenon
  <2>2. state[s] # "END"
    BY <1>t DEF InTurn
  <2>3. Noticed(s) <= got[s]
    BY <2>2, Zenon DEF LatWriteInv, NoticedForReal
  <2>4. got[s] = SentAll(Peer(s)) - Pending(Peer(s))
    BY <2>1, Zenon DEF LatWriteInv, Carried
  <2>5. /\ scnt[Peer(s)] \in Nat /\ size[Peer(s)] \in Nat /\ Pending(Peer(s)) \in Nat /\ Iters \in Nat
    BY <1>t, <2>1, Numbers, Constants, Zenon
  <2>6. SentAll(Peer(s)) \in Int
    BY <2>5 DEF SentAll
  <2> QED  BY <1>3, <1>1, <1>2, <2>3, <2>4, <2>5, <2>6
<1> QED  BY <1>n, <1>3, <1>4, <1>5

(* In iterations mode, between two messages of a side of the WRITE latency *)
(* test lies a whole round trip, so that the difference of its time stamps *)
(* measures one: when it sends a message its peer has noticed all the      *)
(* earlier ones, of every size.                                            *)
THEOREM MeasuresRoundTrips == Spec => []PP!RoundTrip
<1>1. LatWriteInv => PP!RoundTrip
  <2>1. SUFFICES ASSUME LatWriteInv, NEW s \in Side
                 PROVE  Played([t \in Side |-> SentAll(t)])[s]
                          <= Played([t \in Side |-> Noticed(t)])[PP!Peer(s)] + 1
    BY Zenon DEF PP!RoundTrip
  <2>2. PP!Peer(s) = Peer(s) /\ Peer(s) \in Side /\ Peer(Peer(s)) = s
    BY <2>1, PeerIsPeer, Sides, Zenon
  <2>3. CASE Duration
    <3>1. /\ Played([t \in Side |-> SentAll(t)])[s] = 0
          /\ Played([t \in Side |-> Noticed(t)])[PP!Peer(s)] = 0
      BY <2>1, <2>2, <2>3, Zenon DEF Played
    <3>2. 0 <= 0 + 1
      OBVIOUS
    <3> QED  BY <3>1, <3>2, Zenon
  <2>4. CASE ~Duration
    <3>1. PICK a \in Int, b \in Int, c \in Int, d \in Int :
            /\ a = SentAll(s) /\ b = Noticed(s) /\ c = SentAll(Peer(s)) /\ d = Noticed(Peer(s))
            /\ a - b \in (0 - Answers(s))..(1 - Answers(s)) /\ b <= c
            /\ c - d \in (0 - Answers(Peer(s)))..(1 - Answers(Peer(s))) /\ d <= a
      BY <2>1, <2>2, <2>4, OwnLead, Zenon
    <3>2. (Answers(s) = 0 /\ Answers(Peer(s)) = 1) \/ (Answers(s) = 1 /\ Answers(Peer(s)) = 0)
      BY <2>1, Sides, Zenon DEF Answers
    <3>3. a <= d + 1
      BY <3>1, <3>2
    <3>4. /\ Played([t \in Side |-> SentAll(t)])[s] = a
          /\ Played([t \in Side |-> Noticed(t)])[PP!Peer(s)] = d
      BY <2>1, <2>2, <2>4, <3>1, Zenon DEF Played
    <3> QED  BY <3>3, <3>4, Zenon
  <2> QED  BY <2>3, <2>4, Zenon
<1> QED  BY <1>1, InvHolds, PTL
=============================================================================
