-------------------------- MODULE BwDurationProofs --------------------------
(***************************************************************************)
(* Proofs about the duration mode, for every set of command lines and      *)
(* every number of sends: the sample is what the adapters finished between *)
(* the time stamps, up to one queue, and no alarm goes off after END.      *)
(***************************************************************************)
EXTENDS BwDuration, ModFacts, TLAPS

(* What force_dependecies leaves in user_param. *)
LEMMA UpFacts ==
    ASSUME up \in Settled
    PROVE  /\ up.duration \in Nat /\ up.margin \in Nat /\ up.duration > 2 * up.margin
           /\ up.tx_depth \in Nat \ {0} /\ up.rx_depth \in Nat \ {0} /\ up.cq_mod \in Nat \ {0}
<1>1. PICK r \in Requests : up = DefaultMargin(r) /\ LongEnough(up)
  BY Zenon DEF Settled
<1>2. r \in [duration : Nat \ {0}, margin : Nat \cup {DEF_INIT_MARGIN},
             tx_depth : Nat \ {0}, rx_depth : Nat \ {0}, cq_mod : Nat \ {0}]
  BY DurationAssumption, Zenon
<1>3. r.duration \div 4 \in Nat
  BY <1>2
<1>4. up \in [duration : Nat \ {0}, margin : Nat,
              tx_depth : Nat \ {0}, rx_depth : Nat \ {0}, cq_mod : Nat \ {0}]
  BY <1>1, <1>2, <1>3, Zenon DEF DefaultMargin
<1> QED  BY <1>1, <1>4, Zenon DEF LongEnough

LEMMA TypeInit == Init => TypeOK
<1> SUFFICES ASSUME Init PROVE TypeOK
  BY Zenon
<1>1. up.rx_depth \in Nat
  BY UpFacts, Zenon DEF Init
<1> QED  BY <1>1 DEF Init, TypeOK, State

(* What the handler and the start of the timer do to the timer's variables,
   apart from the sample itself. *)
LEMMA TimerTypes ==
    ASSUME TypeOK, NEW s \in Side, catch_alarm(s) \/ StartTimer(s)
    PROVE  /\ state' \in [Side -> State] /\ alarm' \in [Side -> {OFF, ON}]
           /\ stray' \subseteq Side /\ wire' \in [Side -> Int]
<1>1. /\ state \in [Side -> State] /\ alarm \in [Side -> {OFF, ON}] /\ stray \subseteq Side
      /\ wire \in [Side -> Int] /\ Finished(s) \in Int
  BY DEF TypeOK, Finished
<1>2. \A n : Alarm(n) \in {OFF, ON}
  BY Zenon DEF Alarm
<1>3. CASE ToSample(s)
  BY <1>1, <1>2, <1>3 DEF ToSample, State
<1>4. CASE ToStop(s)
  BY <1>1, <1>2, <1>4 DEF ToStop, State
<1>5. CASE ToEnd(s)
  BY <1>1, <1>5, Zenon DEF ToEnd, State
<1>6. CASE Unknown(s)
  BY <1>1, <1>6, Zenon DEF Unknown
<1>7. CASE /\ state' = [state EXCEPT ![s] = "START"]
           /\ alarm' = [alarm EXCEPT ![s] = Alarm(up.margin)]
           /\ UNCHANGED <<stray, wire>>
  BY <1>1, <1>2, <1>7, Zenon DEF State
<1> QED  BY <1>3, <1>4, <1>5, <1>6, <1>7, Zenon DEF catch_alarm, StartTimer

LEMMA TypeNext == TypeOK /\ [Next]_vars => TypeOK'
<1> SUFFICES ASSUME TypeOK, [Next]_vars PROVE TypeOK'
  BY Zenon
<1>u. up.cq_mod \in Nat \ {0}
  BY UpFacts, Zenon DEF TypeOK
<1>s. "client" \in Side /\ "server" \in Side
  BY Zenon DEF Side
<1>1. CASE ClientStart
  <2>1. /\ state' \in [Side -> State] /\ alarm' \in [Side -> {OFF, ON}]
        /\ stray' \subseteq Side /\ wire' \in [Side -> Int]
    BY <1>1, <1>s, TimerTypes, Zenon DEF ClientStart
  <2> QED  BY <1>1, <2>1, Zenon DEF ClientStart, TypeOK, serverVars, wireVars
<1>2. CASE ClientCheck \/ ClientFull \/ ClientTop
  BY <1>2, Zenon DEF ClientCheck, ClientFull, ClientTop, TypeOK, serverVars, wireVars, timerVars
<1>3. CASE ClientPost
  BY <1>3 DEF ClientPost, TypeOK, serverVars, timerVars, FlagAtPost
<1>4. CASE ClientPoll
  <2>1. iters' \in [Side -> Nat]
    BY <1>4, <1>s, <1>u DEF ClientPoll, TypeOK
  <2>2. scq' \in Nat /\ ccnt' \in Nat
    BY <1>4, <1>u DEF ClientPoll, TypeOK
  <2> QED  BY <1>4, <2>1, <2>2, Zenon DEF ClientPoll, TypeOK, serverVars, timerVars
<1>5. CASE ServerPoll
  <2>1. /\ state' \in [Side -> State] /\ alarm' \in [Side -> {OFF, ON}]
        /\ stray' \subseteq Side /\ wire' \in [Side -> Int]
    <3>1. CASE firstRx = ON
      BY <1>5, <1>s, <3>1, TimerTypes, Zenon DEF ServerPoll
    <3>2. CASE firstRx # ON
      BY <1>5, <3>2, Zenon DEF ServerPoll, timerVars, TypeOK
    <3> QED  BY <3>1, <3>2, Zenon
  <2>2. batch' \in Nat
    BY <1>5 DEF ServerPoll, TypeOK
  <2> QED  BY <1>5, <2>1, <2>2 DEF ServerPoll, TypeOK, clientVars, wireVars
<1>6. CASE ServerCount
  <2>1. iters' \in [Side -> Nat]
    BY <1>6, <1>s DEF ServerCount, TypeOK
  <2>2. batch' \in Nat /\ rcnt' \in Nat /\ room' \in Nat
    BY <1>6 DEF ServerCount, TypeOK
  <2> QED  BY <1>6, <2>1, <2>2, Zenon DEF ServerCount, TypeOK, clientVars, wireVars, timerVars
<1>7. CASE ServerNext \/ ServerEnd
  BY <1>7, Zenon DEF ServerNext, ServerEnd, TypeOK, clientVars, wireVars, timerVars
<1>8. CASE UNCHANGED vars
  BY <1>8, Zenon DEF vars, TypeOK, clientVars, serverVars, wireVars, timerVars
<1>9. CASE Deliver
  BY <1>9 DEF Deliver, TypeOK, clientVars, timerVars
<1>10. CASE Ack
  BY <1>10 DEF Ack, TypeOK, clientVars, serverVars, timerVars
<1>11. ASSUME NEW s \in Side, Signal(s) PROVE TypeOK'
  <2>1. /\ state' \in [Side -> State] /\ alarm' \in [Side -> {OFF, ON}]
        /\ stray' \subseteq Side /\ wire' \in [Side -> Int]
    BY <1>11, TimerTypes, Zenon DEF Signal
  <2> QED  BY <1>11, <2>1, Zenon DEF Signal, TypeOK, clientVars, serverVars, wireVars
<1> QED
  BY <1>1, <1>2, <1>3, <1>4, <1>5, <1>6, <1>7, <1>8, <1>9, <1>10, <1>11, Zenon
     DEF Next, Client, Server, ServerIdle, Ended

-----------------------------------------------------------------------------
(* Groups of sends with one completion.                                    *)

LEMMA Numbers ==
    ASSUME TypeOK
    PROVE  /\ scnt \in Nat /\ ccnt \in Nat /\ acked \in Nat /\ delivered \in Nat /\ scq \in Nat
           /\ rcnt \in Nat /\ batch \in Nat /\ room \in Nat
           /\ up.cq_mod \in Nat \ {0} /\ up.tx_depth \in Nat /\ up.rx_depth \in Nat
           /\ up \in Settled
  BY UpFacts, Zenon DEF TypeOK

LEMMA Distribute ==
    ASSUME NEW M \in Int, NEW k \in Int
    PROVE  M * k \in Int /\ M * (k - 1) = M * k - M /\ M * (k + 1) = M * k + M
  OBVIOUS

LEMMA GroupsInit == Init => Groups /\ InOrder
<1> SUFFICES ASSUME Init PROVE Groups /\ InOrder
  BY Zenon
<1>1. up.cq_mod \in Nat \ {0} /\ up.tx_depth \in Nat /\ up.rx_depth \in Nat
  BY UpFacts, Zenon DEF Init
<1>2. 0 % up.cq_mod = 0
  BY <1>1
<1>3. 1 % up.cq_mod = 0 <=> up.cq_mod = 1
  <2>1. up.cq_mod > 1 => (1 + 0 * up.cq_mod) % up.cq_mod = 1
    BY <1>1, ModShift
  <2>2. up.cq_mod = 1 => 1 % up.cq_mod = 0
    OBVIOUS
  <2> QED  BY <1>1, <2>1, <2>2
<1>4. FlagAtPost = ON <=> (scnt + 1) % up.cq_mod = 0
  BY <1>1, <1>3 DEF Init, FlagAtPost, ON, OFF
<1>5. signals = {k \in acked..(scnt - 1) : (k + 1) % up.cq_mod = 0}
  BY DEF Init
<1>6. ccnt + up.cq_mod * scq = acked - (acked % up.cq_mod)
  BY <1>1, <1>2 DEF Init
<1>7. scnt <= up.tx_depth + ccnt
  BY <1>1 DEF Init
<1>8. InOrder
  BY <1>1 DEF Init, InOrder
<1> QED  BY <1>4, <1>5, <1>6, <1>7, <1>8, Zenon DEF Groups

LEMMA PostKeepsGroups == ASSUME TypeOK, InOrder, Groups, ClientPost PROVE Groups'
<1>t. /\ scnt \in Nat /\ ccnt \in Nat /\ acked \in Nat /\ delivered \in Nat
      /\ up.cq_mod \in Nat \ {0} /\ up.tx_depth \in Nat
  BY Numbers, Zenon
<1>1. /\ scnt' = scnt + 1 /\ UNCHANGED <<up, ccnt, acked, scq>>
      /\ signals' = IF FlagAtPost = ON THEN signals \cup {scnt} ELSE signals
      /\ wr_signaled' = IF (scnt + 1) % up.cq_mod = up.cq_mod - 1 THEN ON ELSE FlagAtPost
      /\ scnt + 1 <= up.tx_depth + ccnt
  BY Zenon DEF ClientPost, Window
<1>2. (FlagAtPost = ON)' <=> (scnt' + 1) % up'.cq_mod = 0
  <2>1. FlagAtPost = ON <=> (scnt + 1) % up.cq_mod = 0
    BY Zenon DEF Groups
  <2>2. FlagAtPost' = IF (scnt + 1) % up.cq_mod = 0 /\ up.cq_mod > 1 THEN OFF ELSE wr_signaled'
    BY <1>1, Zenon DEF FlagAtPost
  <2>3. FlagAtPost' = ON <=> (scnt + 1 + 1) % up.cq_mod = 0
    <3>1. PICK f, g, w : f = FlagAtPost /\ g = FlagAtPost' /\ w = wr_signaled'
      BY Zenon
    <3>2. PICK M \in Nat \ {0}, n \in Nat : M = up.cq_mod /\ n = scnt
      BY <1>t, Zenon
    <3>3. /\ f = ON <=> (n + 1) % M = 0
          /\ w = IF (n + 1) % M = M - 1 THEN ON ELSE f
          /\ g = IF (n + 1) % M = 0 /\ M > 1 THEN OFF ELSE w
      BY <1>1, <2>1, <2>2, <3>1, <3>2, Zenon
    <3>4. n + 1 \in Nat
      OBVIOUS
    <3>5. PICK x \in Nat, y \in Int : x < M /\ x = (n + 1) % M /\ y = (n + 1 + 1) % M
      BY <3>4
    <3>6. y = IF x = M - 1 THEN 0 ELSE x + 1
      BY <3>4, <3>5, ModSucc, Zenon
    <3>7. /\ f = ON <=> x = 0
          /\ w = IF x = M - 1 THEN ON ELSE f
          /\ g = IF x = 0 /\ M > 1 THEN OFF ELSE w
      BY <3>3, <3>5, Zenon
    <3>8. g = ON <=> y = 0
      BY <3>5, <3>6, <3>7 DEF ON, OFF
    <3> QED  BY <3>1, <3>2, <3>5, <3>8, Zenon
  <2> QED  BY <1>1, <2>3, Zenon
<1>3. signals' = {k \in acked..scnt : (k + 1) % up.cq_mod = 0}
  <2>1. acked <= scnt
    BY <1>t DEF InOrder
  <2>2. acked..scnt = (acked..(scnt - 1)) \cup {scnt}
    BY <1>t, <2>1
  <2>3. /\ FlagAtPost = ON <=> (scnt + 1) % up.cq_mod = 0
        /\ signals = {k \in acked..(scnt - 1) : (k + 1) % up.cq_mod = 0}
    BY Zenon DEF Groups
  <2> QED  BY <1>1, <2>2, <2>3, Zenon
<1>4. scnt' - 1 = scnt
  BY <1>t, <1>1
<1> QED  BY <1>1, <1>2, <1>3, <1>4, Zenon DEF Groups

LEMMA PollKeepsGroups == ASSUME TypeOK, Groups, ClientPoll PROVE Groups'
<1>t. /\ scnt \in Nat /\ ccnt \in Nat /\ scq \in Nat /\ up.cq_mod \in Nat \ {0}
      /\ up.tx_depth \in Nat
  BY Numbers, Zenon
<1>1. /\ scq' = scq - 1 /\ ccnt' = ccnt + up.cq_mod
      /\ UNCHANGED <<up, scnt, wr_signaled, acked, signals>>
  BY Zenon DEF ClientPoll
<1>2. (ccnt + up.cq_mod) + up.cq_mod * (scq - 1) = ccnt + up.cq_mod * scq
  <2>1. up.cq_mod * (scq - 1) = up.cq_mod * scq - up.cq_mod /\ up.cq_mod * scq \in Int
    BY <1>t, Distribute
  <2>2. PICK P \in Int, R \in Int : P = up.cq_mod * scq /\ R = up.cq_mod * (scq - 1)
    BY <1>t, <2>1
  <2>3. R = P - up.cq_mod
    BY <2>1, <2>2, Zenon
  <2>4. (ccnt + up.cq_mod) + R = ccnt + P
    BY <1>t, <2>3
  <2> QED  BY <2>2, <2>4, Zenon
<1>3. scnt <= up.tx_depth + (ccnt + up.cq_mod)
  BY <1>t DEF Groups
<1> QED  BY <1>1, <1>2, <1>3, Zenon DEF Groups, FlagAtPost

LEMMA AckKeepsGroups == ASSUME TypeOK, InOrder, Groups, Ack PROVE Groups'
<1>t. /\ scnt \in Nat /\ ccnt \in Nat /\ acked \in Nat /\ delivered \in Nat /\ scq \in Nat
      /\ up.cq_mod \in Nat \ {0} /\ acked < scnt
  BY Numbers DEF Ack, InOrder
<1>1. /\ acked' = acked + 1 /\ scq' = IF acked \in signals THEN scq + 1 ELSE scq
      /\ signals' = signals \ {acked} /\ UNCHANGED <<up, scnt, ccnt, wr_signaled>>
  BY Zenon DEF Ack, clientVars
<1>2. acked \in signals <=> (acked + 1) % up.cq_mod = 0
  BY <1>t DEF Groups
<1>3. signals' = {k \in (acked + 1)..(scnt - 1) : (k + 1) % up.cq_mod = 0}
  <2>1. \A k : k \in (acked + 1)..(scnt - 1) <=> k \in acked..(scnt - 1) /\ k # acked
    BY <1>t
  <2>2. signals = {k \in acked..(scnt - 1) : (k + 1) % up.cq_mod = 0}
    BY Zenon DEF Groups
  <2> QED  BY <1>1, <2>1, <2>2, Zenon
<1>4. ccnt + up.cq_mod * scq' = (acked + 1) - ((acked + 1) % up.cq_mod)
  <2>1. PICK M \in Nat \ {0}, a \in Nat, P \in Int, x \in Nat, y \in Int :
            /\ x < M /\ M = up.cq_mod /\ a = acked /\ P = up.cq_mod * scq
            /\ x = acked % up.cq_mod /\ y = (acked + 1) % up.cq_mod
    <3>1. up.cq_mod * scq \in Int
      BY <1>t, Distribute
    <3>2. acked % up.cq_mod \in 0..(up.cq_mod - 1)
      <4>1. acked \in Int
        BY <1>t
      <4> QED  BY <1>t, <4>1, DivMod, Zenon
    <3>3. (acked + 1) % up.cq_mod \in Int
      BY <1>t
    <3>4. acked % up.cq_mod \in Nat /\ acked % up.cq_mod < up.cq_mod
      BY <1>t, <3>2
    <3> QED  BY <1>t, <3>1, <3>3, <3>4, Zenon
  <2>2. y = IF x = M - 1 THEN 0 ELSE x + 1
    BY <2>1, ModSucc, Zenon
  <2>3. ccnt + P = a - x
    BY <2>1, Zenon DEF Groups
  <2>4. up.cq_mod * scq' = IF y = 0 THEN P + M ELSE P
    <3>1. up.cq_mod * (scq + 1) = P + M
      <4>1. up.cq_mod \in Int /\ scq \in Int
        BY <1>t
      <4>2. up.cq_mod * (scq + 1) = up.cq_mod * scq + up.cq_mod
        BY <4>1, Distribute, Zenon
      <4> QED  BY <2>1, <4>2, Zenon
    <3> QED  BY <1>1, <1>2, <2>1, <3>1, Zenon
  <2>5. PICK Q \in Int : Q = up.cq_mod * scq' /\ Q = IF y = 0 THEN P + M ELSE P
    BY <2>4
  <2>6. ccnt + Q = (a + 1) - y
    BY <1>t, <2>2, <2>3, <2>5
  <2> QED  BY <2>1, <2>5, <2>6, Zenon
<1> QED  BY <1>1, <1>3, <1>4, Zenon DEF Groups, FlagAtPost

LEMMA GroupsNext == ASSUME TypeOK, InOrder, Groups, [Next]_vars PROVE Groups'
<1>1. ASSUME UNCHANGED <<up, scnt, ccnt, wr_signaled, acked, signals, scq>> PROVE Groups'
  BY <1>1, Zenon DEF Groups, FlagAtPost
<1>2. CASE ClientPost \/ ClientPoll \/ Ack
  BY <1>2, PostKeepsGroups, PollKeepsGroups, AckKeepsGroups, Zenon
<1>3. CASE ClientStart \/ ClientCheck \/ ClientFull \/ ClientTop
  BY <1>1, <1>3, Zenon DEF ClientStart, ClientCheck, ClientFull, ClientTop, wireVars
<1>4. CASE Server \/ Deliver \/ UNCHANGED vars \/ \E s \in Side : Signal(s)
  BY <1>1, <1>4, Zenon DEF Server, ServerPoll, ServerCount, ServerNext, ServerEnd, ServerIdle, Deliver,
     Signal, vars, clientVars, wireVars
<1> QED  BY <1>2, <1>3, <1>4, Zenon DEF Next, Client, Ended

LEMMA OrderNext == ASSUME TypeOK, InOrder, [Next]_vars PROVE InOrder'
<1>t. /\ scnt \in Nat /\ acked \in Nat /\ delivered \in Nat /\ rcnt \in Nat /\ batch \in Nat
      /\ room \in Nat /\ up.rx_depth \in Nat
  BY Numbers, Zenon
<1>1. ASSUME UNCHANGED <<up, scnt, acked, delivered, rcnt, batch, room>> PROVE InOrder'
  BY <1>1, Zenon DEF InOrder
<1>2. CASE ClientPost \/ Ack \/ Deliver
  BY <1>2, <1>t DEF ClientPost, Ack, Deliver, InOrder, serverVars, clientVars
<1>3. CASE ServerPoll
  <2>1. /\ batch' \in 1..(delivered - rcnt)
        /\ UNCHANGED <<up, scnt, acked, delivered, rcnt, room>>
    BY <1>3, Zenon DEF ServerPoll, clientVars, wireVars
  <2>2. rcnt + batch' <= delivered
    <3>1. PICK b \in Int : b = batch' /\ 1 <= b /\ b <= delivered - rcnt
      BY <1>t, <2>1
    <3>2. b <= delivered - rcnt /\ delivered \in Int /\ rcnt \in Int
      BY <1>t, <3>1
    <3>3. rcnt + b <= delivered
      BY <3>2
    <3> QED  BY <3>1, <3>3, Zenon
  <2> QED  BY <2>1, <2>2, Zenon DEF InOrder
<1>4. CASE ServerCount
  BY <1>4, <1>t DEF ServerCount, InOrder, clientVars, wireVars
<1>5. CASE ClientStart \/ ClientCheck \/ ClientFull \/ ClientTop \/ ClientPoll
  BY <1>1, <1>5, Zenon DEF ClientStart, ClientCheck, ClientFull, ClientTop, ClientPoll, wireVars,
     serverVars
<1>6. CASE ServerNext \/ ServerEnd \/ UNCHANGED vars \/ \E s \in Side : Signal(s)
  BY <1>1, <1>6, Zenon DEF ServerNext, ServerEnd, Signal, vars, clientVars, serverVars, wireVars
<1> QED  BY <1>2, <1>3, <1>4, <1>5, <1>6, Zenon DEF Next, Client, Server, ServerIdle, Ended

-----------------------------------------------------------------------------
(* The sample.                                                             *)

LEMMA Sides == "client" \in Side /\ "server" \in Side /\ \A s \in Side : s # "client" => s = "server"
  BY Zenon DEF Side

(* What a side's adapter has finished and the side has not polled is no more
   than a queue. *)
LEMMA Behind ==
    ASSUME TypeOK, Groups, InOrder, NEW s \in Side
    PROVE  /\ Finished(s) - Polled(s) \in 0..Slack(s)
           /\ Finished(s) \in Nat /\ Polled(s) \in Nat /\ Slack(s) \in Nat
<1>t. /\ scnt \in Nat /\ ccnt \in Nat /\ acked \in Nat /\ delivered \in Nat /\ scq \in Nat
      /\ rcnt \in Nat /\ batch \in Nat /\ room \in Nat
      /\ up.cq_mod \in Nat \ {0} /\ up.tx_depth \in Nat /\ up.rx_depth \in Nat
  BY Numbers, Zenon
<1>1. CASE s = "client"
  <2>1. PICK P \in Nat, x \in Nat : P = up.cq_mod * scq /\ x = acked % up.cq_mod
    <3>1. up.cq_mod * scq \in Nat
      BY <1>t
    <3>2. acked % up.cq_mod \in Nat
      BY <1>t
    <3> QED  BY <3>1, <3>2, Zenon
  <2>2. ccnt + P = acked - x /\ scnt <= up.tx_depth + ccnt
    BY <2>1, Zenon DEF Groups
  <2>3. acked <= delivered /\ delivered <= scnt
    BY Zenon DEF InOrder
  <2>4. acked - ccnt \in 0..up.tx_depth
    BY <1>t, <2>2, <2>3
  <2> QED  BY <1>t, <1>1, <2>4, Zenon DEF Finished, Polled, Slack
<1>2. CASE s # "client"
  <2>1. rcnt + batch <= delivered /\ room + (delivered - rcnt) = up.rx_depth
    BY Zenon DEF InOrder
  <2>2. delivered - rcnt \in 0..up.rx_depth
    BY <1>t, <2>1
  <2> QED  BY <1>t, <1>2, <2>2, Zenon DEF Finished, Polled, Slack
<1> QED  BY <1>1, <1>2, Zenon

(* A step that leaves the timer and the counts of a side alone. *)
LEMMA SamplingFrame ==
    ASSUME NEW s \in Side, Sampling(s), up' = up, state'[s] = state[s], alarm'[s] = alarm[s],
           iters'[s] = iters[s], wire'[s] = wire[s], Polled(s)' = Polled(s)
    PROVE  Sampling(s)'
  BY Zenon DEF Sampling, Slack

(* The time stamps of the other side are another matter. *)
LEMMA TimerFrame ==
    ASSUME TypeOK, NEW s \in Side, NEW r \in Side, r # s, catch_alarm(s) \/ StartTimer(s)
    PROVE  state'[r] = state[r] /\ alarm'[r] = alarm[r] /\ wire'[r] = wire[r]
<1>1. state \in [Side -> State] /\ alarm \in [Side -> {OFF, ON}] /\ wire \in [Side -> Int]
  BY Zenon DEF TypeOK
<1>2. CASE ToSample(s) \/ ToStop(s)
  BY <1>1, <1>2, Zenon DEF ToSample, ToStop
<1>3. CASE ToEnd(s) \/ Unknown(s)
  BY <1>1, <1>3, Zenon DEF ToEnd, Unknown
<1>4. CASE /\ state' = [state EXCEPT ![s] = "START"]
           /\ alarm' = [alarm EXCEPT ![s] = Alarm(up.margin)]
           /\ UNCHANGED <<stray, wire>>
  BY <1>1, <1>4, Zenon
<1> QED  BY <1>2, <1>3, <1>4, Zenon DEF catch_alarm, StartTimer

(* The first time stamp: nothing is counted yet, and the queue holds what is
   finished and not polled. *)
LEMMA SampleBegins ==
    ASSUME TypeOK, Groups, InOrder, NEW s \in Side, ToSample(s), iters'[s] = 0, up' = up,
           Polled(s)' = Polled(s)
    PROVE  Sampling(s)'
<1>1. /\ Finished(s) - Polled(s) \in 0..Slack(s)
      /\ Finished(s) \in Nat /\ Polled(s) \in Nat /\ Slack(s) \in Nat
  BY Behind, Zenon
<1>2. state'[s] = "SAMPLE" /\ wire'[s] = -Finished(s)
  BY Zenon DEF ToSample, TypeOK
<1>3. (-wire'[s]) - (Polled(s) - iters'[s]) \in 0..Slack(s)
  BY <1>1, <1>2
<1>4. Slack(s)' = Slack(s)
  BY Zenon DEF Slack
<1> QED  BY <1>2, <1>3, <1>4, Zenon DEF Sampling

(* The second one. *)
LEMMA SampleEnds ==
    ASSUME TypeOK, Groups, InOrder, NEW s \in Side, Sampling(s), state[s] = "SAMPLE", ToStop(s),
           iters' = iters, up' = up
    PROVE  Sampling(s)'
<1>1. /\ Finished(s) - Polled(s) \in 0..Slack(s)
      /\ Finished(s) \in Nat /\ Polled(s) \in Nat /\ Slack(s) \in Nat
  BY Behind, Zenon
<1>2. /\ wire'[s] = wire[s] + Finished(s) /\ wire[s] \in Int /\ iters[s] \in Nat
      /\ state'[s] = IF up.margin > 0 THEN "STOP_SAMPLE" ELSE "END"
      /\ alarm'[s] = Alarm(up.margin)
  BY Zenon DEF ToStop, TypeOK
<1>3. (-wire[s]) - (Polled(s) - iters[s]) \in 0..Slack(s)
  BY Zenon DEF Sampling
<1>4. iters[s] - wire'[s] \in (-Slack(s))..Slack(s)
  <2>1. PICK f \in Int, c \in Int, l \in Int, w \in Int, i \in Int :
            f = Finished(s) /\ c = Polled(s) /\ l = Slack(s) /\ w = wire[s] /\ i = iters[s]
    BY <1>1, <1>2
  <2>2. f - c \in 0..l /\ (-w) - (c - i) \in 0..l
    BY <1>1, <1>3, <2>1, Zenon
  <2>3. i - (w + f) \in (-l)..l
    BY <2>2
  <2> QED  BY <1>2, <2>1, <2>3, Zenon
<1>5. alarm'[s] = ON => state'[s] # "END"
  BY <1>2 DEF Alarm, ON, OFF
<1>6. Slack(s)' = Slack(s)
  BY Zenon DEF Slack
<1> QED  BY <1>2, <1>4, <1>5, <1>6, Zenon DEF Sampling

LEMMA StartKeepsSampling ==
    ASSUME TypeOK, Groups, InOrder, NEW s \in Side, StartTimer(s), iters'[s] = 0, up' = up,
           Polled(s)' = Polled(s)
    PROVE  Sampling(s)' /\ stray' = stray
<1>1. CASE up.margin > 0
  <2>1. state'[s] = "START" /\ stray' = stray
    BY <1>1, Zenon DEF StartTimer, TypeOK
  <2> QED  BY <2>1, Zenon DEF Sampling
<1>2. CASE ~(up.margin > 0)
  <2>1. ToSample(s)
    BY <1>2, Zenon DEF StartTimer
  <2> QED  BY <2>1, SampleBegins, Zenon DEF ToSample
<1> QED  BY <1>1, <1>2, Zenon

LEMMA SignalKeepsSampling ==
    ASSUME TypeOK, Groups, InOrder, NEW s \in Side, Sampling(s), Signal(s)
    PROVE  Sampling(s)' /\ stray' = stray
<1>1. /\ UNCHANGED <<up, iters, ccnt, rcnt>> /\ alarm[s] = ON /\ catch_alarm(s)
  BY Zenon DEF Signal, clientVars, serverVars
<1>2. Polled(s)' = Polled(s)
  BY <1>1, Zenon DEF Polled
<1>3. CASE state[s] = "START" /\ ToSample(s)
  <2>1. iters'[s] = 0
    BY <1>1, <1>3, Zenon DEF Sampling
  <2> QED  BY <1>1, <1>2, <1>3, <2>1, SampleBegins, Zenon DEF ToSample
<1>4. CASE state[s] = "SAMPLE" /\ ToStop(s)
  BY <1>1, <1>4, SampleEnds, Zenon DEF ToStop
<1>5. CASE state[s] = "STOP_SAMPLE" /\ ToEnd(s)
  <2>1. state'[s] = "END" /\ alarm'[s] = OFF /\ wire' = wire /\ stray' = stray
    BY <1>5, Zenon DEF ToEnd, TypeOK
  <2>2. Slack(s)' = Slack(s)
    BY <1>1, Zenon DEF Slack
  <2>3. iters[s] - wire[s] \in (-Slack(s))..Slack(s)
    BY <1>5, Zenon DEF Sampling
  <2> QED  BY <1>1, <2>1, <2>2, <2>3 DEF Sampling, ON, OFF
<1> QED  BY <1>1, <1>3, <1>4, <1>5, Zenon DEF catch_alarm, Sampling

(* A polled completion is counted in the sample as it is in the loop. *)
LEMMA CountKeepsSampling ==
    ASSUME TypeOK, NEW s \in Side, Sampling(s), NEW d \in Nat,
           Polled(s) \in Nat, Polled(s)' = Polled(s) + d, up' = up,
           UNCHANGED <<state, alarm, wire>>,
           iters' = IF Sample(s) THEN [iters EXCEPT ![s] = @ + d] ELSE iters
    PROVE  Sampling(s)'
<1>1. iters \in [Side -> Nat] /\ wire \in [Side -> Int]
  BY Zenon DEF TypeOK
<1>2. Slack(s)' = Slack(s)
  BY Zenon DEF Slack
<1>3. CASE state[s] # "SAMPLE"
  <2>1. iters' = iters
    BY <1>3, Zenon DEF Sample
  <2> QED  BY <1>2, <1>3, <2>1, Zenon DEF Sampling
<1>4. CASE state[s] = "SAMPLE"
  <2>1. iters'[s] = iters[s] + d
    BY <1>1, <1>4, Zenon DEF Sample
  <2>2. PICK i \in Int, w \in Int, c \in Int : i = iters[s] /\ w = wire[s] /\ c = Polled(s)
    BY <1>1
  <2>3. (-w) - (c - i) = (-w) - ((c + d) - (i + d))
    BY <2>2
  <2>4. (-wire'[s]) - (Polled(s)' - iters'[s]) = (-wire[s]) - (Polled(s) - iters[s])
    BY <2>1, <2>2, <2>3, Zenon
  <2>5. (-wire[s]) - (Polled(s) - iters[s]) \in 0..Slack(s) /\ (alarm[s] = ON => state[s] # "END")
    BY <1>4, Zenon DEF Sampling
  <2> QED  BY <1>2, <1>4, <2>4, <2>5, Zenon DEF Sampling
<1> QED  BY <1>3, <1>4, Zenon

LEMMA SamplingNext ==
    ASSUME TypeOK, Groups, InOrder, NoStrayAlarm, \A s \in Side : Sampling(s), [Next]_vars
    PROVE  NoStrayAlarm' /\ \A s \in Side : Sampling(s)'
<1>n. ccnt \in Nat /\ rcnt \in Nat /\ up.cq_mod \in Nat
  BY Numbers, Zenon
<1>i. iters \in [Side -> Nat]
  BY Zenon DEF TypeOK
<1>f. ASSUME UNCHANGED <<up, timerVars, iters, ccnt, rcnt>>
      PROVE  NoStrayAlarm' /\ \A s \in Side : Sampling(s)'
  <2>1. ASSUME NEW s \in Side PROVE Sampling(s)'
    BY <1>f, SamplingFrame, Zenon DEF timerVars, Polled
  <2> QED  BY <1>f, <2>1, Zenon DEF NoStrayAlarm, timerVars
<1>1. CASE ClientStart
  <2>1. /\ StartTimer("client") /\ UNCHANGED <<up, ccnt, rcnt>>
        /\ iters' = [iters EXCEPT !["client"] = 0]
    BY <1>1, Zenon DEF ClientStart, serverVars
  <2>2. iters'["client"] = 0 /\ iters'["server"] = iters["server"]
    BY <1>i, <2>1, Sides, Zenon
  <2>3. Polled("client")' = Polled("client") /\ Polled("server")' = Polled("server")
    BY <2>1, Zenon DEF Polled
  <2>4. Sampling("client")' /\ stray' = stray
    BY <2>1, <2>2, <2>3, Sides, StartKeepsSampling, Zenon
  <2>5. /\ state'["server"] = state["server"] /\ alarm'["server"] = alarm["server"]
        /\ wire'["server"] = wire["server"]
    BY <2>1, Sides, TimerFrame, Zenon
  <2>6. Sampling("server")'
    BY <2>1, <2>2, <2>3, <2>5, Sides, SamplingFrame, Zenon
  <2> QED  BY <2>4, <2>6, Sides, Zenon DEF NoStrayAlarm
<1>2. CASE ServerPoll /\ firstRx = ON
  <2>1. /\ StartTimer("server") /\ UNCHANGED <<up, ccnt, rcnt>>
        /\ iters' = [iters EXCEPT !["server"] = 0]
    BY <1>2, Zenon DEF ServerPoll, clientVars
  <2>2. iters'["server"] = 0 /\ iters'["client"] = iters["client"]
    BY <1>i, <2>1, Sides, Zenon
  <2>3. Polled("client")' = Polled("client") /\ Polled("server")' = Polled("server")
    BY <2>1, Zenon DEF Polled
  <2>4. Sampling("server")' /\ stray' = stray
    BY <2>1, <2>2, <2>3, Sides, StartKeepsSampling, Zenon
  <2>5. /\ state'["client"] = state["client"] /\ alarm'["client"] = alarm["client"]
        /\ wire'["client"] = wire["client"]
    BY <2>1, Sides, TimerFrame, Zenon
  <2>6. Sampling("client")'
    BY <2>1, <2>2, <2>3, <2>5, Sides, SamplingFrame, Zenon
  <2> QED  BY <2>4, <2>6, Sides, Zenon DEF NoStrayAlarm
<1>3. CASE ClientPoll
  <2>1. /\ ccnt' = ccnt + up.cq_mod /\ UNCHANGED <<up, rcnt, state, alarm, wire, stray>>
        /\ iters' = IF Sample("client")
                    THEN [iters EXCEPT !["client"] = @ + up.cq_mod] ELSE iters
    BY <1>3, Zenon DEF ClientPoll, serverVars, timerVars
  <2>2. Polled("client")' = Polled("client") + up.cq_mod /\ Polled("client") \in Nat
    BY <1>n, <2>1, Zenon DEF Polled
  <2>3. Sampling("client")'
    BY <1>n, <2>1, <2>2, Sides, CountKeepsSampling, Zenon
  <2>4. iters'["server"] = iters["server"] /\ Polled("server")' = Polled("server")
    BY <1>i, <2>1, Sides, Zenon DEF Polled
  <2>5. Sampling("server")'
    BY <2>1, <2>4, Sides, SamplingFrame, Zenon
  <2> QED  BY <2>1, <2>3, <2>5, Sides, Zenon DEF NoStrayAlarm
<1>4. CASE ServerCount
  <2>1. /\ rcnt' = rcnt + 1 /\ UNCHANGED <<up, ccnt, state, alarm, wire, stray>>
        /\ iters' = IF Sample("server") THEN [iters EXCEPT !["server"] = @ + 1] ELSE iters
    BY <1>4, Zenon DEF ServerCount, clientVars, timerVars
  <2>2. Polled("server")' = Polled("server") + 1 /\ Polled("server") \in Nat /\ 1 \in Nat
    BY <1>n, <2>1, Zenon DEF Polled
  <2>3. Sampling("server")'
    BY <2>1, <2>2, Sides, CountKeepsSampling, Zenon
  <2>4. iters'["client"] = iters["client"] /\ Polled("client")' = Polled("client")
    BY <1>i, <2>1, Sides, Zenon DEF Polled
  <2>5. Sampling("client")'
    BY <2>1, <2>4, Sides, SamplingFrame, Zenon
  <2> QED  BY <2>1, <2>3, <2>5, Sides, Zenon DEF NoStrayAlarm
<1>5. ASSUME NEW s \in Side, Signal(s)
      PROVE  NoStrayAlarm' /\ \A r \in Side : Sampling(r)'
  <2>1. Sampling(s)' /\ stray' = stray
    BY <1>5, SignalKeepsSampling, Zenon
  <2>2. ASSUME NEW r \in Side, r # s PROVE Sampling(r)'
    <3>1. UNCHANGED <<up, iters, ccnt, rcnt>> /\ catch_alarm(s)
      BY <1>5, Zenon DEF Signal, clientVars, serverVars
    <3>2. state'[r] = state[r] /\ alarm'[r] = alarm[r] /\ wire'[r] = wire[r]
      BY <2>2, <3>1, TimerFrame, Zenon
    <3>3. Polled(r)' = Polled(r)
      BY <3>1, Zenon DEF Polled
    <3> QED  BY <3>1, <3>2, <3>3, SamplingFrame, Zenon
  <2> QED  BY <2>1, <2>2, Zenon DEF NoStrayAlarm
<1>6. CASE ClientCheck \/ ClientPost \/ ClientFull \/ ClientTop
  BY <1>6, <1>f, Zenon DEF ClientCheck, ClientPost, ClientFull, ClientTop, serverVars
<1>7. CASE ServerPoll /\ firstRx # ON
  BY <1>7, <1>f, Zenon DEF ServerPoll, clientVars
<1>8. CASE ServerNext \/ ServerEnd \/ Deliver \/ Ack \/ UNCHANGED vars
  BY <1>8, <1>f, Zenon DEF ServerNext, ServerEnd, Deliver, Ack, vars, clientVars, serverVars
<1> QED
  BY <1>1, <1>2, <1>3, <1>4, <1>5, <1>6, <1>7, <1>8, Zenon
     DEF Next, Client, Server, ServerIdle, Ended

LEMMA InvInit == Init => DurationInv
<1> SUFFICES ASSUME Init PROVE DurationInv
  BY Zenon
<1>1. TypeOK /\ Groups /\ InOrder
  BY TypeInit, GroupsInit, Zenon
<1>2. NoStrayAlarm /\ \A s \in Side : Sampling(s)
  BY Zenon DEF Init, NoStrayAlarm, Sampling, ON, OFF
<1> QED  BY <1>1, <1>2, Zenon DEF DurationInv

LEMMA InvNext == DurationInv /\ [Next]_vars => DurationInv'
  BY TypeNext, GroupsNext, OrderNext, SamplingNext, Zenon DEF DurationInv

LEMMA InvHolds == Spec => []DurationInv
  BY InvInit, InvNext, PTL DEF Spec

(* The iterations that a side reports are those its adapter finished between
   the two time stamps of catch_alarm, up to the depth of its queue, at
   whatever points of the loops the signals arrive. *)
THEOREM SampleIsRight == Spec => []SampleMeasuresWire
<1>1. DurationInv => SampleMeasuresWire
  BY Zenon DEF DurationInv, Sampling, SampleMeasuresWire
<1> QED  BY <1>1, InvHolds, PTL

(* catch_alarm never runs in the state END, whatever the margin. *)
THEOREM AlarmsEnd == Spec => []NoStrayAlarm
<1>1. DurationInv => NoStrayAlarm
  BY Zenon DEF DurationInv
<1> QED  BY <1>1, InvHolds, PTL
=============================================================================
