--------------------------- MODULE BwStreamProofs ---------------------------
(***************************************************************************)
(* Proofs about the bandwidth stream, for every number of QPs, every set   *)
(* of configurations and every width of the credit counters.               *)
(***************************************************************************)
EXTENDS BwStream, BwParams, ModFacts, TLAPS

(* What the assumption on the configurations says about up. *)
LEMMA ConfigFacts ==
    ASSUME NEW p \in Configs
    PROVE  /\ p.iters \in Pos /\ p.tx_depth \in Pos /\ p.rx_depth \in Pos
           /\ p.cq_mod \in Pos /\ p.post_list \in Pos /\ p.recv_post_list \in Pos
           /\ p.fill_count \in Switch /\ p.send_rcredit \in Switch
  BY ConfigsAssumption, Zenon DEF Config

LEMMA ZeroQp == 0 \in QP
  BY NumQpsAssumption DEF QP, Pos

LEMMA RPostedNat == ASSUME up \in Configs PROVE RPosted \in Nat
<1>1. /\ up.rx_depth \in Nat
      /\ up.recv_post_list \in Nat \ {0}
  BY ConfigFacts, Zenon DEF Pos
<1>2. up.rx_depth \div up.recv_post_list \in Nat
  BY <1>1
<1> QED  BY <1>1, <1>2 DEF RPosted

(* The types hold initially and no step leaves them. *)
LEMMA TypeInit == Init => TypeOK
<1> SUFFICES ASSUME Init PROVE TypeOK
  BY Zenon
<1>1. RPosted \in Nat
  BY RPostedNat, Zenon DEF Init
<1> QED  BY <1>1, ZeroQp DEF Init, TypeOK, ClientType, ServerType, SendType, CreditType

(* A step that leaves a group of variables alone keeps its types. *)
LEMMA Untouched ==
    /\ ClientType /\ UNCHANGED clientVars => ClientType'
    /\ ServerType /\ UNCHANGED serverVars => ServerType'
    /\ SendType   /\ UNCHANGED sendVars   => SendType'
    /\ CreditType /\ UNCHANGED creditVars => CreditType'
<1>1. ClientType /\ UNCHANGED clientVars => ClientType'
  BY Zenon DEF ClientType, clientVars
<1>2. ServerType /\ UNCHANGED serverVars => ServerType'
  BY Zenon DEF ServerType, serverVars
<1>3. SendType /\ UNCHANGED sendVars => SendType'
  BY Zenon DEF SendType, sendVars
<1>4. CreditType /\ UNCHANGED creditVars => CreditType'
  BY Zenon DEF CreditType, creditVars
<1> QED  BY <1>1, <1>2, <1>3, <1>4, Zenon

LEMMA TypeNext == TypeOK /\ [Next]_vars => TypeOK'
<1> SUFFICES ASSUME TypeOK, [Next]_vars PROVE TypeOK'
  BY Zenon
<1>c. /\ up.iters \in Pos /\ up.tx_depth \in Pos /\ up.rx_depth \in Pos
      /\ up.cq_mod \in Pos /\ up.post_list \in Pos /\ up.recv_post_list \in Pos
  BY ConfigFacts, Zenon DEF TypeOK
<1>t. /\ up \in Configs /\ conn \in {"up", "lost"}
      /\ ClientType /\ ServerType /\ SendType /\ CreditType
  BY Zenon DEF TypeOK
<1> USE Untouched
<1>1. CASE ClientTop
  <2>1. ClientType'
    BY <1>t, <1>1, ZeroQp, Zenon DEF ClientTop, ClientType
  <2> QED  BY <1>t, <1>1, <2>1, Zenon DEF ClientTop, TypeOK
<1>2. CASE ClientPost
  <2>1. Signaled(index) \subseteq Nat
    BY <1>c, <1>t DEF Signaled, Pos, ClientType
  <2>2. ClientType'
    BY <1>t, <1>2, <1>c DEF ClientPost, ClientType, Pos
  <2>3. SendType'
    BY <1>t, <1>2, <2>1, Zenon DEF ClientPost, SendType, ClientType
  <2> QED  BY <1>t, <1>2, <2>2, <2>3, Zenon DEF ClientPost, TypeOK
<1>3. CASE ClientNextQp
  <2>1. ClientType'
    BY <1>t, <1>3, Zenon DEF ClientNextQp, ClientType
  <2> QED  BY <1>t, <1>3, <2>1, Zenon DEF ClientNextQp, TypeOK
<1>4. ASSUME NEW q \in QP, ClientPoll(q) PROVE TypeOK'
  <2>1. Fill(q) \in Int
    BY <1>c, <1>t DEF Fill, Pos, ClientType
  <2>2. Head(scq[q]) \in Nat /\ Tail(scq[q]) \in Seq(Nat)
    BY <1>t, <1>4 DEF ClientPoll, SendType
  <2>3. ClientType'
    <3>1. ccnt' \in [QP -> Int] /\ totccnt' \in Int
      BY <1>t, <1>4, <2>1 DEF ClientPoll, ClientType
    <3>2. retired' \in [QP -> Nat]
      <4>1. PICK h \in Nat : retired' = [retired EXCEPT ![q] = h + 1]
        BY <1>4, <2>2, Zenon DEF ClientPoll
      <4> QED  BY <1>t, <4>1 DEF ClientType
    <3>3. cpc' \in {"poll", "top"}
      BY <1>4, Zenon DEF ClientPoll
    <3> QED  BY <1>t, <1>4, <3>1, <3>2, <3>3, Zenon DEF ClientPoll, ClientType
  <2>4. SendType'
    BY <1>t, <1>4, <2>2, Zenon DEF ClientPoll, SendType
  <2> QED  BY <1>t, <1>4, <2>3, <2>4, Zenon DEF ClientPoll, TypeOK
<1>5. CASE ClientPollEmpty
  <2>1. ClientType'
    BY <1>t, <1>5, Zenon DEF ClientPollEmpty, ClientType
  <2> QED  BY <1>t, <1>5, <2>1, Zenon DEF ClientPollEmpty, TypeOK
<1>6. ASSUME NEW q \in QP, ClientPollError(q) PROVE TypeOK'
  <2>1. ClientType'
    BY <1>t, <1>6, Zenon DEF ClientPollError, ClientType
  <2> QED  BY <1>t, <1>6, <2>1, Zenon DEF ClientPollError, TypeOK
<1>7. ASSUME NEW q \in QP, ServerPoll(q) PROVE TypeOK'
  <2>1. ServerType'
    BY <1>t, <1>7, <1>c DEF ServerPoll, Reposts, CreditValue, PostCredit, ServerType, Pos
  <2>2. CreditType'
    <3>1. cpend' = cpend \/ cpend' = [cpend EXCEPT ![q] = @ + 1]
      BY <1>7, Zenon DEF ServerPoll, PostCredit
    <3>2. cpend' \in [QP -> Nat]
      BY <1>t, <3>1 DEF CreditType
    <3> QED  BY <1>t, <1>7, <3>2, Zenon DEF ServerPoll, CreditType
  <2> QED  BY <1>t, <1>7, <2>1, <2>2, Zenon DEF ServerPoll, TypeOK
<1>8. ASSUME NEW q \in QP, ServerCreditReap(q) PROVE TypeOK'
  <2>1. ServerType'
    BY <1>t, <1>8 DEF ServerCreditReap, Reap, ServerType
  <2>2. CreditType'
    BY <1>t, <1>8 DEF ServerCreditReap, Reap, CreditType
  <2> QED  BY <1>t, <1>8, <2>1, <2>2, Zenon DEF ServerCreditReap, Reap, TypeOK
<1>9. CASE ServerCreditPost
  <2>1. ServerType'
    BY <1>t, <1>9 DEF ServerCreditPost, PostCredit, ServerType
  <2>2. CreditType'
    <3>1. cpend' \in [QP -> Nat]
      BY <1>t, <1>9, SMTT(30) DEF ServerCreditPost, PostCredit, CreditType, ServerType
    <3> QED  BY <1>t, <1>9, <3>1, Zenon DEF ServerCreditPost, CreditType
  <2> QED  BY <1>t, <1>9, <2>1, <2>2, Zenon DEF ServerCreditPost, TypeOK
<1>10. CASE ServerLoopExit
  <2>1. ServerType'
    BY <1>t, <1>10 DEF ServerLoopExit, GoCleaning, ServerType
  <2> QED  BY <1>t, <1>10, <2>1, Zenon DEF ServerLoopExit, TypeOK
<1>11. ASSUME NEW q \in QP, ServerPollError(q) PROVE TypeOK'
  <2>1. ServerType'
    BY <1>t, <1>11, SMTT(30) DEF ServerPollError, GoCleaning, ServerType
  <2> QED  BY <1>t, <1>11, <2>1, Zenon DEF ServerPollError, TypeOK
<1>12. ASSUME NEW q \in QP, ServerClean(q) PROVE TypeOK'
  <2>1. ServerType'
    BY <1>t, <1>12 DEF ServerClean, ServerType
  <2>2. CreditType'
    BY <1>t, <1>12 DEF ServerClean, CreditType
  <2> QED  BY <1>t, <1>12, <2>1, <2>2, Zenon DEF ServerClean, TypeOK
<1>13. ASSUME NEW q \in QP, ServerCleanError(q) PROVE TypeOK'
  <2>1. ServerType'
    BY <1>t, <1>13, Zenon DEF ServerCleanError, ServerType
  <2> QED  BY <1>t, <1>13, <2>1, Zenon DEF ServerCleanError, TypeOK
<1>14. CASE ServerReturn
  <2>1. ServerType'
    BY <1>t, <1>14, Zenon DEF ServerReturn, ServerType
  <2> QED  BY <1>t, <1>14, <2>1, Zenon DEF ServerReturn, TypeOK
<1>15. ASSUME NEW q \in QP, Deliver(q) PROVE TypeOK'
  <2>1. SendType'
    BY <1>t, <1>15 DEF Deliver, SendType
  <2> QED  BY <1>t, <1>15, <2>1, Zenon DEF Deliver, TypeOK
<1>16. ASSUME NEW q \in QP, Ack(q) PROVE TypeOK'
  <2>1. Append(scq[q], acked[q]) \in Seq(Nat)
    BY <1>t DEF SendType
  <2>2. SendType'
    BY <1>t, <1>16, <2>1 DEF Ack, SendType
  <2> QED  BY <1>t, <1>16, <2>2, Zenon DEF Ack, TypeOK
<1>17. ASSUME NEW q \in QP, CreditFetch(q) PROVE TypeOK'
  <2>1. Append(cflight[q], ctrl_buf[q]) \in Seq(Nat)
    BY <1>t DEF CreditType, ServerType
  <2>2. CreditType'
    BY <1>t, <1>17, <2>1 DEF CreditFetch, CreditType
  <2> QED  BY <1>t, <1>17, <2>2, Zenon DEF CreditFetch, TypeOK
<1>18. ASSUME NEW q \in QP, CreditPlace(q) PROVE TypeOK'
  <2>1. Head(cflight[q]) \in Nat /\ Tail(cflight[q]) \in Seq(Nat)
    BY <1>t, <1>18 DEF CreditPlace, CreditType
  <2>2. CreditType'
    BY <1>t, <1>18, <2>1, SMTT(30) DEF CreditPlace, CreditType
  <2> QED  BY <1>t, <1>18, <2>2, Zenon DEF CreditPlace, TypeOK
<1>19. CASE Break
  BY <1>t, <1>19, Zenon DEF Break, TypeOK
<1>20. CASE UNCHANGED vars
  BY <1>t, <1>20, Zenon DEF vars, TypeOK
<1> QED
  BY Zenon, <1>1, <1>2, <1>3, <1>4, <1>5, <1>6, <1>7, <1>8, <1>9, <1>10, <1>11, <1>12,
     <1>13, <1>14, <1>15, <1>16, <1>17, <1>18, <1>19, <1>20
     DEF Next, Client, ClientPolls, Server, ServerWaits, ServerEnds, Adapters,
         Carry, Returned

(* Every variable of the stream keeps its type: the counters the loops may
   only add to never become negative. *)
THEOREM TypeCorrect == Spec => []TypeOK
<1>1. Init => TypeOK
  BY TypeInit, Zenon
<1>2. TypeOK /\ [Next]_vars => TypeOK'
  BY TypeNext, Zenon
<1> QED  BY <1>1, <1>2, PTL DEF Spec

-----------------------------------------------------------------------------
(* The order of the counts.                                                *)

LEMMA OrderInit == Init => InOrder
<1> SUFFICES ASSUME Init PROVE InOrder
  BY Zenon
<1>1. up \in Configs
  BY Zenon DEF Init
<1>2. up.iters \in Nat /\ up.post_list \in Nat
  BY <1>1, ConfigFacts, Zenon DEF Pos
<1>3. PICK k \in 0..up.iters : up.iters = k * up.post_list
  BY <1>1, ConfigsAssumption, Zenon DEF ListsDivide
<1>4. up.iters = 0 + k * up.post_list
  BY <1>2, <1>3
<1> QED  BY <1>4 DEF Init, InOrder

(* A list that divides the run leaves a whole number of lists to post. *)
LEMMA PostKeepsOrder == ASSUME TypeOK, InOrder, ClientPost PROVE InOrder'
<1>1. up' = up /\ up.iters \in Nat /\ up.post_list \in Nat \ {0}
  BY ConfigFacts, Zenon DEF TypeOK, ClientPost, Pos
<1>2. /\ index \in QP /\ scnt \in [QP -> Nat] /\ delivered \in [QP -> Nat]
      /\ rcnt_for_qp \in [QP -> Nat]
  BY Zenon DEF TypeOK, ClientType, ServerType, SendType
<1>3. /\ scnt[index] < up.iters /\ scnt' = [scnt EXCEPT ![index] = @ + up.post_list]
      /\ UNCHANGED <<rcnt_for_qp, delivered>>
  BY Zenon DEF ClientPost, CanPost, serverVars
<1> SUFFICES ASSUME NEW q \in QP
             PROVE  /\ rcnt_for_qp[q] <= delivered[q]
                    /\ delivered[q] <= scnt'[q]
                    /\ \E k \in 0..up.iters : up.iters = scnt'[q] + k * up.post_list
  BY <1>1, <1>3, Zenon DEF InOrder
<1>4. CASE q # index
  BY <1>2, <1>3, <1>4, Zenon DEF InOrder
<1>5. CASE q = index
  <2>1. PICK k \in 0..up.iters : up.iters = scnt[q] + k * up.post_list
    BY Zenon DEF InOrder
  <2>2. k # 0
    BY <1>1, <1>2, <1>3, <1>5, <2>1
  <2>3. /\ k - 1 \in 0..up.iters
        /\ up.iters = (scnt[q] + up.post_list) + (k - 1) * up.post_list
    BY <1>1, <1>2, <2>1, <2>2
  <2>4. scnt'[q] = scnt[q] + up.post_list
    BY <1>2, <1>3, <1>5, Zenon
  <2>5. delivered[q] <= scnt'[q] /\ rcnt_for_qp[q] <= delivered[q]
    BY <1>1, <1>2, <2>4 DEF InOrder
  <2> QED  BY <2>3, <2>4, <2>5, Zenon
<1> QED  BY <1>4, <1>5, Zenon

LEMMA OrderNext == ASSUME TypeOK, InOrder, [Next]_vars PROVE InOrder'
<1>1. /\ scnt \in [QP -> Nat] /\ delivered \in [QP -> Nat] /\ rcnt_for_qp \in [QP -> Nat]
  BY Zenon DEF TypeOK, ClientType, ServerType, SendType
<1>2. CASE ClientPost
  BY <1>2, PostKeepsOrder, Zenon
<1>3. ASSUME NEW q \in QP, ServerPoll(q) PROVE InOrder'
  <2>1. /\ rcnt_for_qp[q] < delivered[q]
        /\ rcnt_for_qp' = [rcnt_for_qp EXCEPT ![q] = @ + 1]
        /\ UNCHANGED <<up, scnt, delivered>>
    BY <1>3, Zenon DEF ServerPoll, clientVars, sendVars
  <2>2. \A r \in QP : rcnt_for_qp'[r] <= delivered[r]
    BY <1>1, <2>1 DEF InOrder
  <2> QED  BY <2>1, <2>2, Zenon DEF InOrder
<1>4. ASSUME NEW q \in QP, Deliver(q) PROVE InOrder'
  <2>1. /\ delivered[q] < scnt[q]
        /\ delivered' = [delivered EXCEPT ![q] = @ + 1]
        /\ UNCHANGED <<up, scnt, rcnt_for_qp>>
    BY <1>4, Zenon DEF Deliver, clientVars, serverVars
  <2> QED  BY <1>1, <2>1 DEF InOrder
<1>5. ASSUME UNCHANGED <<up, scnt, rcnt_for_qp, delivered>> PROVE InOrder'
  BY <1>5, Zenon DEF InOrder
<1>6. CASE \/ ClientTop \/ ClientNextQp \/ ClientPollEmpty \/ Break \/ UNCHANGED vars
           \/ \E q \in QP : ClientPoll(q) \/ ClientPollError(q)
  BY <1>5, <1>6, Zenon DEF ClientTop, ClientNextQp, ClientPollEmpty, ClientPoll,
     ClientPollError, Break, vars, clientVars, serverVars, sendVars
<1>7. CASE \/ ServerCreditPost \/ ServerLoopExit \/ ServerReturn
           \/ \E q \in QP : \/ ServerCreditReap(q) \/ ServerPollError(q)
                            \/ ServerClean(q) \/ ServerCleanError(q)
  BY <1>5, <1>7, Zenon DEF ServerCreditPost, ServerLoopExit, ServerReturn,
     ServerCreditReap, Reap, ServerPollError, ServerClean, ServerCleanError,
     clientVars, sendVars
<1>8. CASE \E q \in QP : Ack(q) \/ CreditFetch(q) \/ CreditPlace(q)
  BY <1>5, <1>8, Zenon DEF Ack, CreditFetch, CreditPlace, clientVars, serverVars, sendVars
<1> QED
  BY <1>2, <1>3, <1>4, <1>6, <1>7, <1>8, Zenon
     DEF Next, Client, ClientPolls, Server, ServerWaits, ServerEnds, Adapters,
         Carry, Returned

LEMMA RestOfSum ==
    ASSUME NEW s \in Nat, NEW k \in Nat, NEW l \in Nat PROVE s <= s + k * l
<1>1. k * l \in Nat
  OBVIOUS
<1> QED  BY <1>1

(* Lists that divide the run never take the client past its end. *)
LEMMA PostsWithinRun ==
    ASSUME TypeOK, InOrder, NEW q \in QP PROVE scnt[q] <= up.iters
<1>1. PICK k \in 0..up.iters : up.iters = scnt[q] + k * up.post_list
  BY Zenon DEF InOrder
<1>2. scnt[q] \in Nat /\ k \in Nat /\ up.post_list \in Nat
  BY ConfigFacts DEF TypeOK, ClientType, Pos
<1>3. scnt[q] <= scnt[q] + k * up.post_list
  BY <1>2, RestOfSum, Zenon
<1> QED  BY <1>1, <1>3, Zenon

-----------------------------------------------------------------------------
(* Credits.                                                                *)

(* Receives are posted up to rx_depth when they are posted one by one. *)
LEMMA RPostedSingle ==
    ASSUME up \in Configs, up.recv_post_list = 1 PROVE RPosted = up.rx_depth
<1>1. PICK n \in Nat : n = up.rx_depth
  BY ConfigFacts, Zenon DEF Pos
<1>2. (n \div 1) * 1 = n
  OBVIOUS
<1> QED  BY <1>1, <1>2, Zenon DEF RPosted

LEMMA CreditInit == ASSUME SingleReceives, Init PROVE CreditInv
<1>1. up \in Configs
  BY Zenon DEF Init
<1>2. /\ up.iters \in Pos /\ up.rx_depth \in Pos /\ up.post_list \in Pos
      /\ up.send_rcredit = ON => up.recv_post_list = 1
  BY <1>1, ConfigFacts, Zenon DEF SingleReceives
<1>3. InOrder
  BY OrderInit, Zenon
<1>4. CreditsRise
  BY DEF Init, CreditsRise
<1>5. WindowKept
  BY <1>2 DEF Init, WindowKept, Pos
<1>6. up.send_rcredit = ON => ReceivesAhead
  <2>1. up.send_rcredit = ON => RPosted = up.rx_depth
    BY <1>1, <1>2, RPostedSingle, Zenon
  <2> QED  BY <1>2, <2>1 DEF Init, ReceivesAhead, Pos
<1> QED  BY <1>3, <1>4, <1>5, <1>6, Zenon DEF CreditInv

(* A step that leaves the counts and the credits on their way alone. *)
LEMMA CreditFrame ==
    ASSUME CreditInv,
           UNCHANGED <<up, scnt, rcnt_for_qp, posted_per_qp, ctrl_buf, delivered,
                       cflight, credit_buf>>
    PROVE  CreditInv'
  BY Zenon DEF CreditInv, InOrder, CreditsRise, WindowKept, ReceivesAhead

(* The test on swindow keeps the window although the counter wraps. *)
LEMMA PostKeepsCredit ==
    ASSUME TypeOK, CreditInv, ClientPost PROVE CreditInv'
<1>1. /\ up \in Configs /\ up' = up
      /\ up.iters \in Pos /\ up.rx_depth \in Pos /\ up.post_list \in Pos
      /\ up.rx_depth + up.post_list <= CreditMod /\ CreditMod \in Nat \ {0}
  BY ConfigFacts, ConfigsAssumption, CreditModAssumption, Zenon
     DEF TypeOK, ClientPost, WindowFits, Pos
<1>2. /\ index \in QP /\ scnt \in [QP -> Nat] /\ delivered \in [QP -> Nat]
      /\ rcnt_for_qp \in [QP -> Nat] /\ ctrl_buf \in [QP -> Nat]
      /\ credit_buf \in [QP -> Nat]
  BY Zenon DEF TypeOK, ClientType, ServerType, SendType, CreditType
<1>3. /\ InOrder /\ CreditsRise
      /\ up.send_rcredit = ON => WindowKept /\ ReceivesAhead
  BY Zenon DEF CreditInv
<1>4. /\ CanPost(index) /\ scnt' = [scnt EXCEPT ![index] = @ + up.post_list]
      /\ UNCHANGED <<rcnt_for_qp, posted_per_qp, ctrl_buf, delivered, cflight, credit_buf>>
  BY Zenon DEF ClientPost, serverVars, creditVars
<1>5. InOrder'
  BY <1>3, PostKeepsOrder, Zenon
<1>6. CreditsRise'
  BY <1>3, <1>4, Zenon DEF CreditsRise
<1>7. ASSUME up.send_rcredit = ON PROVE WindowKept'
  <2> DEFINE a == scnt[index] + up.post_list
             b == credit_buf[index]
  <2>1. a \in Nat /\ b \in Nat
    BY <1>1, <1>2 DEF Pos
  <2>2. scnt[index] < b + up.rx_depth
    BY <1>2, <1>3, <1>7, Zenon DEF WindowKept
  <2>3. b <= scnt[index]
    <3>1. b <= ctrl_buf[index] /\ ctrl_buf[index] <= rcnt_for_qp[index]
      BY <1>2, <1>3, Zenon DEF CreditsRise
    <3>2. rcnt_for_qp[index] <= delivered[index] /\ delivered[index] <= scnt[index]
      BY <1>2, <1>3, Zenon DEF InOrder
    <3> QED  BY <1>2, <3>1, <3>2
  <2>4. 0 <= a - b /\ a - b < CreditMod
    BY <1>1, <1>2, <2>1, <2>2, <2>3 DEF Pos
  <2>5. SWindow(index) = a - b
    <3>1. SWindow(index) = (a - (b % CreditMod)) % CreditMod
      BY Zenon DEF SWindow, U32
    <3> HIDE DEF a, b
    <3>2. (a - (b % CreditMod)) % CreditMod = a - b
      BY <1>1, <2>1, <2>4, ModDiff, Zenon
    <3> QED  BY <3>1, <3>2, Zenon
  <2>6. a < b + up.rx_depth
    BY <1>1, <1>4, <1>7, <2>1, <2>5 DEF CanPost, Pos
  <2> QED  BY <1>1, <1>2, <1>3, <1>4, <1>7, <2>6, Zenon DEF WindowKept
<1>8. ASSUME up.send_rcredit = ON PROVE ReceivesAhead'
  BY <1>1, <1>3, <1>4, <1>8, Zenon DEF ReceivesAhead
<1> QED  BY <1>1, <1>5, <1>6, <1>7, <1>8, Zenon DEF CreditInv

(* Counting a message moves the credit source up, and one repost per message
   keeps the receives ahead. *)
LEMMA PollKeepsCredit ==
    ASSUME SingleReceives, TypeOK, CreditInv, NEW q \in QP, ServerPoll(q)
    PROVE  CreditInv'
<1>1. /\ up \in Configs /\ up' = up
      /\ up.iters \in Pos /\ up.rx_depth \in Pos /\ up.recv_post_list \in Pos
      /\ up.send_rcredit = ON => up.recv_post_list = 1
  BY ConfigFacts, Zenon DEF TypeOK, ServerPoll, SingleReceives
<1>2. /\ scnt \in [QP -> Nat] /\ delivered \in [QP -> Nat]
      /\ rcnt_for_qp \in [QP -> Nat] /\ ctrl_buf \in [QP -> Nat]
      /\ posted_per_qp \in [QP -> Nat] /\ unused_recv_for_qp \in [QP -> Nat]
      /\ credit_buf \in [QP -> Nat] /\ cflight \in [QP -> Seq(Nat)]
  BY Zenon DEF TypeOK, ClientType, ServerType, SendType, CreditType
<1>3. /\ InOrder /\ CreditsRise
      /\ up.send_rcredit = ON => WindowKept /\ ReceivesAhead
  BY Zenon DEF CreditInv
<1>4. /\ rcnt_for_qp[q] < delivered[q]
      /\ rcnt_for_qp' = [rcnt_for_qp EXCEPT ![q] = @ + 1]
      /\ UNCHANGED <<scnt, delivered, cflight, credit_buf>>
  BY Zenon DEF ServerPoll, clientVars, sendVars
<1>5. InOrder'
  <2>1. \A r \in QP : rcnt_for_qp'[r] <= delivered[r]
    BY <1>2, <1>3, <1>4 DEF InOrder
  <2> QED  BY <1>1, <1>3, <1>4, <2>1, Zenon DEF InOrder
<1>6. CreditsRise'
  <2>1. \/ ctrl_buf' = ctrl_buf
        \/ ctrl_buf' = [ctrl_buf EXCEPT ![q] = rcnt_for_qp[q] + 1]
    BY Zenon DEF ServerPoll, CreditValue
  <2>2. \A r \in QP : /\ ctrl_buf[r] <= ctrl_buf'[r]
                      /\ ctrl_buf'[r] <= rcnt_for_qp'[r]
                      /\ ctrl_buf'[r] \in Nat
    <3> SUFFICES ASSUME NEW r \in QP
                 PROVE  /\ ctrl_buf[r] <= ctrl_buf'[r]
                        /\ ctrl_buf'[r] <= rcnt_for_qp'[r]
                        /\ ctrl_buf'[r] \in Nat
      BY Zenon
    <3>1. /\ ctrl_buf[r] \in Nat /\ rcnt_for_qp[r] \in Nat
          /\ ctrl_buf[r] <= rcnt_for_qp[r]
      BY <1>2, <1>3, Zenon DEF CreditsRise
    <3>2. rcnt_for_qp'[r] = IF r = q THEN rcnt_for_qp[r] + 1 ELSE rcnt_for_qp[r]
      BY <1>2, <1>4, Zenon
    <3>3. \/ ctrl_buf'[r] = ctrl_buf[r]
          \/ r = q /\ ctrl_buf'[r] = rcnt_for_qp[r] + 1
      BY <1>2, <2>1, Zenon
    <3> QED  BY <3>1, <3>2, <3>3
  <2> SUFFICES ASSUME NEW r \in QP
               PROVE  /\ credit_buf[r] <= ctrl_buf'[r]
                      /\ \A i \in 1..Len(cflight[r]) :
                            /\ credit_buf[r] <= cflight[r][i]
                            /\ cflight[r][i] <= ctrl_buf'[r]
                            /\ \A j \in 1..Len(cflight[r]) :
                                   i < j => cflight[r][i] <= cflight[r][j]
    BY <1>4, <2>2, Zenon DEF CreditsRise
  <2>3. \A i \in 1..Len(cflight[r]) : cflight[r][i] \in Nat
    <3>1. cflight[r] \in Seq(Nat)
      BY <1>2, Zenon
    <3> QED  BY <3>1
  <2>4. ctrl_buf[r] \in Nat /\ credit_buf[r] \in Nat
    BY <1>2, Zenon
  <2> QED  BY <1>3, <2>2, <2>3, <2>4 DEF CreditsRise
<1>7. ASSUME up.send_rcredit = ON PROVE WindowKept'
  BY <1>1, <1>3, <1>4, <1>7, Zenon DEF WindowKept
<1>8. ASSUME up.send_rcredit = ON PROVE ReceivesAhead'
  <2>1. CASE Reposts(q)
    <3>1. posted_per_qp' = [posted_per_qp EXCEPT ![q] = @ + 1]
      BY <1>1, <1>8, <2>1, Zenon DEF ServerPoll
    <3>2. ASSUME NEW r \in QP
          PROVE  \/ posted_per_qp'[r] >= up.iters
                 \/ posted_per_qp'[r] >= up.rx_depth + rcnt_for_qp'[r]
      <4>1. /\ posted_per_qp[r] \in Nat /\ rcnt_for_qp[r] \in Nat
            /\ \/ posted_per_qp[r] >= up.iters
               \/ posted_per_qp[r] >= up.rx_depth + rcnt_for_qp[r]
        BY <1>2, <1>3, <1>8, Zenon DEF ReceivesAhead
      <4>2. CASE r = q
        <5>1. /\ posted_per_qp'[r] = posted_per_qp[r] + 1
              /\ rcnt_for_qp'[r] = rcnt_for_qp[r] + 1
          BY <1>2, <1>4, <3>1, <4>2, Zenon
        <5> QED  BY <1>1, <4>1, <5>1 DEF Pos
      <4>3. CASE r # q
        BY <1>2, <1>4, <3>1, <4>1, <4>3, Zenon
      <4> QED  BY <4>2, <4>3, Zenon
    <3> QED  BY <1>1, <3>2, Zenon DEF ReceivesAhead
  <2>2. CASE ~Reposts(q)
    <3>1. posted_per_qp' = posted_per_qp
      BY <2>2, Zenon DEF ServerPoll
    <3>2. posted_per_qp[q] >= up.iters
      BY <1>1, <1>2, <1>8, <2>2 DEF Reposts, Pos
    <3> QED  BY <1>1, <1>2, <1>3, <1>4, <1>8, <3>1, <3>2, Zenon DEF ReceivesAhead, Pos
  <2> QED  BY <2>1, <2>2, Zenon
<1> QED  BY <1>1, <1>5, <1>6, <1>7, <1>8, Zenon DEF CreditInv

(* A credit that is read or placed keeps the order of the credits. *)
LEMMA FetchKeepsCredit ==
    ASSUME TypeOK, CreditInv, NEW q \in QP, CreditFetch(q) PROVE CreditInv'
<1>1. /\ cflight \in [QP -> Seq(Nat)] /\ ctrl_buf \in [QP -> Nat]
      /\ credit_buf \in [QP -> Nat] /\ rcnt_for_qp \in [QP -> Nat]
  BY Zenon DEF TypeOK, ServerType, CreditType
<1>2. /\ cflight' = [cflight EXCEPT ![q] = Append(@, ctrl_buf[q])]
      /\ UNCHANGED <<up, scnt, rcnt_for_qp, posted_per_qp, ctrl_buf, delivered, credit_buf>>
  BY Zenon DEF CreditFetch, clientVars, serverVars, sendVars
<1>3. InOrder' /\ (up.send_rcredit = ON => WindowKept' /\ ReceivesAhead')
  BY <1>2, Zenon DEF CreditInv, InOrder, WindowKept, ReceivesAhead
<1>4. CreditsRise
  BY Zenon DEF CreditInv
<1>5. CreditsRise'
  <2> SUFFICES ASSUME NEW r \in QP
               PROVE  /\ credit_buf[r] <= ctrl_buf[r] /\ ctrl_buf[r] <= rcnt_for_qp[r]
                      /\ \A i \in 1..Len(cflight'[r]) :
                            /\ credit_buf[r] <= cflight'[r][i]
                            /\ cflight'[r][i] <= ctrl_buf[r]
                            /\ \A j \in 1..Len(cflight'[r]) :
                                   i < j => cflight'[r][i] <= cflight'[r][j]
    BY <1>2, Zenon DEF CreditsRise
  <2>1. credit_buf[r] <= ctrl_buf[r] /\ ctrl_buf[r] <= rcnt_for_qp[r]
    BY <1>4, Zenon DEF CreditsRise
  <2>2. CASE r # q
    BY <1>1, <1>2, <1>4, <2>1, <2>2, Zenon DEF CreditsRise
  <2>3. CASE r = q
    <3> DEFINE n == Len(cflight[q])
    <3>1. /\ n \in Nat /\ Len(cflight'[q]) = n + 1
          /\ \A i \in 1..n : cflight'[q][i] = cflight[q][i] /\ cflight[q][i] \in Nat
          /\ cflight'[q][n + 1] = ctrl_buf[q]
      BY <1>1, <1>2, SMTT(30)
    <3>2. /\ ctrl_buf[q] \in Nat /\ credit_buf[q] <= ctrl_buf[q]
          /\ \A i \in 1..n : /\ credit_buf[q] <= cflight[q][i]
                             /\ cflight[q][i] <= ctrl_buf[q]
                             /\ \A j \in 1..n : i < j => cflight[q][i] <= cflight[q][j]
      BY <1>1, <1>4, Zenon DEF CreditsRise
    <3> HIDE DEF n
    <3> QED  BY <2>1, <2>3, <3>1, <3>2, SMTT(30)
  <2> QED  BY <2>2, <2>3, Zenon
<1> QED  BY <1>2, <1>3, <1>5, Zenon DEF CreditInv

LEMMA PlaceKeepsCredit ==
    ASSUME TypeOK, CreditInv, NEW q \in QP, CreditPlace(q) PROVE CreditInv'
<1>1. /\ cflight \in [QP -> Seq(Nat)] /\ ctrl_buf \in [QP -> Nat]
      /\ credit_buf \in [QP -> Nat] /\ rcnt_for_qp \in [QP -> Nat]
      /\ scnt \in [QP -> Nat] /\ up.rx_depth \in Nat
  BY ConfigFacts, Zenon DEF TypeOK, ClientType, ServerType, CreditType, Pos
<1>2. /\ cflight[q] # <<>>
      /\ cflight' = [cflight EXCEPT ![q] = Tail(@)]
      /\ credit_buf' = [credit_buf EXCEPT ![q] = Head(cflight[q])]
      /\ UNCHANGED <<up, scnt, rcnt_for_qp, posted_per_qp, ctrl_buf, delivered>>
  BY Zenon DEF CreditPlace, clientVars, serverVars, sendVars
<1>3. InOrder' /\ (up.send_rcredit = ON => ReceivesAhead')
  BY <1>2, Zenon DEF CreditInv, InOrder, ReceivesAhead
<1>4. CreditsRise
  BY Zenon DEF CreditInv
<1> DEFINE n == Len(cflight[q])
<1>5. /\ n \in Nat \ {0} /\ Len(cflight'[q]) = n - 1
      /\ \A i \in 1..n : cflight[q][i] \in Nat
      /\ \A i \in 1..(n - 1) : cflight'[q][i] = cflight[q][i + 1]
      /\ credit_buf'[q] = cflight[q][1]
  BY <1>1, <1>2, SMTT(30)
<1>6. /\ ctrl_buf[q] \in Nat /\ credit_buf[q] \in Nat
      /\ \A i \in 1..n : /\ credit_buf[q] <= cflight[q][i]
                         /\ cflight[q][i] <= ctrl_buf[q]
                         /\ \A j \in 1..n : i < j => cflight[q][i] <= cflight[q][j]
  BY <1>1, <1>4, Zenon DEF CreditsRise
<1> HIDE DEF n
<1>7. credit_buf[q] <= credit_buf'[q] /\ credit_buf'[q] \in Nat
  BY <1>5, <1>6, SMTT(30)
<1>8. CreditsRise'
  <2> SUFFICES ASSUME NEW r \in QP
               PROVE  /\ credit_buf'[r] <= ctrl_buf[r] /\ ctrl_buf[r] <= rcnt_for_qp[r]
                      /\ \A i \in 1..Len(cflight'[r]) :
                            /\ credit_buf'[r] <= cflight'[r][i]
                            /\ cflight'[r][i] <= ctrl_buf[r]
                            /\ \A j \in 1..Len(cflight'[r]) :
                                   i < j => cflight'[r][i] <= cflight'[r][j]
    BY <1>2, Zenon DEF CreditsRise
  <2>1. CASE r # q
    BY <1>1, <1>2, <1>4, <2>1 DEF CreditsRise
  <2>2. CASE r = q
    <3>1. ctrl_buf[q] <= rcnt_for_qp[q]
      BY <1>4, Zenon DEF CreditsRise
    <3>2. credit_buf'[q] <= ctrl_buf[q]
      BY <1>5, <1>6, SMTT(30)
    <3>3. ASSUME NEW i \in 1..(n - 1)
          PROVE  /\ credit_buf'[q] <= cflight'[q][i]
                 /\ cflight'[q][i] <= ctrl_buf[q]
                 /\ \A j \in 1..(n - 1) : i < j => cflight'[q][i] <= cflight'[q][j]
      BY <1>5, <1>6, SMTT(30)
    <3> QED  BY <1>5, <2>2, <3>1, <3>2, <3>3, Zenon
  <2> QED  BY <2>1, <2>2, Zenon
<1>9. ASSUME up.send_rcredit = ON PROVE WindowKept'
  <2>1. WindowKept
    BY <1>9, Zenon DEF CreditInv
  <2>2. \A r \in QP : credit_buf[r] <= credit_buf'[r] /\ credit_buf'[r] \in Nat
    BY <1>1, <1>2, <1>7, SMTT(30)
  <2> QED  BY <1>1, <1>2, <2>1, <2>2, SMTT(30) DEF WindowKept
<1> QED  BY <1>2, <1>3, <1>8, <1>9, Zenon DEF CreditInv

LEMMA DeliverKeepsCredit ==
    ASSUME TypeOK, CreditInv, NEW q \in QP, Deliver(q) PROVE CreditInv'
<1>1. /\ delivered \in [QP -> Nat] /\ scnt \in [QP -> Nat] /\ rcnt_for_qp \in [QP -> Nat]
  BY Zenon DEF TypeOK, ClientType, ServerType, SendType
<1>2. /\ delivered[q] < scnt[q]
      /\ delivered' = [delivered EXCEPT ![q] = @ + 1]
      /\ UNCHANGED <<up, scnt, rcnt_for_qp, posted_per_qp, ctrl_buf, cflight, credit_buf>>
  BY Zenon DEF Deliver, clientVars, serverVars, creditVars
<1>3. InOrder'
  BY <1>1, <1>2 DEF CreditInv, InOrder
<1> QED
  BY <1>2, <1>3, Zenon DEF CreditInv, CreditsRise, WindowKept, ReceivesAhead

LEMMA CreditNext ==
    ASSUME SingleReceives, TypeOK, CreditInv, [Next]_vars PROVE CreditInv'
<1>1. CASE ClientPost
  BY <1>1, PostKeepsCredit, Zenon
<1>2. ASSUME NEW q \in QP, ServerPoll(q) PROVE CreditInv'
  BY <1>2, PollKeepsCredit, Zenon
<1>3. ASSUME NEW q \in QP, CreditFetch(q) PROVE CreditInv'
  BY <1>3, FetchKeepsCredit, Zenon
<1>4. ASSUME NEW q \in QP, CreditPlace(q) PROVE CreditInv'
  BY <1>4, PlaceKeepsCredit, Zenon
<1>5. ASSUME NEW q \in QP, Deliver(q) PROVE CreditInv'
  BY <1>5, DeliverKeepsCredit, Zenon
<1>6. CASE \/ ClientTop \/ ClientNextQp \/ ClientPollEmpty
           \/ \E q \in QP : ClientPoll(q) \/ ClientPollError(q)
  BY <1>6, CreditFrame, Zenon DEF ClientTop, ClientNextQp, ClientPollEmpty, ClientPoll,
     ClientPollError, serverVars, sendVars, creditVars
<1>7. CASE \/ ServerCreditPost \/ ServerLoopExit \/ ServerReturn
           \/ \E q \in QP : \/ ServerCreditReap(q) \/ ServerPollError(q)
                            \/ ServerClean(q) \/ ServerCleanError(q)
  BY <1>7, CreditFrame, Zenon DEF ServerCreditPost, ServerLoopExit, ServerReturn,
     ServerCreditReap, Reap, ServerPollError, ServerClean, ServerCleanError,
     clientVars, sendVars, creditVars
<1>8. CASE Break \/ UNCHANGED vars \/ \E q \in QP : Ack(q)
  BY <1>8, CreditFrame, Zenon DEF Break, Ack, vars, clientVars, serverVars, sendVars, creditVars
<1> QED
  BY <1>1, <1>2, <1>3, <1>4, <1>5, <1>6, <1>7, <1>8, Zenon
     DEF Next, Client, ClientPolls, Server, ServerWaits, ServerEnds, Adapters,
         Carry, Returned

LEMMA WindowArith ==
    ASSUME NEW delv \in Nat, NEW sent \in Nat, NEW cred \in Nat, NEW ctrl \in Nat,
           NEW recv \in Nat, NEW depth \in Nat, NEW posted \in Nat, NEW n \in Nat,
           delv < sent, sent <= n, sent < cred + depth, cred <= ctrl, ctrl <= recv,
           posted >= n \/ posted >= depth + recv
    PROVE  delv < posted
  OBVIOUS

(* A message in flight was posted within the window of a credit the server
   had reported, and the receives are ahead of that credit by the window. *)
LEMMA CreditSuffices == ASSUME TypeOK, CreditInv PROVE ArrivalHasBuffer
<1> SUFFICES ASSUME up.send_rcredit = ON, NEW q \in QP, delivered[q] < scnt[q]
             PROVE  delivered[q] < posted_per_qp[q]
  BY Zenon DEF ArrivalHasBuffer
<1>1. /\ delivered[q] \in Nat /\ scnt[q] \in Nat /\ rcnt_for_qp[q] \in Nat
      /\ posted_per_qp[q] \in Nat /\ ctrl_buf[q] \in Nat /\ credit_buf[q] \in Nat
      /\ up.iters \in Nat /\ up.rx_depth \in Nat
  BY ConfigFacts, Zenon DEF TypeOK, ClientType, ServerType, SendType, CreditType, Pos
<1>2. scnt[q] <= up.iters
  BY PostsWithinRun, Zenon DEF CreditInv
<1>3. scnt[q] < credit_buf[q] + up.rx_depth
  BY Zenon DEF CreditInv, WindowKept
<1>4. credit_buf[q] <= ctrl_buf[q] /\ ctrl_buf[q] <= rcnt_for_qp[q]
  BY Zenon DEF CreditInv, CreditsRise
<1>5. posted_per_qp[q] >= up.iters \/ posted_per_qp[q] >= up.rx_depth + rcnt_for_qp[q]
  BY Zenon DEF CreditInv, ReceivesAhead
<1> QED  BY <1>1, <1>2, <1>3, <1>4, <1>5, WindowArith, ZenonT(30)

(* With credits, and receives posted one by one, a message never reaches a
   queue pair of the server that has no receive posted: for every number of
   QPs, every depth, list and length of the run, and although credit_buf and
   swindow wrap at 2^32. *)
THEOREM CreditSafety == SingleReceives => (Spec => []ArrivalHasBuffer)
<1> SUFFICES ASSUME SingleReceives PROVE Spec => []ArrivalHasBuffer
  BY Zenon
<1>1. Init => TypeOK /\ CreditInv
  BY TypeInit, CreditInit, Zenon
<1>2. TypeOK /\ CreditInv /\ [Next]_vars => TypeOK' /\ CreditInv'
  BY TypeNext, CreditNext, Zenon
<1>3. TypeOK /\ CreditInv => ArrivalHasBuffer
  BY CreditSuffices, Zenon
<1> QED  BY <1>1, <1>2, <1>3, PTL DEF Spec

-----------------------------------------------------------------------------
(* The counters and the queues: the completions the client counts are the  *)
(* sends they stand for, no queue overflows, and a run ends with nothing    *)
(* left on its way, for every configuration force_dependecies leaves.       *)

(* The numbers the proofs below need of a configuration. *)
LEMMA UpFacts ==
    ASSUME up \in Configs
    PROVE  /\ up.iters \in Nat \ {0} /\ up.tx_depth \in Nat \ {0} /\ up.rx_depth \in Nat \ {0}
           /\ up.cq_mod \in Nat \ {0} /\ up.post_list \in Nat \ {0}
           /\ up.recv_post_list \in Nat \ {0}
           /\ up.cq_mod <= up.iters /\ up.rx_depth <= up.iters + 1
           /\ up.post_list > 1 => up.post_list % up.cq_mod = 0
           /\ up.fill_count # ON => up.iters % up.cq_mod = 0
<1>1. Moderated(up) /\ DepthFits(up)
  BY ConfigsAssumption, Zenon
<1>2. up.fill_count \in Switch
  BY ConfigFacts, Zenon
<1> QED  BY <1>1, <1>2, ConfigFacts, Zenon DEF Moderated, DepthFits, Pos, Switch, ON, OFF

LEMMA ClientTypes ==
    ASSUME TypeOK
    PROVE  /\ up \in Configs /\ index \in QP /\ scnt \in [QP -> Nat] /\ ccnt \in [QP -> Int]
           /\ retired \in [QP -> Nat] /\ totccnt \in Int /\ wr_signaled \subseteq QP
           /\ delivered \in [QP -> Nat] /\ acked \in [QP -> Nat]
           /\ signals \in [QP -> SUBSET Nat] /\ scq \in [QP -> Seq(Nat)]
  BY Zenon DEF TypeOK, ClientType, SendType

LEMMA ServerTypes ==
    ASSUME TypeOK
    PROVE  /\ up \in Configs /\ rcnt \in Nat /\ rcnt_for_qp \in [QP -> Nat]
           /\ unused_recv_for_qp \in [QP -> Nat] /\ posted_per_qp \in [QP -> Nat]
           /\ ctrl_buf \in [QP -> Nat] /\ scredit_for_qp \in [QP -> Int] /\ tot_scredit \in Int
           /\ wait_qp \in QP /\ send_cnt \in Int
           /\ cpend \in [QP -> Nat] /\ cflight \in [QP -> Seq(Nat)] /\ ccq \in [QP -> Nat]
  BY Zenon DEF TypeOK, ServerType, CreditType

-----------------------------------------------------------------------------
(* Boundaries.                                                             *)

(* There is no multiple strictly between one and the next. *)
LEMMA NoneBetween ==
    ASSUME NEW M \in Nat \ {0}, NEW c \in Nat, c % M = 0, NEW k \in Nat, c < k, k < c + M
    PROVE  k % M # 0
<1>1. c <= k
  OBVIOUS
<1>2. k % M = k - c
  BY <1>1, ModBetween, Zenon
<1> QED  BY <1>2

(* Without fill_count the moderation divides the run. *)
LEMMA WholeStep ==
    ASSUME NEW M \in Nat \ {0}, NEW n \in Nat, n % M = 0, NEW c \in Nat, c < n, c % M = 0
    PROVE  c + M <= n
<1> SUFFICES ASSUME n < c + M PROVE FALSE
  OBVIOUS
<1>1. n % M = n - c
  BY ModBetween
<1> QED  BY <1>1

(* The flag kept in send_flags: set before the last send of every cq_mod and
   of the run, dropped at the first one after a boundary. *)
LEMMA FlagArith ==
    ASSUME NEW M \in Nat \ {0}, NEW n \in Nat, NEW x \in Nat, x + 1 < n
    PROVE  (IF (x + 1) % M = 0 /\ M > 1 /\ x + 1 # n - 1
            THEN FALSE
            ELSE (x + 1) % M = M - 1 \/ x + 1 = n - 1 \/ (x + 1) % M = 0)
           <=> ((x + 1 + 1) % M = 0 \/ x + 1 + 1 = n)
<1> DEFINE y == x + 1
<1>1. y \in Nat /\ y % M \in 0..(M - 1)
  BY DivMod
<1>2. (y + 1) % M = IF y % M = M - 1 THEN 0 ELSE (y % M) + 1
  BY <1>1, ModSucc, Zenon
<1>3. PICK r \in 0..(M - 1) : r = y % M
  BY <1>1, Zenon
<1>4. (IF r = 0 /\ M > 1 /\ x + 1 # n - 1 THEN FALSE ELSE r = M - 1 \/ x + 1 = n - 1 \/ r = 0)
      <=> ((IF r = M - 1 THEN 0 ELSE r + 1) = 0 \/ x + 1 + 1 = n)
  OBVIOUS
<1> QED  BY <1>2, <1>3, <1>4, Zenon

(* In a list the flags ctx_set_send_reg_wqes has set fall on the boundaries. *)
LEMMA ListArith ==
    ASSUME NEW M \in Nat \ {0}, NEW c \in Nat, c % M = 0, NEW k \in Nat, c <= k
    PROVE  (k - c + 1) % M = 0 <=> (k + 1) % M = 0
<1>1. PICK d \in Int : c = d * M
  BY IsMultiple, Zenon
<1>2. PICK e \in Int, r \in 0..(M - 1) : k - c + 1 = e * M + r /\ (k - c + 1) % M = r
  <2>1. k - c + 1 \in Int
    OBVIOUS
  <2> QED  BY <2>1, DivMod, Zenon
<1>3. k + 1 = r + (d + e) * M
  BY <1>1, <1>2
<1>4. (r + (d + e) * M) % M = r
  <2>1. d + e \in Int /\ r \in Nat /\ r < M
    BY <1>1, <1>2
  <2> QED  BY <2>1, ModShift, Zenon
<1> QED  BY <1>2, <1>3, <1>4, Zenon

(* The difference of two multiples. *)
LEMMA MultipleRest ==
    ASSUME NEW M \in Nat \ {0}, NEW p \in Nat, p % M = 0, NEW x \in Nat, (x + p) % M = 0
    PROVE  x % M = 0
<1>1. PICK d \in Int : p = d * M
  BY IsMultiple, Zenon
<1>2. PICK e \in Int : x + p = e * M
  <2>1. x + p \in Nat
    OBVIOUS
  <2> QED  BY <2>1, IsMultiple, Zenon
<1>3. x = 0 + (e - d) * M
  BY <1>1, <1>2
<1>4. (0 + (e - d) * M) % M = 0
  BY <1>1, <1>2, ModShift
<1> QED  BY <1>3, <1>4, Zenon

LEMMA ProductIsMultiple ==
    ASSUME NEW M \in Nat \ {0}, NEW l \in Nat, l % M = 0, NEW k \in Nat
    PROVE  (k * l) % M = 0
<1>1. PICK d \in Int : l = d * M
  BY IsMultiple, Zenon
<1>2. k * l = 0 + (k * d) * M
  BY <1>1
<1>3. (0 + (k * d) * M) % M = 0
  <2>1. k * d \in Int
    BY <1>1
  <2> QED  BY <2>1, ModShift
<1> QED  BY <1>2, <1>3, Zenon

-----------------------------------------------------------------------------
(* Steps of the client and of its adapter.                                 *)

LEMMA Numbers ==
    ASSUME TypeOK, NEW q \in QP
    PROVE  /\ scnt[q] \in Nat /\ ccnt[q] \in Int /\ acked[q] \in Nat /\ delivered[q] \in Nat
           /\ retired[q] \in Nat /\ rcnt_for_qp[q] \in Nat
           /\ posted_per_qp[q] \in Nat /\ unused_recv_for_qp[q] \in Nat
  BY ClientTypes, ServerTypes, Zenon

(* A step that leaves what the three conjuncts speak of alone. *)
LEMMA ClientFrame ==
    ASSUME NEW q \in QP, Marked(q), Queued(q), Counted(q),
           up' = up, scnt'[q] = scnt[q], ccnt'[q] = ccnt[q], retired'[q] = retired[q],
           acked'[q] = acked[q], delivered'[q] = delivered[q], signals'[q] = signals[q],
           scq'[q] = scq[q], q \in wr_signaled' <=> q \in wr_signaled
    PROVE  Marked(q)' /\ Queued(q)' /\ Counted(q)'
<1>1. \A k : Boundary(k)' <=> Boundary(k)
  BY Zenon DEF Boundary
<1>2. FlagAtPost(q)' <=> FlagAtPost(q)
  BY Zenon DEF FlagAtPost
<1>3. Marked(q)'
  BY <1>2, Zenon DEF Marked, Boundary
<1>4. Queued(q)'
  BY Zenon DEF Queued, Boundary
<1>5. Counted(q)'
  BY Zenon DEF Counted, Boundary
<1> QED  BY <1>3, <1>4, <1>5, Zenon

(* With lists the run is a whole number of moderations, and a list begins
   at a boundary. *)
LEMMA ListBoundary ==
    ASSUME TypeOK, InOrder, up.post_list > 1, NEW q \in QP
    PROVE  up.iters % up.cq_mod = 0 /\ scnt[q] % up.cq_mod = 0
<1>1. /\ up \in Configs /\ up.cq_mod \in Nat \ {0} /\ up.post_list \in Nat /\ up.iters \in Nat
      /\ up.post_list % up.cq_mod = 0 /\ scnt[q] \in Nat
  BY UpFacts, ClientTypes, Zenon
<1>2. PICK k \in 0..up.iters : up.iters = k * up.post_list
  BY <1>1, ConfigsAssumption, Zenon DEF ListsDivide
<1>3. up.iters % up.cq_mod = 0
  BY <1>1, <1>2, ProductIsMultiple
<1>4. PICK j \in 0..up.iters : up.iters = scnt[q] + j * up.post_list
  BY Zenon DEF InOrder
<1>5. j \in Nat
  BY <1>1
<1>6. scnt[q] % up.cq_mod = 0
  <2>1. PICK p \in Nat : p = j * up.post_list
    BY <1>1, <1>5
  <2>2. p % up.cq_mod = 0
    BY <1>1, <1>5, <2>1, ProductIsMultiple, Zenon
  <2>3. (scnt[q] + p) % up.cq_mod = 0
    BY <1>3, <1>4, <2>1, Zenon
  <2> QED  BY <1>1, <2>2, <2>3, MultipleRest, Zenon
<1> QED  BY <1>3, <1>6, Zenon

(* The sends a post marks are the boundaries among them. *)
LEMMA PostMarks ==
    ASSUME TypeOK, InOrder, NEW q \in QP, Marked(q), scnt[q] < up.iters
    PROVE  Signaled(q) = {k \in scnt[q]..(scnt[q] + up.post_list - 1) : Boundary(k + 1)}
<1>1. /\ up.cq_mod \in Nat \ {0} /\ up.post_list \in Nat \ {0} /\ up.iters \in Nat
      /\ scnt[q] \in Nat
  BY UpFacts, ClientTypes, Zenon
<1>2. CASE up.post_list = 1
  <2>1. FlagAtPost(q) <=> Boundary(scnt[q] + 1)
    BY <1>2, Zenon DEF Marked
  <2>2. scnt[q]..(scnt[q] + up.post_list - 1) = {scnt[q]}
    BY <1>1, <1>2
  <2> QED  BY <1>2, <2>1, <2>2, Zenon DEF Signaled
<1>3. CASE up.post_list > 1
  <2>1. up.iters % up.cq_mod = 0 /\ scnt[q] % up.cq_mod = 0
    BY <1>3, ListBoundary, Zenon
  <2>2. ASSUME NEW k \in scnt[q]..(scnt[q] + up.post_list - 1)
        PROVE  (k - scnt[q] + 1) % up.cq_mod = 0 <=> Boundary(k + 1)
    <3>1. k \in Nat /\ scnt[q] <= k
      BY <1>1
    <3>2. (k - scnt[q] + 1) % up.cq_mod = 0 <=> (k + 1) % up.cq_mod = 0
      BY <1>1, <2>1, <3>1, ListArith, Zenon
    <3> QED  BY <2>1, <3>2, Zenon DEF Boundary
  <2> QED  BY <1>1, <1>3, <2>2 DEF Signaled
<1> QED  BY <1>1, <1>2, <1>3

(* The flag for the next send. *)
LEMMA PostFlag ==
    ASSUME TypeOK, NEW q \in QP, Marked(q), up.post_list = 1, scnt[q] + 1 < up.iters,
           up' = up, scnt'[q] = scnt[q] + 1, q \in wr_signaled' <=> FlagAfterPost(q)
    PROVE  FlagAtPost(q)' <=> Boundary(scnt'[q] + 1)
<1>1. up.cq_mod \in Nat \ {0} /\ up.iters \in Nat /\ scnt[q] \in Nat
  BY UpFacts, ClientTypes, Zenon
<1>2. FlagAtPost(q) <=> (scnt[q] + 1) % up.cq_mod = 0
  BY <1>1 DEF Marked, Boundary
<1>3. q \in wr_signaled' <=> \/ (scnt[q] + 1) % up.cq_mod = up.cq_mod - 1
                             \/ scnt[q] + 1 = up.iters - 1
                             \/ (scnt[q] + 1) % up.cq_mod = 0
  BY <1>2, Zenon DEF FlagAfterPost
<1>4. FlagAtPost(q)' <=>
          IF (scnt[q] + 1) % up.cq_mod = 0 /\ up.cq_mod > 1 /\ scnt[q] + 1 # up.iters - 1
          THEN FALSE
          ELSE \/ (scnt[q] + 1) % up.cq_mod = up.cq_mod - 1 \/ scnt[q] + 1 = up.iters - 1
               \/ (scnt[q] + 1) % up.cq_mod = 0
  BY <1>3, Zenon DEF FlagAtPost
<1>5. (IF (scnt[q] + 1) % up.cq_mod = 0 /\ up.cq_mod > 1 /\ scnt[q] + 1 # up.iters - 1
       THEN FALSE
       ELSE \/ (scnt[q] + 1) % up.cq_mod = up.cq_mod - 1 \/ scnt[q] + 1 = up.iters - 1
            \/ (scnt[q] + 1) % up.cq_mod = 0)
      <=> ((scnt[q] + 1 + 1) % up.cq_mod = 0 \/ scnt[q] + 1 + 1 = up.iters)
  BY <1>1, FlagArith, Zenon
<1> QED  BY <1>4, <1>5, Zenon DEF Boundary

LEMMA PostKeepsCount ==
    ASSUME TypeOK, TypeOK', InOrder, InOrder', ClientPost, NEW q \in QP,
           Marked(q), Queued(q), Counted(q)
    PROVE  Marked(q)' /\ Queued(q)' /\ Counted(q)'
<1>t. /\ scnt \in [QP -> Nat] /\ signals \in [QP -> SUBSET Nat] /\ index \in QP
  BY ClientTypes, Zenon
<1>1. /\ CanPost(index) /\ scnt' = [scnt EXCEPT ![index] = @ + up.post_list]
      /\ signals' = [signals EXCEPT ![index] = @ \cup Signaled(index)]
      /\ wr_signaled' = IF FlagAfterPost(index) THEN wr_signaled \cup {index}
                                                ELSE wr_signaled \ {index}
      /\ UNCHANGED <<up, ccnt, retired, delivered, acked, scq>>
  BY Zenon DEF ClientPost
<1>2. CASE q # index
  <2>1. scnt'[q] = scnt[q] /\ signals'[q] = signals[q]
    BY <1>1, <1>2, <1>t, Zenon
  <2>2. q \in wr_signaled' <=> q \in wr_signaled
    BY <1>1, <1>2, Zenon
  <2> QED  BY <1>1, <2>1, <2>2, ClientFrame, Zenon
<1>3. CASE q = index
  <2>n. /\ scnt[q] \in Nat /\ acked[q] \in Nat /\ delivered[q] \in Nat /\ ccnt[q] \in Int
        /\ up.post_list \in Nat \ {0} /\ up.iters \in Nat /\ up.tx_depth \in Nat
    BY Numbers, UpFacts, Zenon DEF TypeOK
  <2>1. /\ scnt'[q] = scnt[q] + up.post_list /\ signals'[q] = signals[q] \cup Signaled(q)
        /\ q \in wr_signaled' <=> FlagAfterPost(q)
        /\ scnt[q] < up.iters /\ scnt[q] + up.post_list <= up.tx_depth + ccnt[q]
    BY <1>1, <1>3, <1>t, Zenon DEF CanPost
  <2>2. acked[q] <= scnt[q]
    BY <2>n DEF Counted, InOrder
  <2>3. Signaled(q) = {k \in scnt[q]..(scnt[q] + up.post_list - 1) : Boundary(k + 1)}
    BY <2>1, PostMarks, Zenon
  <2>4. signals'[q] = {k \in acked[q]..(scnt'[q] - 1) : Boundary(k + 1)}
    <3>1. signals[q] = {k \in acked[q]..(scnt[q] - 1) : Boundary(k + 1)}
      BY Zenon DEF Marked
    <3>2. acked[q]..(scnt'[q] - 1) =
              (acked[q]..(scnt[q] - 1)) \cup (scnt[q]..(scnt[q] + up.post_list - 1))
      BY <2>1, <2>2, <2>n, SMTT(20)
    <3> QED  BY <2>1, <2>3, <3>1, <3>2, Zenon
  <2>5. ASSUME up.post_list = 1, scnt'[q] < up.iters
        PROVE  FlagAtPost(q)' <=> Boundary(scnt'[q] + 1)
    BY <1>1, <2>1, <2>5, <2>n, PostFlag, Zenon
  <2>6. Marked(q)'
    BY <1>1, <2>4, <2>5, Zenon DEF Marked, Boundary
  <2>7. Queued(q)'
    BY <1>1, Zenon DEF Queued, Boundary
  <2>8. Counted(q)'
    BY <1>1, <2>1, <2>n, Zenon DEF Counted, Boundary
  <2> QED  BY <2>6, <2>7, <2>8, Zenon
<1> QED  BY <1>2, <1>3, Zenon

(* The oldest completion in the send CQ stands for the sends up to the next
   boundary, and that is what the poll counts. *)
LEMMA PollCounts ==
    ASSUME TypeOK, InOrder, NEW q \in QP, Queued(q), Counted(q), scq[q] # <<>>
    PROVE  /\ ccnt[q] + Fill(q) = Head(scq[q]) + 1
           /\ Head(scq[q]) \in ccnt[q]..(acked[q] - 1) /\ Boundary(Head(scq[q]) + 1)
<1>n. /\ scnt[q] \in Nat /\ acked[q] \in Nat /\ ccnt[q] \in Nat /\ delivered[q] \in Nat
      /\ up.cq_mod \in Nat \ {0} /\ up.iters \in Nat
  BY Numbers, UpFacts, Zenon DEF TypeOK, Counted
<1>1. scnt[q] <= up.iters
  BY PostsWithinRun, Zenon
<1>2. acked[q] <= up.iters
  BY <1>1, <1>n DEF Counted, InOrder
<1>3. PICK L \in Nat \ {0} : L = Len(scq[q])
  BY ClientTypes
<1>4. Head(scq[q]) = scq[q][1] /\ 1 \in 1..Len(scq[q])
  BY <1>3
<1>5. PICK h \in Nat : h = Head(scq[q])
  BY ClientTypes, SMTT(30)
<1>6. h \in ccnt[q]..(acked[q] - 1) /\ Boundary(h + 1)
  BY <1>4, <1>5, Zenon DEF Queued
<1> DEFINE b == IF ccnt[q] + up.cq_mod > up.iters THEN up.iters ELSE ccnt[q] + up.cq_mod
<1>7. ccnt[q] < up.iters /\ ccnt[q] % up.cq_mod = 0
  BY <1>2, <1>6, <1>n DEF Counted, Boundary
<1>8. /\ b \in Nat /\ ccnt[q] < b /\ b <= up.iters /\ Boundary(b)
      /\ \A k \in Nat : ccnt[q] < k /\ k < b => ~Boundary(k)
  <2>1. b \in Nat /\ ccnt[q] < b /\ b <= up.iters /\ b <= ccnt[q] + up.cq_mod
    BY <1>7, <1>n
  <2>2. Boundary(b)
    <3>1. (ccnt[q] + up.cq_mod) % up.cq_mod = 0
      BY <1>7, <1>n, NextMultiple, Zenon
    <3> QED  BY <3>1, Zenon DEF Boundary
  <2> HIDE DEF b
  <2>3. ASSUME NEW k \in Nat, ccnt[q] < k, k < b PROVE ~Boundary(k)
    <3>1. k < ccnt[q] + up.cq_mod /\ k # up.iters
      BY <2>1, <2>3, <1>n
    <3>2. k % up.cq_mod # 0
      BY <1>7, <1>n, <2>3, <3>1, NoneBetween, Zenon
    <3> QED  BY <3>1, <3>2, Zenon DEF Boundary
  <2> QED  BY <2>1, <2>2, <2>3, Zenon
<1>9. ccnt[q] + Fill(q) = b
  <2>1. CASE up.fill_count = ON
    BY <2>1, <1>n DEF Fill
  <2>2. CASE up.fill_count # ON
    <3>1. up.iters % up.cq_mod = 0
      BY <2>2, UpFacts, Zenon DEF TypeOK
    <3>2. ccnt[q] + up.cq_mod <= up.iters
      BY <1>7, <1>n, <3>1, WholeStep, Zenon
    <3> QED  BY <2>2, <3>2, <1>n DEF Fill
  <2> QED  BY <2>1, <2>2, Zenon
<1> HIDE DEF b
<1>10. h + 1 >= b
  <2>1. h + 1 \in Nat /\ ccnt[q] < h + 1
    BY <1>6, <1>n
  <2> QED  BY <1>6, <1>8, <2>1
<1>11. h <= b - 1
  <2>1. b - 1 \in ccnt[q]..(acked[q] - 1) /\ (b - 1) + 1 = b
    BY <1>6, <1>8, <1>10, <1>n
  <2>2. PICK i \in 1..Len(scq[q]) : scq[q][i] = b - 1
    BY <1>8, <2>1, Zenon DEF Queued
  <2>3. CASE i = 1
    BY <2>2, <2>3, <1>4, <1>5, <1>8
  <2>4. CASE i # 1
    <3>1. 1 < i
      BY <1>3, <2>4
    <3>2. scq[q][1] < scq[q][i]
      BY <1>4, <3>1, Zenon DEF Queued
    <3> QED  BY <1>4, <1>5, <1>8, <2>2, <3>2
  <2> QED  BY <2>3, <2>4, Zenon
<1>12. h + 1 = b
  BY <1>8, <1>10, <1>11
<1> QED  BY <1>5, <1>6, <1>9, <1>12, Zenon

LEMMA PollKeepsCount ==
    ASSUME TypeOK, InOrder, NEW r \in QP, ClientPoll(r), NEW q \in QP,
           Marked(q), Queued(q), Counted(q)
    PROVE  Marked(q)' /\ Queued(q)' /\ Counted(q)'
<1>t. /\ scq \in [QP -> Seq(Nat)] /\ ccnt \in [QP -> Int] /\ retired \in [QP -> Nat]
  BY ClientTypes, Zenon
<1>1. /\ scq[r] # <<>> /\ scq' = [scq EXCEPT ![r] = Tail(@)]
      /\ retired' = [retired EXCEPT ![r] = Head(scq[r]) + 1]
      /\ ccnt' = [ccnt EXCEPT ![r] = @ + Fill(r)]
      /\ UNCHANGED <<up, scnt, wr_signaled, delivered, acked, signals>>
  BY Zenon DEF ClientPoll
<1>2. CASE q # r
  <2>1. scq'[q] = scq[q] /\ ccnt'[q] = ccnt[q] /\ retired'[q] = retired[q]
    BY <1>1, <1>2, <1>t, Zenon
  <2> QED  BY <1>1, <2>1, ClientFrame, Zenon
<1>3. CASE q = r
  <2>n. /\ scnt[q] \in Nat /\ acked[q] \in Nat /\ ccnt[q] \in Nat /\ up.tx_depth \in Nat
    BY Numbers, UpFacts, Zenon DEF TypeOK, Counted
  <2>1. PICK h \in Nat : h = Head(scq[q])
    BY <1>1, <1>3, <1>t
  <2>2. ccnt[q] + Fill(q) = h + 1 /\ h \in ccnt[q]..(acked[q] - 1) /\ Boundary(h + 1)
    BY <1>1, <1>3, <2>1, PollCounts, Zenon
  <2>3. ccnt'[q] = h + 1 /\ retired'[q] = h + 1 /\ scq'[q] = Tail(scq[q])
    BY <1>1, <1>3, <1>t, <2>1, <2>2, Zenon
  <2>4. Counted(q)'
    BY <1>1, <2>2, <2>3, <2>n DEF Counted, Boundary
  <2>5. Marked(q)'
    <3>1. FlagAtPost(q)' <=> FlagAtPost(q)
      BY <1>1, Zenon DEF FlagAtPost
    <3> QED  BY <1>1, <3>1, Zenon DEF Marked, Boundary
  <2>6. PICK L \in Nat \ {0} : L = Len(scq[q])
    BY <1>1, <1>3, <1>t
  <2>7. /\ scq[q][1] = h /\ Len(scq'[q]) = L - 1
        /\ \A i \in 1..L : scq[q][i] \in Nat
        /\ \A i \in 1..(L - 1) : scq'[q][i] = scq[q][i + 1]
    BY <1>1, <1>3, <1>t, <2>1, <2>3, <2>6
  <2>8. /\ \A i \in 1..L : scq[q][i] \in ccnt[q]..(acked[q] - 1) /\ Boundary(scq[q][i] + 1)
        /\ \A i, j \in 1..L : i < j => scq[q][i] < scq[q][j]
        /\ \A k \in ccnt[q]..(acked[q] - 1) :
               Boundary(k + 1) => \E i \in 1..L : scq[q][i] = k
    BY <2>6, Zenon DEF Queued
  <2>9. ASSUME NEW i \in 1..(L - 1)
        PROVE  scq'[q][i] \in (h + 1)..(acked[q] - 1) /\ Boundary(scq'[q][i] + 1)
    <3>1. 1 \in 1..L /\ i + 1 \in 1..L /\ 1 < i + 1
      BY <2>6
    <3>2. h < scq[q][i + 1]
      BY <2>7, <2>8, <3>1, Zenon
    <3>3. scq[q][i + 1] \in ccnt[q]..(acked[q] - 1) /\ Boundary(scq[q][i + 1] + 1)
      BY <2>8, <3>1, Zenon
    <3> QED  BY <2>7, <2>n, <3>2, <3>3, SMTT(30)
  <2>10. ASSUME NEW i \in 1..(L - 1), NEW j \in 1..(L - 1), i < j
         PROVE  scq'[q][i] < scq'[q][j]
    <3>1. i + 1 \in 1..L /\ j + 1 \in 1..L /\ i + 1 < j + 1
      BY <2>6, <2>10
    <3> QED  BY <2>7, <2>8, <3>1, Zenon
  <2>11. ASSUME NEW k \in (h + 1)..(acked[q] - 1), Boundary(k + 1)
         PROVE  \E i \in 1..(L - 1) : scq'[q][i] = k
    <3>1. k \in ccnt[q]..(acked[q] - 1) /\ k # h
      BY <2>2, <2>n
    <3>2. PICK i \in 1..L : scq[q][i] = k
      BY <2>8, <2>11, <3>1, Zenon
    <3>3. i # 1
      BY <2>7, <3>1, <3>2, Zenon
    <3>4. i - 1 \in 1..(L - 1) /\ (i - 1) + 1 = i
      BY <2>6, <3>3
    <3> QED  BY <2>7, <3>2, <3>4, Zenon
  <2>12. Queued(q)'
    <3>1. \A k : Boundary(k)' <=> Boundary(k)
      BY <1>1, Zenon DEF Boundary
    <3>2. Len(scq'[q]) = L - 1 /\ acked'[q] = acked[q] /\ ccnt'[q] = h + 1
      BY <1>1, <2>3, <2>7, Zenon
    <3>3. \A i \in 1..Len(scq'[q]) :
              scq'[q][i] \in ccnt'[q]..(acked'[q] - 1) /\ Boundary(scq'[q][i] + 1)
      BY <2>9, <3>2, Zenon
    <3>4. \A i, j \in 1..Len(scq'[q]) : i < j => scq'[q][i] < scq'[q][j]
      BY <2>10, <3>2, Zenon
    <3>5. \A k \in ccnt'[q]..(acked'[q] - 1) :
              Boundary(k + 1) => \E i \in 1..Len(scq'[q]) : scq'[q][i] = k
      BY <2>11, <3>2, Zenon
    <3> QED  BY <1>1, <3>3, <3>4, <3>5, Zenon DEF Queued, Boundary
  <2> QED  BY <2>4, <2>5, <2>12, Zenon
<1> QED  BY <1>2, <1>3, Zenon

LEMMA DeliverKeepsCount ==
    ASSUME TypeOK, NEW r \in QP, Deliver(r), NEW q \in QP, Marked(q), Queued(q), Counted(q)
    PROVE  Marked(q)' /\ Queued(q)' /\ Counted(q)'
<1>1. /\ delivered' = [delivered EXCEPT ![r] = @ + 1]
      /\ UNCHANGED <<up, scnt, ccnt, retired, wr_signaled, acked, signals, scq>>
  BY Zenon DEF Deliver, clientVars
<1>2. acked[q] \in Nat /\ delivered \in [QP -> Nat]
  BY ClientTypes, Zenon
<1>3. acked[q] <= delivered'[q]
  BY <1>1, <1>2, SMTT(20) DEF Counted
<1>4. FlagAtPost(q)' <=> FlagAtPost(q)
  BY <1>1, Zenon DEF FlagAtPost
<1>5. Marked(q)'
  BY <1>1, <1>4, Zenon DEF Marked, Boundary
<1>6. Queued(q)'
  BY <1>1, Zenon DEF Queued, Boundary
<1>7. Counted(q)'
  BY <1>1, <1>3, Zenon DEF Counted, Boundary
<1> QED  BY <1>5, <1>6, <1>7, Zenon

(* An acknowledgement turns a flag into an entry of the send CQ. *)
LEMMA AckKeepsCount ==
    ASSUME TypeOK, InOrder, NEW r \in QP, Ack(r), NEW q \in QP, Marked(q), Queued(q), Counted(q)
    PROVE  Marked(q)' /\ Queued(q)' /\ Counted(q)'
<1>t. /\ scq \in [QP -> Seq(Nat)] /\ acked \in [QP -> Nat] /\ signals \in [QP -> SUBSET Nat]
  BY ClientTypes, Zenon
<1>1. /\ acked[r] < delivered[r] /\ acked' = [acked EXCEPT ![r] = @ + 1]
      /\ signals' = [signals EXCEPT ![r] = @ \ {acked[r]}]
      /\ scq' = IF acked[r] \in signals[r] THEN [scq EXCEPT ![r] = Append(@, acked[r])] ELSE scq
      /\ UNCHANGED <<up, scnt, ccnt, retired, wr_signaled, delivered>>
  BY Zenon DEF Ack, clientVars
<1>2. CASE q # r
  <2>1. acked'[q] = acked[q] /\ signals'[q] = signals[q] /\ scq'[q] = scq[q]
    BY <1>1, <1>2, <1>t, Zenon
  <2> QED  BY <1>1, <2>1, ClientFrame, Zenon
<1>3. CASE q = r
  <2>n. /\ scnt[q] \in Nat /\ acked[q] \in Nat /\ ccnt[q] \in Nat /\ delivered[q] \in Nat
        /\ ccnt[q] <= acked[q] /\ acked[q] < scnt[q]
    BY <1>1, <1>3, Numbers DEF Counted, InOrder
  <2>1. acked'[q] = acked[q] + 1 /\ signals'[q] = signals[q] \ {acked[q]}
    BY <1>1, <1>3, <1>t, Zenon
  <2>2. acked[q] \in signals[q] <=> Boundary(acked[q] + 1)
    BY <2>n DEF Marked
  <2>3. Counted(q)'
    BY <1>1, <1>3, <2>1, <2>n DEF Counted, Boundary
  <2>4. Marked(q)'
    <3>1. FlagAtPost(q)' <=> FlagAtPost(q)
      BY <1>1, Zenon DEF FlagAtPost
    <3>2. signals'[q] = {k \in acked'[q]..(scnt[q] - 1) : Boundary(k + 1)}
      BY <2>1, <2>n, SMTT(20) DEF Marked
    <3> QED  BY <1>1, <3>1, <3>2, Zenon DEF Marked, Boundary
  <2>5. \A k : Boundary(k)' <=> Boundary(k)
    BY <1>1, Zenon DEF Boundary
  <2>6. CASE Boundary(acked[q] + 1)
    <3>1. PICK L \in Nat : L = Len(scq[q])
      BY <1>t
    <3>2. scq'[q] = Append(scq[q], acked[q])
      BY <1>1, <1>3, <1>t, <2>2, <2>6, Zenon
    <3>3. /\ Len(scq'[q]) = L + 1 /\ scq'[q][L + 1] = acked[q]
          /\ \A i \in 1..L : scq'[q][i] = scq[q][i] /\ scq[q][i] \in Nat
      BY <1>t, <2>n, <3>1, <3>2, SMTT(30)
    <3>4. /\ \A i \in 1..L : scq[q][i] \in ccnt[q]..(acked[q] - 1) /\ Boundary(scq[q][i] + 1)
          /\ \A i, j \in 1..L : i < j => scq[q][i] < scq[q][j]
          /\ \A k \in ccnt[q]..(acked[q] - 1) :
                 Boundary(k + 1) => \E i \in 1..L : scq[q][i] = k
      BY <3>1, Zenon DEF Queued
    <3>5. ASSUME NEW i \in 1..(L + 1)
          PROVE  scq'[q][i] \in ccnt[q]..(acked'[q] - 1) /\ Boundary(scq'[q][i] + 1)
      <4>0. /\ \A c, a \in Nat : c <= a => a \in c..((a + 1) - 1)
            /\ \A c, a \in Nat, v \in Int : v \in c..(a - 1) => v \in c..((a + 1) - 1)
        OBVIOUS
      <4>1. CASE i = L + 1
        BY <2>1, <2>6, <2>n, <3>3, <4>0, <4>1, Zenon
      <4>2. CASE i # L + 1
        <5>1. i \in 1..L
          BY <3>1, <4>2
        <5>2. PICK v \in Nat : v = scq[q][i] /\ scq'[q][i] = v
          BY <3>3, <5>1, Zenon
        <5>3. v \in ccnt[q]..(acked[q] - 1) /\ Boundary(v + 1)
          BY <3>4, <5>1, <5>2, Zenon
        <5>4. v \in Int
          BY <5>2
        <5>5. v \in ccnt[q]..(acked'[q] - 1)
          BY <2>1, <2>n, <4>0, <5>3, <5>4, Zenon
        <5> QED  BY <5>2, <5>3, <5>5, Zenon
      <4> QED  BY <4>1, <4>2, Zenon
    <3>6. ASSUME NEW i \in 1..(L + 1), NEW j \in 1..(L + 1), i < j
          PROVE  scq'[q][i] < scq'[q][j]
      <4>1. i \in 1..L /\ (j \in 1..L \/ j = L + 1)
        BY <3>1, <3>6
      <4>2. CASE j \in 1..L
        BY <3>3, <3>4, <3>6, <4>1, <4>2, Zenon
      <4>3. CASE j = L + 1
        <5>1. PICK v \in Nat : v = scq[q][i] /\ scq'[q][i] = v
          BY <3>3, <4>1, Zenon
        <5>2. v \in ccnt[q]..(acked[q] - 1) /\ scq'[q][j] = acked[q]
          BY <3>3, <3>4, <4>1, <4>3, <5>1, Zenon
        <5>3. v < acked[q]
          BY <2>n, <5>2
        <5> QED  BY <5>1, <5>2, <5>3, Zenon
      <4> QED  BY <4>1, <4>2, <4>3, Zenon
    <3>7. ASSUME NEW k \in ccnt[q]..(acked'[q] - 1), Boundary(k + 1)
          PROVE  \E i \in 1..(L + 1) : scq'[q][i] = k
      <4>1. CASE k = acked[q]
        BY <3>1, <3>3, <4>1
      <4>2. CASE k # acked[q]
        <5>1. k \in ccnt[q]..(acked[q] - 1)
          BY <2>1, <2>n, <4>2
        <5>2. PICK i \in 1..L : scq[q][i] = k
          BY <3>4, <3>7, <5>1, Zenon
        <5> QED  BY <3>1, <3>3, <5>2, SMTT(30)
      <4> QED  BY <4>1, <4>2, Zenon
    <3>8. Queued(q)'
      <4>1. \A i \in 1..Len(scq'[q]) :
                scq'[q][i] \in ccnt[q]..(acked'[q] - 1) /\ Boundary(scq'[q][i] + 1)
        BY <3>3, <3>5, Zenon
      <4>2. \A i, j \in 1..Len(scq'[q]) : i < j => scq'[q][i] < scq'[q][j]
        BY <3>3, <3>6, Zenon
      <4>3. \A k \in ccnt[q]..(acked'[q] - 1) :
                Boundary(k + 1) => \E i \in 1..Len(scq'[q]) : scq'[q][i] = k
        BY <3>3, <3>7, Zenon
      <4> QED  BY <1>1, <4>1, <4>2, <4>3, Zenon DEF Queued, Boundary
    <3> QED  BY <2>3, <2>4, <3>8, Zenon
  <2>7. CASE ~Boundary(acked[q] + 1)
    <3>1. scq'[q] = scq[q]
      BY <1>1, <1>3, <2>2, <2>7, Zenon
    <3>2. Queued(q)'
      <4>1. \A i \in 1..Len(scq[q]) :
                scq[q][i] \in ccnt[q]..(acked'[q] - 1) /\ Boundary(scq[q][i] + 1)
        BY <2>1, <2>n DEF Queued
      <4>2. \A i, j \in 1..Len(scq[q]) : i < j => scq[q][i] < scq[q][j]
        BY Zenon DEF Queued
      <4>3. ASSUME NEW k \in ccnt[q]..(acked'[q] - 1), Boundary(k + 1)
            PROVE  \E i \in 1..Len(scq[q]) : scq[q][i] = k
        <5>1. k \in ccnt[q]..(acked[q] - 1)
          BY <2>1, <2>7, <2>n, <4>3
        <5> QED  BY <4>3, <5>1, Zenon DEF Queued
      <4>4. /\ \A i \in 1..Len(scq'[q]) :
                   scq'[q][i] \in ccnt[q]..(acked'[q] - 1) /\ Boundary(scq'[q][i] + 1)
            /\ \A i, j \in 1..Len(scq'[q]) : i < j => scq'[q][i] < scq'[q][j]
            /\ \A k \in ccnt[q]..(acked'[q] - 1) :
                   Boundary(k + 1) => \E i \in 1..Len(scq'[q]) : scq'[q][i] = k
        BY <3>1, <4>1, <4>2, <4>3, Zenon
      <4> QED  BY <1>1, <4>4, Zenon DEF Queued, Boundary
    <3> QED  BY <2>3, <2>4, <3>2, Zenon
  <2> QED  BY <2>6, <2>7, Zenon
<1> QED  BY <1>2, <1>3, Zenon

LEMMA CountNext ==
    ASSUME TypeOK, TypeOK', InOrder, InOrder', [Next]_vars, NEW q \in QP,
           Marked(q), Queued(q), Counted(q)
    PROVE  Marked(q)' /\ Queued(q)' /\ Counted(q)'
<1>1. CASE ClientPost
  BY <1>1, PostKeepsCount, Zenon
<1>2. ASSUME NEW r \in QP, ClientPoll(r) PROVE Marked(q)' /\ Queued(q)' /\ Counted(q)'
  BY <1>2, PollKeepsCount, Zenon
<1>3. ASSUME NEW r \in QP, Deliver(r) PROVE Marked(q)' /\ Queued(q)' /\ Counted(q)'
  BY <1>3, DeliverKeepsCount, Zenon
<1>4. ASSUME NEW r \in QP, Ack(r) PROVE Marked(q)' /\ Queued(q)' /\ Counted(q)'
  BY <1>4, AckKeepsCount, Zenon
<1>5. ASSUME UNCHANGED <<up, scnt, ccnt, retired, wr_signaled, sendVars>>
      PROVE  Marked(q)' /\ Queued(q)' /\ Counted(q)'
  BY <1>5, ClientFrame, Zenon DEF sendVars
<1>6. CASE \/ ClientTop \/ ClientNextQp \/ ClientPollEmpty \/ Break \/ UNCHANGED vars
           \/ \E r \in QP : ClientPollError(r)
  BY <1>5, <1>6, Zenon DEF ClientTop, ClientNextQp, ClientPollEmpty, ClientPollError, Break, vars, clientVars
<1>7. CASE \/ ServerCreditPost \/ ServerLoopExit \/ ServerReturn
           \/ \E r \in QP : \/ ServerPoll(r) \/ ServerCreditReap(r) \/ ServerPollError(r)
                            \/ ServerClean(r) \/ ServerCleanError(r)
  <2>1. CASE ServerCreditPost \/ ServerLoopExit \/ ServerReturn
    BY <1>5, <2>1, Zenon DEF ServerCreditPost, ServerLoopExit, ServerReturn, clientVars
  <2>2. CASE \E r \in QP : ServerPoll(r) \/ ServerCreditReap(r) \/ ServerPollError(r)
    BY <1>5, <2>2, Zenon DEF ServerPoll, ServerCreditReap, Reap, ServerPollError, clientVars
  <2>3. CASE \E r \in QP : ServerClean(r) \/ ServerCleanError(r)
    BY <1>5, <2>3, Zenon DEF ServerClean, ServerCleanError, Reap, clientVars
  <2> QED  BY <1>7, <2>1, <2>2, <2>3, Zenon
<1>8. CASE \E r \in QP : CreditFetch(r) \/ CreditPlace(r)
  BY <1>5, <1>8, Zenon DEF CreditFetch, CreditPlace, clientVars
<1> QED
  BY <1>1, <1>2, <1>3, <1>4, <1>6, <1>7, <1>8, Zenon
     DEF Next, Client, ClientPolls, Server, ServerWaits, ServerEnds, Adapters,
         Carry, Returned

LEMMA CountInit == ASSUME Init, NEW q \in QP PROVE Marked(q) /\ Queued(q) /\ Counted(q)
<1>n. /\ up.cq_mod \in Nat \ {0} /\ up.iters \in Nat \ {0} /\ up.tx_depth \in Nat
      /\ up.cq_mod <= up.iters
  BY UpFacts, Zenon DEF Init
<1>1. /\ scnt[q] = 0 /\ ccnt[q] = 0 /\ retired[q] = 0 /\ delivered[q] = 0 /\ acked[q] = 0
      /\ signals[q] = {} /\ scq[q] = <<>> /\ (q \in wr_signaled <=> up.cq_mod = 1)
  BY Zenon DEF Init
<1>2. 0 % up.cq_mod = 0
  <2>1. (0 + 0 * up.cq_mod) % up.cq_mod = 0
    BY <1>n, ModShift
  <2> QED  BY <1>n, <2>1
<1>3. up.cq_mod > 1 => 1 % up.cq_mod = 1
  <2>1. up.cq_mod > 1 => (1 + 0 * up.cq_mod) % up.cq_mod = 1
    BY <1>n, ModShift
  <2> QED  BY <1>n, <2>1
<1>4. up.cq_mod = 1 => 1 % up.cq_mod = 0
  BY <1>n
<1>5. Marked(q)
  <2>1. FlagAtPost(q) <=> Boundary(scnt[q] + 1)
    BY <1>n, <1>1, <1>2, <1>3, <1>4 DEF FlagAtPost, Boundary
  <2> QED  BY <1>1, <2>1 DEF Marked
<1>6. Queued(q)
  BY <1>1 DEF Queued
<1>7. Counted(q)
  BY <1>1, <1>2, <1>n DEF Counted, Boundary
<1> QED  BY <1>5, <1>6, <1>7, Zenon

-----------------------------------------------------------------------------
(* Sums over the QPs.                                                      *)

LEMMA QpRange == NumQps \in Nat \ {0} /\ \A q \in QP : q \in 0..NumQps /\ q + 1 \in 0..NumQps
  BY NumQpsAssumption DEF QP, Pos

LEMMA SumSame ==
    ASSUME NEW f, NEW g, NEW tot, SumsTo(f, tot), \A q \in QP : g[q] = f[q]
    PROVE  SumsTo(g, tot)
  BY Zenon DEF SumsTo

(* A sum of numbers that are not negative is 0 only if they all are. *)
LEMMA SumZero ==
    ASSUME NEW f, NEW tot \in Int, SumsTo(f, tot), tot <= 0, NEW q \in QP, f[q] \in Int
    PROVE  f[q] = 0
<1>1. PICK s \in [0..NumQps -> 0..tot] : s[q + 1] = s[q] + f[q]
  BY Zenon DEF SumsTo
<1>2. s[q] \in 0..tot /\ s[q + 1] \in 0..tot
  BY QpRange, Zenon
<1> QED  BY <1>1, <1>2

LEMMA SumConst ==
    ASSUME NEW n \in Nat PROVE SumsTo([q \in QP |-> n], n * NumQps)
<1> DEFINE s == [i \in 0..NumQps |-> n * i]
<1>1. NumQps \in Nat /\ QP = 0..(NumQps - 1)
  BY NumQpsAssumption, Zenon DEF QP, Pos
<1>2. ASSUME NEW i \in 0..NumQps, NEW j \in 0..NumQps, i <= j PROVE n * i <= n * j
  <2>1. n * (j - i) >= 0
    BY <1>1, <1>2
  <2> QED  BY <1>1, <2>1
<1>3. ASSUME NEW i \in 0..NumQps PROVE n * i \in 0..(n * NumQps)
  <2>1. i <= NumQps /\ NumQps \in 0..NumQps /\ n * i \in Nat /\ n * NumQps \in Nat
    BY <1>1
  <2> QED  BY <1>2, <2>1
<1>4. s \in [0..NumQps -> 0..(n * NumQps)]
  BY <1>3, Zenon
<1>5. s[0] = 0 /\ s[NumQps] = n * NumQps
  BY <1>1
<1>6. ASSUME NEW q \in QP PROVE s[q + 1] = s[q] + n
  <2>1. q \in 0..NumQps /\ q + 1 \in 0..NumQps /\ n * (q + 1) = n * q + n
    BY <1>1
  <2> QED  BY <2>1, Zenon
<1>7. \A i, j \in 0..NumQps : i <= j => s[i] <= s[j]
  BY <1>2, Zenon
<1> HIDE DEF s
<1> QED  BY <1>4, <1>5, <1>6, <1>7, Zenon DEF SumsTo

(* A change of one summand changes the sum by as much. *)
LEMMA SumChange ==
    ASSUME NEW f, NEW tot \in Int, SumsTo(f, tot), \A q \in QP : f[q] \in Int, NEW r \in QP,
           NEW g, g[r] \in Nat, \A q \in QP : q # r => g[q] = f[q],
           NEW tot2 \in Int, tot2 = tot + (g[r] - f[r])
    PROVE  SumsTo(g, tot2)
<1>1. PICK s \in [0..NumQps -> 0..tot] :
          /\ s[0] = 0 /\ s[NumQps] = tot
          /\ \A q \in QP : s[q + 1] = s[q] + f[q]
          /\ \A i, j \in 0..NumQps : i <= j => s[i] <= s[j]
  BY Zenon DEF SumsTo
<1>2. /\ NumQps \in Nat \ {0} /\ r \in Nat /\ r < NumQps
      /\ r \in 0..NumQps /\ r + 1 \in 0..NumQps
      /\ 0 \in 0..NumQps /\ NumQps \in 0..NumQps
  BY NumQpsAssumption DEF QP, Pos
<1>3. PICK d \in Int : d = g[r] - f[r]
  OBVIOUS
<1>4. s[r + 1] + d = s[r] + g[r] /\ s[r] \in Int /\ s[r + 1] \in Int
  <2>1. s[r] \in Int /\ s[r + 1] \in Int /\ s[r + 1] = s[r] + f[r]
    BY <1>1, <1>2
  <2>2. f[r] \in Int /\ g[r] \in Int
    OBVIOUS
  <2>3. PICK a \in Int, b \in Int, x \in Int, y \in Int :
            a = s[r] /\ b = s[r + 1] /\ x = f[r] /\ y = g[r]
    BY <2>1, <2>2, Zenon
  <2>4. b = a + x /\ d = y - x
    BY <1>3, <2>1, <2>3, Zenon
  <2>5. b + d = a + y
    BY <2>4
  <2> QED  BY <2>1, <2>3, <2>5, Zenon
<1> DEFINE t == [i \in 0..NumQps |-> IF i <= r THEN s[i] ELSE s[i] + d]
<1>5. ASSUME NEW i \in 0..NumQps
      PROVE  /\ i <= r => s[i] \in 0..tot2 /\ s[i] <= s[r]
             /\ ~(i <= r) => s[i] + d \in 0..tot2 /\ s[r] <= s[i] + d
  <2>0. s[i] \in 0..tot
    BY <1>1, Zenon
  <2>1. s[i] \in 0..tot /\ s[i] <= tot /\ tot2 = tot + d
    BY <1>3, <2>0
  <2>2. s[r + 1] <= tot
    BY <1>1, <1>2
  <2>3. CASE i <= r
    <3>1. s[i] <= s[r]
      BY <1>1, <1>2, <2>3, Zenon
    <3>2. PICK a \in Int, b \in Int, y \in Nat : a = s[r] /\ b = s[r + 1] /\ y = g[r]
      BY <1>4, Zenon
    <3>3. b + d = a + y /\ b <= tot /\ tot2 = tot + d
      BY <1>4, <2>1, <2>2, <3>2, Zenon
    <3>4. a <= tot2
      BY <3>3
    <3>5. PICK v \in 0..tot : v = s[i]
      BY <2>1, Zenon
    <3>6. v <= a
      BY <3>1, <3>2, <3>5, Zenon
    <3>7. v \in 0..tot2
      BY <3>4, <3>6
    <3> QED  BY <2>3, <3>1, <3>5, <3>7, Zenon
  <2>4. CASE ~(i <= r)
    <3>1. r + 1 <= i
      BY <1>2, <2>4
    <3>2. s[r + 1] <= s[i]
      BY <1>1, <1>2, <3>1, Zenon
    <3>3. s[r] \in 0..tot
      BY <1>1, <1>2, Zenon
    <3>4. PICK gr \in Nat : gr = g[r]
      BY Zenon
    <3>5. s[r + 1] + d = s[r] + gr
      BY <1>4, <3>4, Zenon
    <3>6. PICK x \in Int, y \in Int, z \in Int : x = s[r] /\ y = s[r + 1] /\ z = s[i]
      BY <1>4, <2>1
    <3>7. y + d = x + gr /\ y <= z /\ 0 <= x /\ z <= tot
      BY <2>1, <3>2, <3>3, <3>5, <3>6
    <3>8. z + d \in 0..tot2 /\ x <= z + d
      BY <2>1, <3>7
    <3> QED  BY <2>4, <3>6, <3>8, Zenon
  <2> QED  BY <2>3, <2>4, Zenon
<1>6. t \in [0..NumQps -> 0..tot2]
  BY <1>5, Zenon
<1>7. t[0] = 0 /\ t[NumQps] = tot2
  BY <1>1, <1>2, <1>3
<1>8. ASSUME NEW q \in QP PROVE t[q + 1] = t[q] + g[q]
  <2>1. /\ q \in Nat /\ q \in 0..NumQps /\ q + 1 \in 0..NumQps
        /\ s[q + 1] = s[q] + f[q] /\ s[q] \in Int /\ s[q + 1] \in Int
    BY <1>1, <1>2, SMTT(30) DEF QP
  <2>2. CASE q < r
    BY <1>2, <2>1, <2>2
  <2>3. CASE q = r
    BY <1>2, <1>4, <2>1, <2>3
  <2>4. CASE q > r
    <3>1. f[q] = g[q] /\ f[q] \in Int
      <4>1. q # r
        BY <1>2, <2>4
      <4>2. f[q] = g[q]
        BY <4>1, Zenon
      <4> QED  BY <4>2, Zenon
    <3>2. t[q] = s[q] + d /\ t[q + 1] = s[q + 1] + d
      BY <1>2, <2>1, <2>4
    <3> QED  BY <2>1, <3>1, <3>2
  <2> QED  BY <1>2, <2>1, <2>2, <2>3, <2>4
<1>9. ASSUME NEW i \in 0..NumQps, NEW j \in 0..NumQps, i <= j PROVE t[i] <= t[j]
  <2>1. s[i] <= s[j] /\ s[i] \in Int /\ s[j] \in Int
    BY <1>1, <1>9
  <2>2. CASE j <= r
    BY <1>2, <1>9, <2>1, <2>2
  <2>3. CASE ~(i <= r)
    BY <1>2, <1>9, <2>1, <2>3
  <2>4. CASE i <= r /\ ~(j <= r)
    <3>1. s[i] <= s[r] /\ s[r] <= s[j] + d
      BY <1>5, <2>4, Zenon
    <3>2. t[i] = s[i] /\ t[j] = s[j] + d
      BY <2>4, Zenon
    <3> QED  BY <1>4, <2>1, <3>1, <3>2
  <2> QED  BY <2>2, <2>3, <2>4, Zenon
<1> HIDE DEF t
<1> QED  BY <1>6, <1>7, <1>8, <1>9, Zenon DEF SumsTo

-----------------------------------------------------------------------------
(* The server's credit writes.                                             *)

LEMMA OutNat == ASSUME TypeOK, NEW q \in QP PROVE CreditsOut(q) \in Nat
<1>1. cpend[q] \in Nat /\ ccq[q] \in Nat
  BY ServerTypes, Zenon
<1>2. PICK w \in Nat : w = Len(cflight[q])
  BY ServerTypes
<1>3. cpend[q] + w + ccq[q] \in Nat
  BY <1>1, <1>2
<1> QED  BY <1>2, <1>3, Zenon DEF CreditsOut

LEMMA OutNatNext == ASSUME TypeOK', NEW q \in QP PROVE CreditsOut(q)' \in Nat
<1>0. CreditType'
  BY Zenon DEF TypeOK
<1>1. cpend'[q] \in Nat /\ ccq'[q] \in Nat
  BY <1>0, Zenon DEF CreditType
<1>2. PICK w \in Nat : w = Len(cflight'[q])
  BY <1>0 DEF CreditType
<1>3. cpend'[q] + w + ccq'[q] \in Nat
  BY <1>1, <1>2
<1> QED  BY <1>2, <1>3, Zenon DEF CreditsOut

(* A write that is posted, and a completion that is polled. *)
LEMMA OutPosted ==
    ASSUME TypeOK, NEW r \in QP, cpend' = [cpend EXCEPT ![r] = @ + 1], UNCHANGED <<cflight, ccq>>
    PROVE  \A q \in QP : CreditsOut(q)' = IF q = r THEN CreditsOut(q) + 1 ELSE CreditsOut(q)
<1> SUFFICES ASSUME NEW q \in QP
             PROVE  CreditsOut(q)' = IF q = r THEN CreditsOut(q) + 1 ELSE CreditsOut(q)
  BY Zenon
<1>1. cpend \in [QP -> Nat] /\ ccq[q] \in Nat
  BY ServerTypes, Zenon
<1>2. PICK w \in Nat : w = Len(cflight[q])
  BY ServerTypes
<1>3. CreditsOut(q) = cpend[q] + w + ccq[q] /\ CreditsOut(q)' = cpend'[q] + w + ccq[q]
  BY <1>2, Zenon DEF CreditsOut
<1>4. cpend'[q] = IF q = r THEN cpend[q] + 1 ELSE cpend[q]
  BY <1>1, Zenon
<1> QED  BY <1>1, <1>3, <1>4

LEMMA OutPolled ==
    ASSUME TypeOK, NEW r \in QP, ccq' = [ccq EXCEPT ![r] = @ - 1], UNCHANGED <<cflight, cpend>>
    PROVE  \A q \in QP : CreditsOut(q)' = IF q = r THEN CreditsOut(q) - 1 ELSE CreditsOut(q)
<1> SUFFICES ASSUME NEW q \in QP
             PROVE  CreditsOut(q)' = IF q = r THEN CreditsOut(q) - 1 ELSE CreditsOut(q)
  BY Zenon
<1>1. ccq \in [QP -> Nat] /\ cpend[q] \in Nat
  BY ServerTypes, Zenon
<1>2. PICK w \in Nat : w = Len(cflight[q])
  BY ServerTypes
<1>3. CreditsOut(q) = cpend[q] + w + ccq[q] /\ CreditsOut(q)' = cpend[q] + w + ccq'[q]
  BY <1>2, Zenon DEF CreditsOut
<1>4. ccq'[q] = IF q = r THEN ccq[q] - 1 ELSE ccq[q]
  BY <1>1, Zenon
<1> QED  BY <1>1, <1>3, <1>4

(* The adapter carries a write on without changing how many there are. *)
LEMMA OutCarried ==
    ASSUME TypeOK, NEW r \in QP, CreditFetch(r) \/ CreditPlace(r)
    PROVE  \A q \in QP : CreditsOut(q)' = CreditsOut(q)
<1> SUFFICES ASSUME NEW q \in QP PROVE CreditsOut(q)' = CreditsOut(q)
  BY Zenon
<1>t. /\ cpend \in [QP -> Nat] /\ ccq \in [QP -> Nat] /\ cflight \in [QP -> Seq(Nat)]
      /\ ctrl_buf \in [QP -> Nat]
  BY ServerTypes, Zenon
<1>1. CASE q # r
  <2>1. cpend'[q] = cpend[q] /\ cflight'[q] = cflight[q] /\ ccq'[q] = ccq[q]
    BY <1>t, <1>1, Zenon DEF CreditFetch, CreditPlace
  <2> QED  BY <2>1, Zenon DEF CreditsOut
<1>2. CASE q = r
  <2>1. PICK w \in Nat : w = Len(cflight[q])
    BY <1>t
  <2>2. CreditsOut(q) = cpend[q] + w + ccq[q]
    BY <2>1, Zenon DEF CreditsOut
  <2>3. CASE CreditFetch(r)
    <3>1. /\ cpend'[q] = cpend[q] - 1 /\ ccq'[q] = ccq[q]
          /\ cflight'[q] = Append(cflight[q], ctrl_buf[q])
      BY <1>t, <1>2, <2>3, Zenon DEF CreditFetch
    <3>2. Len(cflight'[q]) = w + 1
      BY <1>t, <2>1, <3>1
    <3>3. CreditsOut(q)' = (cpend[q] - 1) + (w + 1) + ccq[q]
      BY <3>1, <3>2, Zenon DEF CreditsOut
    <3>4. cpend[q] \in Nat /\ ccq[q] \in Nat
      BY <1>t, Zenon
    <3> QED  BY <2>2, <3>3, <3>4
  <2>4. CASE CreditPlace(r)
    <3>1. /\ cpend'[q] = cpend[q] /\ ccq'[q] = ccq[q] + 1
          /\ cflight[q] # <<>> /\ cflight'[q] = Tail(cflight[q])
      BY <1>t, <1>2, <2>4, Zenon DEF CreditPlace
    <3>2. Len(cflight'[q]) = w - 1
      BY <1>t, <2>1, <3>1
    <3>3. CreditsOut(q)' = cpend[q] + (w - 1) + (ccq[q] + 1)
      BY <3>1, <3>2, Zenon DEF CreditsOut
    <3>4. cpend[q] \in Nat /\ ccq[q] \in Nat
      BY <1>t, Zenon
    <3> QED  BY <2>2, <3>3, <3>4
  <2> QED  BY <2>3, <2>4, Zenon
<1> QED  BY <1>1, <1>2, Zenon

(* What the steps below keep. *)
Writes ==
    /\ \A q \in QP : Written(q)
    /\ SumsTo(scredit_for_qp, tot_scredit)
    /\ spc \in {"clean", "done"} => SumsTo([q \in QP |-> CreditsOut(q)], send_cnt)
    /\ spc = "credit" => up.send_rcredit = ON
    /\ spc = "done" => send_cnt = 0

LEMMA WritesFrame ==
    ASSUME Writes, up' = up, spc' = spc, UNCHANGED <<scredit_for_qp, tot_scredit, send_cnt>>,
           \A q \in QP : CreditsOut(q)' = CreditsOut(q)
    PROVE  Writes'
<1>1. \A q \in QP : Written(q)'
  BY Zenon DEF Writes, Written
<1>2. SumsTo(scredit_for_qp, tot_scredit)'
  BY Zenon DEF Writes, SumsTo
<1>3. [q \in QP |-> CreditsOut(q)'] = [q \in QP |-> CreditsOut(q)]
  BY Zenon
<1>4. spc' \in {"clean", "done"} => SumsTo([q \in QP |-> CreditsOut(q)], send_cnt)'
  BY <1>3, Zenon DEF Writes, SumsTo
<1> QED  BY <1>1, <1>2, <1>4, Zenon DEF Writes

LEMMA PostKeepsWrites ==
    ASSUME TypeOK, TypeOK', Writes, NEW r \in QP, PostCredit(r), spc \in {"poll", "credit"}, spc' = "poll",
           UNCHANGED <<up, cflight, ccq, send_cnt>>, scredit_for_qp[r] < up.tx_depth,
           up.send_rcredit = ON
    PROVE  Writes'
<1>t. /\ scredit_for_qp \in [QP -> Int] /\ tot_scredit \in Int /\ tot_scredit' \in Int
      /\ up.tx_depth \in Nat
  BY ServerTypes, UpFacts, Zenon DEF TypeOK, ServerType
<1>1. /\ cpend' = [cpend EXCEPT ![r] = @ + 1] /\ tot_scredit' = tot_scredit + 1
      /\ scredit_for_qp' = [scredit_for_qp EXCEPT ![r] = @ + 1]
  BY Zenon DEF PostCredit
<1>2. \A q \in QP : CreditsOut(q)' = IF q = r THEN CreditsOut(q) + 1 ELSE CreditsOut(q)
  BY <1>1, OutPosted, Zenon
<1>3. \A q \in QP :
          scredit_for_qp'[q] = IF q = r THEN scredit_for_qp[q] + 1 ELSE scredit_for_qp[q]
  BY <1>1, <1>t, Zenon
<1>4. ASSUME NEW q \in QP PROVE Written(q)'
  <2>1. /\ CreditsOut(q) = scredit_for_qp[q] /\ scredit_for_qp[q] <= up.tx_depth
        /\ CreditsOut(q) \in Nat /\ scredit_for_qp[q] \in Int
    BY <1>t, OutNat, Zenon DEF Writes, Written
  <2>2. scredit_for_qp'[q] <= up.tx_depth
    BY <1>3, <1>t, <2>1
  <2>3. CreditsOut(q)' = scredit_for_qp'[q]
    BY <1>2, <1>3, <2>1, Zenon
  <2>4. up'.send_rcredit # OFF
    BY DEF ON, OFF
  <2> QED  BY <2>2, <2>3, <2>4, Zenon DEF Written
<1>5. SumsTo(scredit_for_qp', tot_scredit')
  <2>1. scredit_for_qp'[r] = scredit_for_qp[r] + 1
    BY <1>3, Zenon
  <2>2. scredit_for_qp'[r] \in Nat /\ tot_scredit' = tot_scredit + (scredit_for_qp'[r] - scredit_for_qp[r])
    <3>1. CreditsOut(r) \in Nat /\ CreditsOut(r) = scredit_for_qp[r]
      BY OutNat, Zenon DEF Writes, Written
    <3> QED  BY <1>1, <1>t, <2>1, <3>1
  <2>3. \A q \in QP : q # r => scredit_for_qp'[q] = scredit_for_qp[q]
    BY <1>3, Zenon
  <2>4. SumsTo(scredit_for_qp, tot_scredit)
    BY Zenon DEF Writes
  <2> QED  BY <1>t, <2>2, <2>3, <2>4, SumChange, Zenon
<1> QED  BY <1>4, <1>5, Zenon DEF Writes, SumsTo

LEMMA ReapKeepsWrites ==
    ASSUME TypeOK, TypeOK', Writes, NEW r \in QP, ServerCreditReap(r)
    PROVE  Writes'
<1>t. /\ scredit_for_qp \in [QP -> Int] /\ tot_scredit \in Int /\ tot_scredit' \in Int
      /\ up.tx_depth \in Nat
  BY ServerTypes, UpFacts, Zenon DEF TypeOK, ServerType
<1>1. /\ spc = "credit" /\ ccq[r] > 0 /\ ccq' = [ccq EXCEPT ![r] = @ - 1]
      /\ tot_scredit' = tot_scredit - 1
      /\ scredit_for_qp' = [scredit_for_qp EXCEPT ![r] = @ - 1]
      /\ UNCHANGED <<up, spc, cpend, cflight, send_cnt>>
  BY Zenon DEF ServerCreditReap, Reap
<1>2. \A q \in QP : CreditsOut(q)' = IF q = r THEN CreditsOut(q) - 1 ELSE CreditsOut(q)
  BY <1>1, OutPolled, Zenon
<1>3. \A q \in QP :
          scredit_for_qp'[q] = IF q = r THEN scredit_for_qp[q] - 1 ELSE scredit_for_qp[q]
  BY <1>1, <1>t, Zenon
<1>n. \A q \in QP : CreditsOut(q)' \in Nat
  BY OutNat, OutNatNext, Zenon
<1>4. ASSUME NEW q \in QP PROVE Written(q)'
  <2>1. /\ CreditsOut(q) = scredit_for_qp[q] /\ scredit_for_qp[q] <= up.tx_depth
        /\ CreditsOut(q) \in Nat /\ scredit_for_qp[q] \in Int
    BY <1>1, <1>t, OutNat, Zenon DEF Writes, Written
  <2>2. scredit_for_qp'[q] <= up.tx_depth
    BY <1>3, <1>t, <2>1
  <2>3. CreditsOut(q)' = scredit_for_qp'[q]
    BY <1>2, <1>3, <2>1, Zenon
  <2>4. up'.send_rcredit # OFF
    BY <1>1 DEF Writes, ON, OFF
  <2> QED  BY <1>1, <2>2, <2>3, <2>4, Zenon DEF Written
<1>5. SumsTo(scredit_for_qp', tot_scredit')
  <2>1. scredit_for_qp'[r] = scredit_for_qp[r] - 1
    BY <1>3, Zenon
  <2>2. scredit_for_qp'[r] \in Nat /\ tot_scredit' = tot_scredit + (scredit_for_qp'[r] - scredit_for_qp[r])
    <3>1. CreditsOut(r)' \in Nat /\ CreditsOut(r)' = scredit_for_qp'[r]
      BY <1>1, <1>4, <1>n, Zenon DEF Written
    <3> QED  BY <1>1, <1>t, <2>1, <3>1
  <2>3. \A q \in QP : q # r => scredit_for_qp'[q] = scredit_for_qp[q]
    BY <1>3, Zenon
  <2>4. SumsTo(scredit_for_qp, tot_scredit)
    BY Zenon DEF Writes
  <2> QED  BY <1>t, <2>2, <2>3, <2>4, SumChange, Zenon
<1> QED  BY <1>1, <1>4, <1>5, Zenon DEF Writes, SumsTo

(* clean_scq_credit waits for as many completions as writes are out. *)
LEMMA CleaningKeepsWrites ==
    ASSUME TypeOK, Writes, NEW ret, GoCleaning(ret), spc \in {"poll", "credit"},
           UNCHANGED <<up, cpend, cflight, ccq, scredit_for_qp, tot_scredit>>
    PROVE  Writes'
<1>t. /\ scredit_for_qp \in [QP -> Int]
  BY ServerTypes, Zenon
<1>1. spc' = "clean" /\ send_cnt' = IF up.send_rcredit = ON THEN tot_scredit ELSE 0
  BY Zenon DEF GoCleaning
<1>2. \A q \in QP : CreditsOut(q)' = CreditsOut(q)
  BY Zenon DEF CreditsOut
<1>3. ASSUME NEW q \in QP
      PROVE  Written(q)' /\ CreditsOut(q) = scredit_for_qp[q] /\ CreditsOut(q) \in Nat
  BY <1>1, <1>2, <1>t, OutNat DEF Writes, Written
<1>4. SumsTo(scredit_for_qp, tot_scredit)
  BY Zenon DEF Writes
<1>5. SumsTo([q \in QP |-> CreditsOut(q)], send_cnt')
  <2>1. CASE up.send_rcredit = ON
    <3>1. \A q \in QP : [p \in QP |-> CreditsOut(p)][q] = scredit_for_qp[q]
      BY <1>3, Zenon
    <3> QED  BY <1>1, <1>4, <2>1, <3>1, SumSame, Zenon
  <2>2. CASE up.send_rcredit # ON
    <3>1. up.send_rcredit = OFF
      BY <2>2, ConfigFacts, Zenon DEF TypeOK, Switch
    <3>2. \A q \in QP : CreditsOut(q) = 0
      BY <3>1, Zenon DEF Writes, Written
    <3>3. SumsTo([q \in QP |-> 0], 0 * NumQps) /\ 0 * NumQps = 0
      <4>1. SumsTo([q \in QP |-> 0], 0 * NumQps)
        BY SumConst, Zenon
      <4> QED  BY <4>1, NumQpsAssumption DEF Pos
    <3>4. [q \in QP |-> CreditsOut(q)] = [q \in QP |-> 0]
      BY <3>2, Zenon
    <3> QED  BY <1>1, <2>2, <3>3, <3>4, Zenon
  <2> QED  BY <2>1, <2>2, Zenon
<1>6. [q \in QP |-> CreditsOut(q)'] = [q \in QP |-> CreditsOut(q)]
  BY <1>2, Zenon
<1>7. SumsTo([q \in QP |-> CreditsOut(q)'], send_cnt') /\ SumsTo(scredit_for_qp', tot_scredit')
  BY <1>4, <1>5, <1>6, Zenon
<1> QED  BY <1>1, <1>3, <1>7, Zenon DEF Writes, SumsTo

LEMMA CleanKeepsWrites ==
    ASSUME TypeOK, TypeOK', Writes, NEW r \in QP, ServerClean(r)
    PROVE  Writes'
<1>1. /\ spc = "clean" /\ send_cnt > 0 /\ ccq[r] > 0 /\ ccq' = [ccq EXCEPT ![r] = @ - 1]
      /\ send_cnt' = send_cnt - 1
      /\ UNCHANGED <<up, spc, cpend, cflight, scredit_for_qp, tot_scredit>>
  BY Zenon DEF ServerClean
<1>t. /\ scredit_for_qp \in [QP -> Int] /\ send_cnt \in Int /\ send_cnt' \in Int
  <2>1. scredit_for_qp \in [QP -> Int] /\ send_cnt \in Int
    BY ServerTypes, Zenon
  <2> QED  BY <1>1, <2>1
<1>2. \A q \in QP : CreditsOut(q)' = IF q = r THEN CreditsOut(q) - 1 ELSE CreditsOut(q)
  BY <1>1, OutPolled, Zenon
<1>n. \A q \in QP : CreditsOut(q) \in Nat /\ CreditsOut(q)' \in Nat
  BY OutNat, OutNatNext, Zenon
<1>3. ASSUME NEW q \in QP PROVE Written(q)'
  <2>1. /\ CreditsOut(q) <= scredit_for_qp[q] /\ scredit_for_qp[q] <= up.tx_depth
        /\ CreditsOut(q) \in Nat /\ CreditsOut(q)' \in Nat /\ scredit_for_qp[q] \in Int
        /\ up.send_rcredit = OFF => CreditsOut(q) = 0
    BY <1>1, <1>t, <1>n, Zenon DEF Writes, Written
  <2>2. CreditsOut(q)' <= CreditsOut(q)
    BY <1>2, <2>1
  <2> QED  BY <1>1, <2>1, <2>2 DEF Written
<1>4. SumsTo([q \in QP |-> CreditsOut(q)'], send_cnt')
  <2> DEFINE f == [q \in QP |-> CreditsOut(q)]
             g == [q \in QP |-> CreditsOut(q)']
  <2>1. SumsTo(f, send_cnt)
    BY <1>1, Zenon DEF Writes
  <2>2. /\ \A q \in QP : f[q] \in Int
        /\ g[r] \in Nat /\ send_cnt' = send_cnt + (g[r] - f[r])
        /\ \A q \in QP : q # r => g[q] = f[q]
    BY <1>1, <1>2, <1>n, <1>t
  <2> HIDE DEF f, g
  <2>3. SumsTo(g, send_cnt')
    BY <1>t, <2>1, <2>2, SumChange, Zenon
  <2> QED  BY <2>3, Zenon DEF g
<1> QED  BY <1>1, <1>3, <1>4, Zenon DEF Writes, SumsTo

LEMMA WritesNext ==
    ASSUME TypeOK, TypeOK', Writes, [Next]_vars PROVE Writes'
<1>f. ASSUME UNCHANGED <<up, spc, scredit_for_qp, tot_scredit, send_cnt, cpend, cflight, ccq>>
      PROVE  Writes'
  <2>1. \A q \in QP : CreditsOut(q)' = CreditsOut(q)
    BY <1>f, Zenon DEF CreditsOut
  <2> QED  BY <1>f, <2>1, WritesFrame, Zenon
<1>1. CASE Client
  BY <1>1, <1>f, Zenon DEF Client, ClientTop, ClientPost, ClientNextQp, ClientPolls, ClientPollEmpty,
     ClientPoll, ClientPollError, serverVars, creditVars
<1>2. CASE Break \/ UNCHANGED vars \/ \E r \in QP : Deliver(r) \/ Ack(r)
  BY <1>2, <1>f, Zenon DEF Break, Deliver, Ack, vars, serverVars, creditVars
<1>3. ASSUME NEW r \in QP, CreditFetch(r) \/ CreditPlace(r) PROVE Writes'
  <2>1. \A q \in QP : CreditsOut(q)' = CreditsOut(q)
    BY <1>3, OutCarried, Zenon
  <2>2. UNCHANGED <<up, spc, scredit_for_qp, tot_scredit, send_cnt>>
    BY <1>3, Zenon DEF CreditFetch, CreditPlace, serverVars
  <2> QED  BY <2>1, <2>2, WritesFrame, Zenon
<1>4. ASSUME NEW r \in QP, ServerPoll(r) PROVE Writes'
  <2>1. spc = "poll" /\ UNCHANGED <<up, send_cnt, cflight, ccq>>
    BY <1>4, Zenon DEF ServerPoll
  <2>2. CASE ~CreditDue(r)
    <3>1. UNCHANGED <<spc, cpend, scredit_for_qp, tot_scredit>>
      BY <1>4, <2>2, Zenon DEF ServerPoll
    <3> QED  BY <2>1, <3>1, <1>f, Zenon
  <2>3. CASE CreditDue(r) /\ scredit_for_qp[r] = up.tx_depth
    <3>1. spc' = "credit" /\ UNCHANGED <<cpend, scredit_for_qp, tot_scredit>>
      BY <1>4, <2>3, Zenon DEF ServerPoll
    <3>2. \A q \in QP : CreditsOut(q)' = CreditsOut(q)
      BY <2>1, <3>1, Zenon DEF CreditsOut
    <3>3. \A q \in QP : Written(q)'
      BY <2>1, <3>1, <3>2, Zenon DEF Writes, Written
    <3>4. SumsTo(scredit_for_qp', tot_scredit')
      BY <3>1, Zenon DEF Writes
    <3>5. up.send_rcredit = ON
      BY <2>3, Zenon DEF CreditDue
    <3> QED  BY <2>1, <3>1, <3>3, <3>4, <3>5, Zenon DEF Writes, SumsTo
  <2>4. CASE CreditDue(r) /\ scredit_for_qp[r] # up.tx_depth
    <3>1. PostCredit(r) /\ spc' = "poll"
      BY <1>4, <2>1, <2>4, Zenon DEF ServerPoll
    <3>2. scredit_for_qp[r] < up.tx_depth
      <4>1. scredit_for_qp[r] <= up.tx_depth /\ scredit_for_qp[r] \in Int /\ up.tx_depth \in Int
        <5>1. Written(r)
          BY Zenon DEF Writes
        <5>2. scredit_for_qp[r] <= up.tx_depth
          BY <5>1, Zenon DEF Written
        <5>3. up \in Configs /\ scredit_for_qp[r] \in Int
          BY ServerTypes, Zenon
        <5>4. up.tx_depth \in Int
          BY <5>3, UpFacts
        <5> QED  BY <5>2, <5>3, <5>4, Zenon
      <4> QED  BY <2>4, <4>1
    <3>3. up.send_rcredit = ON
      BY <2>4, Zenon DEF CreditDue
    <3> QED  BY <2>1, <3>1, <3>2, <3>3, PostKeepsWrites, Zenon
  <2> QED  BY <2>2, <2>3, <2>4, Zenon
<1>5. ASSUME NEW r \in QP, ServerCreditReap(r) PROVE Writes'
  BY <1>5, ReapKeepsWrites, Zenon
<1>6. CASE ServerCreditPost
  <2>1. /\ wait_qp \in QP /\ spc = "credit" /\ spc' = "poll" /\ PostCredit(wait_qp)
        /\ scredit_for_qp[wait_qp] < up.tx_depth /\ UNCHANGED <<up, cflight, ccq, send_cnt>>
    BY <1>6, ServerTypes, Zenon DEF ServerCreditPost
  <2>2. up.send_rcredit = ON
    BY <2>1, Zenon DEF Writes
  <2> QED  BY <2>1, <2>2, PostKeepsWrites, Zenon
<1>7. CASE ServerLoopExit \/ \E r \in QP : ServerPollError(r)
  <2>1. /\ \E ret : GoCleaning(ret)
        /\ spc \in {"poll", "credit"}
        /\ UNCHANGED <<up, cpend, cflight, ccq, scredit_for_qp, tot_scredit>>
    BY <1>7, Zenon DEF ServerLoopExit, ServerPollError, creditVars
  <2> QED  BY <2>1, CleaningKeepsWrites, Zenon
<1>8. ASSUME NEW r \in QP, ServerClean(r) PROVE Writes'
  BY <1>8, CleanKeepsWrites, Zenon
<1>9. CASE ServerReturn \/ \E r \in QP : ServerCleanError(r)
  <2>1. /\ spc = "clean" /\ spc' \in {"done", "failed"} /\ (spc' = "done" => send_cnt = 0)
        /\ UNCHANGED <<up, cpend, cflight, ccq, scredit_for_qp, tot_scredit, send_cnt>>
    BY <1>9, Zenon DEF ServerReturn, ServerCleanError, creditVars
  <2>2. \A q \in QP : CreditsOut(q)' = CreditsOut(q)
    BY <2>1, Zenon DEF CreditsOut
  <2>3. \A q \in QP : Written(q)'
    BY <2>1, <2>2, Zenon DEF Writes, Written
  <2>4. [q \in QP |-> CreditsOut(q)'] = [q \in QP |-> CreditsOut(q)]
    BY <2>2, Zenon
  <2>5. SumsTo([q \in QP |-> CreditsOut(q)'], send_cnt') /\ SumsTo(scredit_for_qp', tot_scredit')
    BY <2>1, <2>4, Zenon DEF Writes
  <2> QED  BY <2>1, <2>3, <2>5, Zenon DEF Writes, SumsTo
<1> QED
  BY <1>1, <1>2, <1>3, <1>4, <1>5, <1>6, <1>7, <1>8, <1>9, Zenon
     DEF Next, Server, ServerWaits, ServerEnds, Adapters, Carry, Returned

LEMMA WritesInit == Init => Writes
<1> SUFFICES ASSUME Init PROVE Writes
  BY Zenon
<1>1. up.tx_depth \in Nat
  BY UpFacts, Zenon DEF Init
<1>2. ASSUME NEW q \in QP PROVE CreditsOut(q) = 0 /\ scredit_for_qp[q] = 0
  BY DEF Init, CreditsOut
<1>3. SumsTo([q \in QP |-> 0], 0 * NumQps) /\ 0 * NumQps = 0
  <2>1. SumsTo([q \in QP |-> 0], 0 * NumQps)
    BY SumConst, Zenon
  <2> QED  BY <2>1, NumQpsAssumption DEF Pos
<1>4. \A q \in QP : Written(q)
  BY <1>1, <1>2 DEF Written
<1> QED  BY <1>3, <1>4, Zenon DEF Init, Writes

-----------------------------------------------------------------------------
(* The server's receives.                                                  *)

LEMMA RPostedFits == ASSUME up \in Configs PROVE RPosted \in Nat /\ RPosted <= up.rx_depth
<1>1. PICK n \in Nat, M \in Nat \ {0} : n = up.rx_depth /\ M = up.recv_post_list
  BY UpFacts, Zenon
<1>2. n \div M \in Int /\ n % M \in 0..(M - 1) /\ n = (n \div M) * M + (n % M)
  BY DivMod
<1>3. (n \div M) * M <= n
  BY <1>2
<1> QED  BY <1>1, <1>3, RPostedNat, Zenon DEF RPosted

LEMMA SuppliedInit == ASSUME Init, NEW q \in QP PROVE Supplied(q)
<1>1. RPosted \in Nat /\ RPosted <= up.rx_depth /\ up.rx_depth \in Nat /\ up.iters \in Nat
  BY RPostedFits, UpFacts, Zenon DEF Init
<1>2. posted_per_qp[q] = RPosted /\ unused_recv_for_qp[q] = 0 /\ rcnt_for_qp[q] = 0
  BY Zenon DEF Init
<1> QED  BY <1>1, <1>2 DEF Supplied

LEMMA SuppliedNext ==
    ASSUME TypeOK, [Next]_vars, NEW q \in QP, Supplied(q) PROVE Supplied(q)'
<1>f. ASSUME UNCHANGED <<up, rcnt_for_qp, unused_recv_for_qp, posted_per_qp>> PROVE Supplied(q)'
  BY <1>f, Zenon DEF Supplied, RPosted
<1>1. CASE Client
  BY <1>1, <1>f, Zenon DEF Client, ClientTop, ClientPost, ClientNextQp, ClientPolls, ClientPollEmpty,
     ClientPoll, ClientPollError, serverVars
<1>2. CASE Break \/ UNCHANGED vars \/ \E r \in QP : Carry(r)
  BY <1>2, <1>f, Zenon DEF Break, Carry, Deliver, Ack, CreditFetch, CreditPlace, vars, serverVars
<1>3. CASE ServerLoopExit \/ ServerWaits \/ ServerEnds \/ \E r \in QP : ServerPollError(r)
  BY <1>3, <1>f, Zenon DEF ServerLoopExit, ServerWaits, ServerEnds, ServerPollError, ServerCreditPost,
     ServerCreditReap, Reap, ServerReturn, ServerClean, ServerCleanError
<1>4. ASSUME NEW r \in QP, ServerPoll(r) PROVE Supplied(q)'
  <2>t. /\ rcnt_for_qp \in [QP -> Nat] /\ unused_recv_for_qp \in [QP -> Nat]
        /\ posted_per_qp \in [QP -> Nat] /\ RPosted \in Nat
        /\ up.recv_post_list \in Nat /\ up.rx_depth \in Nat /\ up.iters \in Nat
    BY ServerTypes, UpFacts, RPostedFits, Zenon
  <2>1. /\ up' = up /\ rcnt_for_qp' = [rcnt_for_qp EXCEPT ![r] = @ + 1]
        /\ \/ /\ posted_per_qp[r] + up.recv_post_list <= up.iters
              /\ posted_per_qp' = [posted_per_qp EXCEPT ![r] = @ + up.recv_post_list]
              /\ unused_recv_for_qp' = [unused_recv_for_qp EXCEPT ![r] = @ + 1 - up.recv_post_list]
           \/ /\ posted_per_qp' = posted_per_qp
              /\ unused_recv_for_qp' = [unused_recv_for_qp EXCEPT ![r] = @ + 1]
    BY <1>4, Zenon DEF ServerPoll, Reposts
  <2>2. RPosted' = RPosted
    BY <2>1, Zenon DEF RPosted
  <2>3. CASE q # r
    <3>1. /\ rcnt_for_qp'[q] = rcnt_for_qp[q] /\ posted_per_qp'[q] = posted_per_qp[q]
          /\ unused_recv_for_qp'[q] = unused_recv_for_qp[q]
      BY <2>1, <2>3, <2>t, Zenon
    <3> QED  BY <2>1, <2>2, <3>1, Zenon DEF Supplied
  <2>4. CASE q = r
    <3>1. /\ rcnt_for_qp'[q] = rcnt_for_qp[q] + 1
          /\ \/ /\ posted_per_qp[q] + up.recv_post_list <= up.iters
                /\ posted_per_qp'[q] = posted_per_qp[q] + up.recv_post_list
                /\ unused_recv_for_qp'[q] = unused_recv_for_qp[q] + 1 - up.recv_post_list
             \/ /\ posted_per_qp'[q] = posted_per_qp[q]
                /\ unused_recv_for_qp'[q] = unused_recv_for_qp[q] + 1
      BY <2>1, <2>4, <2>t, Zenon
    <3>2. /\ rcnt_for_qp[q] \in Nat /\ unused_recv_for_qp[q] \in Nat /\ posted_per_qp[q] \in Nat
          /\ posted_per_qp[q] + unused_recv_for_qp[q] = RPosted + rcnt_for_qp[q]
          /\ posted_per_qp[q] <= IF up.rx_depth > up.iters THEN up.rx_depth ELSE up.iters
      BY <2>t, Zenon DEF Supplied
    <3>3. posted_per_qp'[q] + unused_recv_for_qp'[q] = RPosted + rcnt_for_qp'[q]
      BY <2>t, <3>1, <3>2
    <3>4. posted_per_qp'[q] <= IF up.rx_depth > up.iters THEN up.rx_depth ELSE up.iters
      BY <2>t, <3>1, <3>2
    <3> QED  BY <2>1, <2>2, <3>3, <3>4, Zenon DEF Supplied
  <2> QED  BY <2>3, <2>4, Zenon
<1> QED
  BY <1>1, <1>2, <1>3, <1>4, Zenon DEF Next, Server, Adapters, Returned

-----------------------------------------------------------------------------
(* What is left of the run, per QP and in all.                             *)

SendsLeft    == [q \in QP |-> up.iters - ccnt[q]]
ReceivesLeft == [q \in QP |-> up.iters - rcnt_for_qp[q]]

Left == SumsTo(SendsLeft, TotIters - totccnt) /\ SumsTo(ReceivesLeft, TotIters - rcnt)

LEMMA TotItersNat == ASSUME up \in Configs PROVE TotIters \in Nat
<1>1. up.iters \in Nat /\ NumQps \in Nat
  BY UpFacts, QpRange, Zenon
<1> QED  BY <1>1 DEF TotIters

(* One more of r's messages counted leaves one number of the sum, and the
   sum, smaller by as much. *)
LEMMA LeftShrinks ==
    ASSUME NEW n \in Nat, NEW T \in Int, NEW t \in Int, NEW c \in [QP -> Int],
           SumsTo([q \in QP |-> n - c[q]], T - t),
           NEW r \in QP, NEW d \in Int, c[r] + d <= n
    PROVE  SumsTo([q \in QP |-> n - [c EXCEPT ![r] = @ + d][q]], T - (t + d))
<1> DEFINE f == [q \in QP |-> n - c[q]]
           g == [q \in QP |-> n - [c EXCEPT ![r] = @ + d][q]]
<1>1. \A q \in QP : f[q] \in Int
  OBVIOUS
<1>2. g[r] = n - (c[r] + d) /\ f[r] = n - c[r] /\ c[r] \in Int
  BY Zenon
<1>3. g[r] \in Nat /\ g[r] - f[r] = -d
  BY <1>2
<1>4. \A q \in QP : q # r => g[q] = f[q]
  BY Zenon
<1>5. T - t \in Int /\ T - (t + d) \in Int /\ T - (t + d) = (T - t) + (g[r] - f[r])
  BY <1>3
<1>6. SumsTo(f, T - t)
  BY Zenon
<1> HIDE DEF f, g
<1>7. SumsTo(g, T - (t + d))
  BY <1>1, <1>3, <1>4, <1>5, <1>6, SumChange, Zenon
<1> QED  BY <1>7, Zenon DEF g

LEMMA LeftInit == Init => Left
<1> SUFFICES ASSUME Init PROVE Left
  BY Zenon
<1>1. up.iters \in Nat /\ TotIters \in Nat
  BY UpFacts, TotItersNat, Zenon DEF Init
<1>2. SumsTo([q \in QP |-> up.iters], up.iters * NumQps)
  BY <1>1, SumConst, Zenon
<1>3. SendsLeft = [q \in QP |-> up.iters] /\ ReceivesLeft = [q \in QP |-> up.iters]
  BY <1>1 DEF Init, SendsLeft, ReceivesLeft
<1>4. TotIters - totccnt = up.iters * NumQps /\ TotIters - rcnt = up.iters * NumQps
  BY <1>1 DEF Init, TotIters
<1> QED  BY <1>2, <1>3, <1>4, Zenon DEF Left

LEMMA LeftNext ==
    ASSUME TypeOK, InOrder, InOrder', TypeOK', Left, [Next]_vars,
           \A q \in QP : Queued(q) /\ Counted(q)
    PROVE  Left'
<1>t. /\ up \in Configs /\ ccnt \in [QP -> Int] /\ rcnt_for_qp \in [QP -> Int]
      /\ totccnt \in Int /\ rcnt \in Int /\ up.iters \in Nat /\ TotIters \in Int
  <2>1. up \in Configs /\ ccnt \in [QP -> Int] /\ totccnt \in Int
    BY ClientTypes, Zenon
  <2>2. rcnt_for_qp \in [QP -> Nat] /\ rcnt \in Nat
    BY ServerTypes, Zenon
  <2>3. rcnt_for_qp \in [QP -> Int] /\ rcnt \in Int
    BY <2>2
  <2>4. up.iters \in Nat /\ TotIters \in Nat
    BY <2>1, UpFacts, TotItersNat, Zenon
  <2> QED  BY <2>1, <2>3, <2>4
<1>f. ASSUME UNCHANGED <<up, ccnt, totccnt, rcnt, rcnt_for_qp>> PROVE Left'
  <2>1. SendsLeft' = SendsLeft /\ ReceivesLeft' = ReceivesLeft /\ TotIters' = TotIters
    BY <1>f, Zenon DEF SendsLeft, ReceivesLeft, TotIters
  <2> QED  BY <1>f, <2>1, Zenon DEF Left, SumsTo
<1>1. ASSUME NEW r \in QP, ClientPoll(r) PROVE Left'
  <2>1. /\ ccnt' = [ccnt EXCEPT ![r] = @ + Fill(r)] /\ totccnt' = totccnt + Fill(r)
        /\ UNCHANGED <<up, rcnt, rcnt_for_qp>> /\ scq[r] # <<>>
    BY <1>1, Zenon DEF ClientPoll, serverVars
  <2>2. /\ ccnt[r] + Fill(r) = Head(scq[r]) + 1
        /\ Head(scq[r]) \in ccnt[r]..(acked[r] - 1)
    BY <2>1, PollCounts, Zenon
  <2>3. acked[r] <= up.iters /\ acked[r] \in Nat
    <3>1. acked[r] <= delivered[r]
      BY Zenon DEF Counted
    <3>2. delivered[r] <= scnt[r]
      BY Zenon DEF InOrder
    <3>3. scnt[r] <= up.iters
      BY PostsWithinRun, Zenon
    <3>4. acked[r] \in Nat /\ delivered[r] \in Nat /\ scnt[r] \in Nat
      BY Numbers, Zenon
    <3> QED  BY <3>1, <3>2, <3>3, <3>4, <1>t
  <2>4. Fill(r) \in Int
    BY <1>t, UpFacts DEF Fill
  <2>5. ccnt[r] \in Int /\ Head(scq[r]) \in Int
    BY <1>t, <2>2, <2>3
  <2>6. ccnt[r] + Fill(r) <= up.iters
    BY <2>2, <2>3, <2>4, <2>5, <1>t
  <2>7. SumsTo([q \in QP |-> up.iters - ccnt[q]], TotIters - totccnt)
    BY Zenon DEF Left, SendsLeft
  <2>8. SumsTo([q \in QP |-> up.iters - [ccnt EXCEPT ![r] = @ + Fill(r)][q]],
               TotIters - (totccnt + Fill(r)))
    BY <1>t, <2>4, <2>6, <2>7, LeftShrinks, Zenon
  <2>9. /\ SendsLeft' = [q \in QP |-> up.iters - [ccnt EXCEPT ![r] = @ + Fill(r)][q]]
        /\ ReceivesLeft' = ReceivesLeft /\ TotIters' = TotIters
    BY <2>1 DEF SendsLeft, ReceivesLeft, TotIters
  <2> QED  BY <2>1, <2>8, <2>9, Zenon DEF Left, SumsTo
<1>2. ASSUME NEW r \in QP, ServerPoll(r) PROVE Left'
  <2>1. /\ rcnt_for_qp' = [rcnt_for_qp EXCEPT ![r] = @ + 1] /\ rcnt' = rcnt + 1
        /\ UNCHANGED <<up, ccnt, totccnt>> /\ rcnt_for_qp[r] < delivered[r]
    BY <1>2, Zenon DEF ServerPoll, clientVars
  <2>2. rcnt_for_qp[r] + 1 <= up.iters
    <3>1. delivered[r] <= scnt[r]
      BY Zenon DEF InOrder
    <3>2. scnt[r] <= up.iters
      BY PostsWithinRun, Zenon
    <3>3. rcnt_for_qp[r] \in Nat /\ delivered[r] \in Nat /\ scnt[r] \in Nat
      BY Numbers, Zenon
    <3> QED  BY <2>1, <3>1, <3>2, <3>3, <1>t
  <2>3. SumsTo([q \in QP |-> up.iters - rcnt_for_qp[q]], TotIters - rcnt)
    BY Zenon DEF Left, ReceivesLeft
  <2>4. SumsTo([q \in QP |-> up.iters - [rcnt_for_qp EXCEPT ![r] = @ + 1][q]],
               TotIters - (rcnt + 1))
    <3>1. 1 \in Int
      BY SMTT(30)
    <3> QED  BY <1>t, <2>2, <2>3, <3>1, LeftShrinks, Zenon
  <2>5. /\ ReceivesLeft' = [q \in QP |-> up.iters - [rcnt_for_qp EXCEPT ![r] = @ + 1][q]]
        /\ SendsLeft' = SendsLeft /\ TotIters' = TotIters
    BY <2>1, SMTT(20) DEF SendsLeft, ReceivesLeft, TotIters
  <2> QED  BY <2>1, <2>4, <2>5, Zenon DEF Left, SumsTo
<1>3. CASE \/ ClientTop \/ ClientPost \/ ClientNextQp \/ ClientPollEmpty
           \/ \E r \in QP : ClientPollError(r)
  BY <1>3, <1>f, Zenon DEF ClientTop, ClientPost, ClientNextQp, ClientPollEmpty, ClientPollError,
     serverVars
<1>4. CASE Break \/ UNCHANGED vars \/ \E r \in QP : Carry(r)
  BY <1>4, <1>f, Zenon DEF Break, Carry, Deliver, Ack, CreditFetch, CreditPlace, vars, serverVars,
     clientVars
<1>5. CASE ServerLoopExit \/ ServerWaits \/ ServerEnds \/ \E r \in QP : ServerPollError(r)
  BY <1>5, <1>f, Zenon DEF ServerLoopExit, ServerWaits, ServerEnds, ServerPollError, ServerCreditPost,
     ServerCreditReap, Reap, ServerReturn, ServerClean, ServerCleanError, clientVars
<1> QED
  BY <1>1, <1>2, <1>3, <1>4, <1>5, Zenon DEF Next, Client, ClientPolls, Server, Adapters, Returned

-----------------------------------------------------------------------------
(* The ends of the two loops.                                              *)

Done == /\ cpc = "done" => totccnt >= TotIters
        /\ spc \in {"clean", "done"} /\ sret = "SUCCESS" => rcnt >= TotIters
        /\ spc = "done" => sret = "SUCCESS"

LEMMA DoneNext == ASSUME TypeOK, Done, [Next]_vars PROVE Done'
<1>t. totccnt \in Int /\ rcnt \in Int /\ TotIters \in Int
  <2>1. up \in Configs /\ totccnt \in Int /\ rcnt \in Nat
    BY ClientTypes, ServerTypes, Zenon
  <2> QED  BY <2>1, TotItersNat
<1>f. ASSUME UNCHANGED <<up, cpc, totccnt, spc, sret, rcnt>> PROVE Done'
  BY <1>f, Zenon DEF Done, TotIters
<1>1. CASE ClientTop
  <2>1. /\ cpc' = "done" => totccnt >= TotIters
        /\ UNCHANGED <<up, totccnt, spc, sret, rcnt>>
    BY <1>1, <1>t DEF ClientTop, MoreToDo, serverVars
  <2> QED  BY <2>1, Zenon DEF Done, TotIters
<1>2. CASE ClientPost \/ ClientNextQp \/ ClientPolls
  <2>1. cpc' # "done" /\ UNCHANGED <<up, spc, sret, rcnt>>
    BY <1>2, Zenon DEF ClientPost, ClientNextQp, ClientPolls, ClientPollEmpty, ClientPoll,
       ClientPollError, serverVars
  <2> QED  BY <2>1, Zenon DEF Done, TotIters
<1>3. CASE Break \/ UNCHANGED vars \/ \E r \in QP : Carry(r)
  BY <1>3, <1>f, Zenon DEF Break, Carry, Deliver, Ack, CreditFetch, CreditPlace, vars, serverVars,
     clientVars
<1>4. CASE ServerLoopExit
  <2>1. rcnt >= TotIters /\ spc' = "clean" /\ UNCHANGED <<up, cpc, totccnt, rcnt>>
    BY <1>4, Zenon DEF ServerLoopExit, GoCleaning, clientVars
  <2> QED  BY <2>1, Zenon DEF Done, TotIters
<1>5. CASE \E r \in QP : ServerPollError(r)
  <2>1. sret' = "FAILURE" /\ spc' = "clean" /\ UNCHANGED <<up, cpc, totccnt, rcnt>>
    BY <1>5, Zenon DEF ServerPollError, GoCleaning, clientVars
  <2> QED  BY <2>1, Zenon DEF Done, TotIters
<1>6. CASE ServerWaits \/ \E r \in QP : ServerPoll(r)
  <2>1. spc' \in {"poll", "credit"} /\ UNCHANGED <<up, cpc, totccnt>>
    BY <1>6, Zenon DEF ServerWaits, ServerPoll, ServerCreditPost, ServerCreditReap, Reap, clientVars
  <2> QED  BY <2>1, Zenon DEF Done, TotIters
<1>7. CASE ServerEnds
  <2>1. /\ spc = "clean" /\ UNCHANGED <<up, cpc, totccnt, rcnt>>
        /\ \/ spc' = "failed"
           \/ spc' = "clean" /\ sret' = sret
           \/ spc' = "done" /\ sret' = sret /\ sret = "SUCCESS"
    BY <1>7, Zenon DEF ServerEnds, ServerReturn, ServerClean, ServerCleanError, clientVars
  <2> QED  BY <2>1, Zenon DEF Done, TotIters
<1> QED
  BY <1>1, <1>2, <1>3, <1>4, <1>5, <1>6, <1>7, Zenon DEF Next, Client, Server, Adapters, Returned

-----------------------------------------------------------------------------
(* The inductive invariant.                                                *)

LEMMA InvParts ==
    StreamInv <=> /\ TypeOK /\ InOrder /\ Writes /\ Left /\ Done
                  /\ \A q \in QP : Marked(q) /\ Queued(q) /\ Counted(q) /\ Supplied(q)
  BY Zenon DEF StreamInv, Totals, Ends, Writes, Left, SendsLeft, ReceivesLeft, Done

LEMMA InvPartsNext ==
    ASSUME TypeOK', InOrder', Writes', Left', Done',
           \A q \in QP : Marked(q)' /\ Queued(q)' /\ Counted(q)' /\ Supplied(q)'
    PROVE  StreamInv'
  BY Zenon DEF StreamInv, Totals, Ends, Writes, Left, SendsLeft, ReceivesLeft, Done

LEMMA InvInit == Init => StreamInv
<1> SUFFICES ASSUME Init PROVE StreamInv
  BY Zenon
<1>1. TypeOK /\ InOrder /\ Writes /\ Left
  BY TypeInit, OrderInit, WritesInit, LeftInit, Zenon
<1>2. Done
  BY Zenon DEF Init, Done
<1>3. \A q \in QP : Marked(q) /\ Queued(q) /\ Counted(q) /\ Supplied(q)
  BY CountInit, SuppliedInit, Zenon
<1> QED  BY <1>1, <1>2, <1>3, InvParts, Zenon

LEMMA InvNext == StreamInv /\ [Next]_vars => StreamInv'
<1> SUFFICES ASSUME StreamInv, [Next]_vars PROVE StreamInv'
  BY Zenon
<1>1. /\ TypeOK /\ InOrder /\ Writes /\ Left /\ Done
      /\ \A q \in QP : Marked(q) /\ Queued(q) /\ Counted(q) /\ Supplied(q)
  BY InvParts, Zenon
<1>2. TypeOK'
  BY <1>1, TypeNext, Zenon
<1>3. InOrder'
  BY <1>1, OrderNext, Zenon
<1>4. Writes'
  BY <1>1, <1>2, WritesNext, Zenon
<1>5. Left'
  BY <1>1, <1>2, <1>3, LeftNext, Zenon
<1>6. Done'
  BY <1>1, DoneNext, Zenon
<1>7. \A q \in QP : Marked(q)' /\ Queued(q)' /\ Counted(q)' /\ Supplied(q)'
  BY <1>1, <1>2, <1>3, CountNext, SuppliedNext, Zenon
<1> QED  BY <1>2, <1>3, <1>4, <1>5, <1>6, <1>7, InvPartsNext, Zenon

LEMMA InvHolds == Spec => []StreamInv
  BY InvInit, InvNext, PTL DEF Spec

(* Whatever the completion moderation, the length of the list and the length
   of the run, the polling loop of run_iter_bw adds to ccnt exactly the sends
   that the completions it took stand for. *)
THEOREM CountsAgree == Spec => []CountsWhatCompleted
<1>1. StreamInv => CountsWhatCompleted
  BY Zenon DEF StreamInv, Counted, CountsWhatCompleted
<1> QED  BY <1>1, InvHolds, PTL

(* What the parts of the invariant say about the queues of one QP. *)
LEMMA QueueBounds ==
    ASSUME StreamInv, NEW q \in QP
    PROVE  /\ scnt[q] - retired[q] <= up.tx_depth
           /\ posted_per_qp[q] - delivered[q] <= up.rx_depth
           /\ CreditsOut(q) <= up.tx_depth
<1>1. /\ TypeOK /\ InOrder /\ Writes
      /\ Counted(q) /\ Supplied(q) /\ Written(q)
  BY InvParts, Zenon DEF Writes
<1>2. /\ up \in Configs /\ scnt[q] \in Nat /\ retired[q] \in Nat /\ delivered[q] \in Nat
      /\ posted_per_qp[q] \in Nat /\ unused_recv_for_qp[q] \in Nat /\ rcnt_for_qp[q] \in Nat
      /\ scredit_for_qp[q] \in Int
  BY <1>1, Numbers, ServerTypes, Zenon
<1>3. up.tx_depth \in Nat /\ up.rx_depth \in Nat /\ RPosted \in Nat /\ RPosted <= up.rx_depth
  BY <1>2, UpFacts, RPostedFits, Zenon
<1>4. scnt[q] - retired[q] <= up.tx_depth
  <2>1. ccnt[q] = retired[q] /\ scnt[q] <= up.tx_depth + ccnt[q]
    BY <1>1, Zenon DEF Counted
  <2> QED  BY <1>2, <1>3, <2>1
<1>5. posted_per_qp[q] - delivered[q] <= up.rx_depth
  <2>1. posted_per_qp[q] + unused_recv_for_qp[q] = RPosted + rcnt_for_qp[q]
    BY <1>1, Zenon DEF Supplied
  <2>2. rcnt_for_qp[q] <= delivered[q]
    BY <1>1, Zenon DEF InOrder
  <2> QED  BY <1>2, <1>3, <2>1, <2>2
<1>6. CreditsOut(q) <= up.tx_depth
  <2>1. CreditsOut(q) \in Nat
    BY <1>1, OutNat, Zenon
  <2>2. CreditsOut(q) = scredit_for_qp[q] \/ CreditsOut(q) <= scredit_for_qp[q]
    BY <1>1, Zenon DEF Written
  <2>3. scredit_for_qp[q] <= up.tx_depth
    BY <1>1, Zenon DEF Written
  <2> QED  BY <1>2, <1>3, <2>1, <2>2, <2>3
<1> QED  BY <1>4, <1>5, <1>6, Zenon

(* Neither loop ever posts into a full queue: the client's sends stay within
   tx_depth, the server's receives within rx_depth, and its credit writes
   within the tx_depth of its own send queue. *)
THEOREM NoQueueOverflows == Spec => []QueuesFit
<1>1. StreamInv => QueuesFit
  BY QueueBounds, Zenon DEF QueuesFit, CreditsOut
<1> QED  BY <1>1, InvHolds, PTL

LEMMA ClientDone ==
    ASSUME StreamInv, cpc = "done", NEW q \in QP
    PROVE  scnt[q] = up.iters /\ acked[q] = up.iters
<1>1. TypeOK /\ InOrder /\ Left /\ Done /\ Counted(q)
  BY InvParts, Zenon
<1>2. /\ up \in Configs /\ scnt[q] \in Nat /\ acked[q] \in Nat /\ delivered[q] \in Nat
      /\ ccnt[q] \in Int /\ totccnt \in Int
  BY <1>1, Numbers, ClientTypes, Zenon
<1>3. up.iters \in Nat /\ TotIters \in Nat
  BY <1>2, UpFacts, TotItersNat, Zenon
<1>4. totccnt >= TotIters
  BY <1>1, Zenon DEF Done
<1>5. /\ TotIters - totccnt \in Int /\ TotIters - totccnt <= 0
      /\ SumsTo(SendsLeft, TotIters - totccnt) /\ SendsLeft[q] = up.iters - ccnt[q]
  BY <1>1, <1>2, <1>3, <1>4 DEF Left, SendsLeft
<1>6. SendsLeft[q] \in Int
  BY <1>2, <1>3, <1>5
<1>7. SendsLeft[q] = 0
  BY <1>5, <1>6, SumZero, Zenon
<1>8. ccnt[q] = up.iters
  BY <1>2, <1>3, <1>5, <1>7
<1>9. ccnt[q] <= acked[q] /\ acked[q] <= delivered[q] /\ delivered[q] <= scnt[q]
  BY <1>1, Zenon DEF Counted, InOrder
<1>10. scnt[q] <= up.iters
  BY <1>1, PostsWithinRun, Zenon
<1> QED  BY <1>2, <1>3, <1>8, <1>9, <1>10

(* The client reads its last time stamp, when it leaves the loop, with every
   message of every QP posted and acknowledged. *)
THEOREM ClockRight == Spec => []ClockStopsAfterLast
<1>1. StreamInv => ClockStopsAfterLast
  BY ClientDone, Zenon DEF ClockStopsAfterLast
<1> QED  BY <1>1, InvHolds, PTL

LEMMA ServerDone ==
    ASSUME StreamInv, spc = "done", NEW q \in QP
    PROVE  /\ cpend[q] = 0 /\ cflight[q] = <<>> /\ ccq[q] = 0
           /\ posted_per_qp[q] - delivered[q] <= IF up.rx_depth > up.iters THEN 1 ELSE 0
<1>1. TypeOK /\ InOrder /\ Writes /\ Left /\ Done /\ Supplied(q)
  BY InvParts, Zenon
<1>2. /\ up \in Configs /\ scnt[q] \in Nat /\ delivered[q] \in Nat
      /\ posted_per_qp[q] \in Nat /\ rcnt_for_qp[q] \in Nat /\ rcnt \in Nat
      /\ cpend[q] \in Nat /\ ccq[q] \in Nat /\ cflight[q] \in Seq(Nat)
  BY <1>1, Numbers, ServerTypes, Zenon
<1>3. /\ up.iters \in Nat /\ up.rx_depth \in Nat /\ up.rx_depth <= up.iters + 1
      /\ TotIters \in Nat
  BY <1>2, UpFacts, TotItersNat, Zenon
<1>4. CreditsOut(q) = 0
  <2>1. SumsTo([r \in QP |-> CreditsOut(r)], 0)
    BY <1>1, Zenon DEF Writes
  <2>2. CreditsOut(q) \in Nat
    BY <1>1, OutNat, Zenon
  <2> DEFINE f == [r \in QP |-> CreditsOut(r)]
  <2>3. f[q] = CreditsOut(q)
    BY Zenon
  <2>4. SumsTo(f, 0)
    BY <2>1, Zenon
  <2> HIDE DEF f
  <2>5. 0 \in Int /\ 0 <= 0 /\ f[q] \in Int
    BY <2>2, <2>3
  <2> QED  BY <2>3, <2>4, <2>5, SumZero, Zenon
<1>5. cpend[q] = 0 /\ cflight[q] = <<>> /\ ccq[q] = 0
  <2>1. PICK w \in Nat : w = Len(cflight[q])
    BY <1>2
  <2>2. cpend[q] + w + ccq[q] = 0
    BY <1>4, <2>1, Zenon DEF CreditsOut
  <2>3. cpend[q] = 0 /\ w = 0 /\ ccq[q] = 0
    BY <1>2, <2>2
  <2>4. \A s \in Seq(Nat) : Len(s) = 0 => s = <<>>
    OBVIOUS
  <2>5. cflight[q] = <<>>
    BY <1>2, <2>1, <2>3, <2>4, Zenon
  <2> QED  BY <2>3, <2>5, Zenon
<1>6. delivered[q] = up.iters
  <2>1. rcnt >= TotIters
    BY <1>1, Zenon DEF Done
  <2>2. /\ TotIters - rcnt \in Int /\ TotIters - rcnt <= 0
        /\ SumsTo(ReceivesLeft, TotIters - rcnt) /\ ReceivesLeft[q] = up.iters - rcnt_for_qp[q]
    BY <1>1, <1>2, <1>3, <2>1 DEF Left, ReceivesLeft
  <2>3. ReceivesLeft[q] \in Int
    BY <1>2, <1>3, <2>2
  <2>4. ReceivesLeft[q] = 0
    BY <2>2, <2>3, SumZero, Zenon
  <2>5. rcnt_for_qp[q] <= delivered[q] /\ delivered[q] <= scnt[q]
    BY <1>1, Zenon DEF InOrder
  <2>6. scnt[q] <= up.iters
    BY <1>1, PostsWithinRun, Zenon
  <2> QED  BY <1>2, <1>3, <2>2, <2>4, <2>5, <2>6, SMTT(30)
<1>7. posted_per_qp[q] <= IF up.rx_depth > up.iters THEN up.rx_depth ELSE up.iters
  BY <1>1, Zenon DEF Supplied
<1>8. posted_per_qp[q] - delivered[q] <= IF up.rx_depth > up.iters THEN 1 ELSE 0
  BY <1>2, <1>3, <1>6, <1>7
<1> QED  BY <1>5, <1>8, Zenon

(* A server that returns SUCCESS leaves the next message size nothing: every
   credit write has completed and been polled, and at most the one receive
   that rounding rx_depth up added is still posted. *)
THEOREM CleanEnd == Spec => []NothingOutlivesRun
<1>1. StreamInv => NothingOutlivesRun
  BY ServerDone, Zenon DEF NothingOutlivesRun
<1> QED  BY <1>1, InvHolds, PTL

-----------------------------------------------------------------------------
(* The configurations: what force_dependecies settles is what the theorems  *)
(* above assume.                                                           *)

LEMMA WholeLists ==
    ASSUME NEW n \in Nat \ {0}, NEW l \in Nat \ {0}, l > 1 => n % l = 0
    PROVE  (\E k \in 0..n : n = k * l) /\ l <= n /\ n % l = 0
<1>1. CASE l = 1
  <2>1. n % 1 = 0
    OBVIOUS
  <2> QED  BY <1>1, <2>1
<1>2. CASE l > 1
  <2>1. PICK k \in Int : n = k * l
    BY <1>2, IsMultiple, Zenon
  <2>2. k > 0
    <3>1. CASE k <= 0
      <4>1. k * l <= 0
        BY <3>1
      <4> QED  BY <2>1, <4>1
    <3> QED  BY <3>1
  <2>3. k <= k * l /\ l <= k * l
    <3>1. (k - 1) * l >= 0 /\ k * (l - 1) >= 0
      BY <2>2
    <3> QED  BY <3>1
  <2> QED  BY <1>2, <2>1, <2>2, <2>3
<1> QED  BY <1>1, <1>2

LEMMA SmallerNat ==
    ASSUME NEW a \in Nat \ {0}, NEW b \in Nat \ {0}
    PROVE  Smaller(a, b) \in Nat \ {0} /\ Smaller(a, b) <= a /\ Smaller(a, b) <= b
  BY DEF Smaller

(* The rules that come before those of the lists. *)
LEMMA BeforeListsSettles ==
    ASSUME NEW r \in Request
    PROVE  LET b == BeforeLists(r) IN
           /\ b \in Request /\ b.iters = r.iters
           /\ b.tx_depth <= b.iters /\ b.rx_depth <= b.iters /\ b.cq_mod <= b.tx_depth
<1> DEFINE c == ClampDepths(r)
           a == IF c.large_size /\ ~c.run_all /\ ~c.use_event /\ ~c.req_cq_mod
                THEN DISABLED_CQ_MOD_VALUE ELSE c.cq_mod
<1>1. /\ r.iters \in Nat \ {0} /\ r.tx_depth \in Nat \ {0} /\ r.rx_depth \in Nat \ {0}
  BY Zenon DEF Request
<1>2. /\ Smaller(r.tx_depth, r.iters) \in Nat \ {0} /\ Smaller(r.tx_depth, r.iters) <= r.iters
      /\ Smaller(r.rx_depth, r.iters) \in Nat \ {0} /\ Smaller(r.rx_depth, r.iters) <= r.iters
  BY <1>1, SmallerNat, Zenon
<1>3. /\ c \in Request /\ c.iters = r.iters
      /\ c.tx_depth = Smaller(r.tx_depth, r.iters) /\ c.rx_depth = Smaller(r.rx_depth, r.iters)
  BY <1>2, Zenon DEF ClampDepths, Request
<1>4. a \in Nat \ {0} /\ c.tx_depth \in Nat \ {0}
  BY <1>3, DisabledAssumption, Zenon DEF Request
<1>5. BeforeLists(r) = [c EXCEPT !.cq_mod = Smaller(a, c.tx_depth)]
  BY Zenon DEF BeforeLists, ModerationRule
<1> HIDE DEF a, c
<1>6. Smaller(a, c.tx_depth) \in Nat \ {0} /\ Smaller(a, c.tx_depth) <= c.tx_depth
  BY <1>4, SmallerNat, Zenon
<1> QED  BY <1>2, <1>3, <1>5, <1>6 DEF Request

(* The configuration in terms of what those rules leave: a list brings its
   own moderation, and the receive queue may get one entry more. *)
LEMMA ListRulesSettle ==
    ASSUME NEW r \in Request, NEW b \in Request, b = BeforeLists(r)
    PROVE  LET p == Settle(r) IN
           /\ p \in Config
           /\ p.iters = b.iters /\ p.tx_depth = b.tx_depth
           /\ p.post_list = b.post_list /\ p.recv_post_list = b.recv_post_list
           /\ p.rx_depth = b.rx_depth \/ p.rx_depth = b.rx_depth + 1
           /\ p.cq_mod = IF b.post_list > 1 /\ ~b.req_cq_mod THEN b.post_list ELSE b.cq_mod
           /\ p.fill_count = OFF =>
                  /\ p.cq_mod >= p.tx_depth => p.iters % p.tx_depth = 0
                  /\ p.cq_mod <  p.tx_depth => p.iters % p.cq_mod = 0
<1> DEFINE l == PostListRule(b)
           s == EvenRxDepth(l)
           p == Settle(r)
<1>1. /\ l \in Request /\ l.iters = b.iters /\ l.tx_depth = b.tx_depth
      /\ l.rx_depth = b.rx_depth
      /\ l.post_list = b.post_list /\ l.recv_post_list = b.recv_post_list
      /\ l.cq_mod = IF b.post_list > 1 /\ ~b.req_cq_mod THEN b.post_list ELSE b.cq_mod
  BY Zenon DEF PostListRule, Request
<1> HIDE DEF l
<1>2. /\ s \in Request /\ s.iters = l.iters /\ s.tx_depth = l.tx_depth
      /\ s.rx_depth = l.rx_depth \/ s.rx_depth = l.rx_depth + 1
      /\ s.post_list = l.post_list /\ s.recv_post_list = l.recv_post_list
      /\ s.cq_mod = l.cq_mod
  BY <1>1 DEF EvenRxDepth, Request
<1>3. p = [iters |-> s.iters, tx_depth |-> s.tx_depth, rx_depth |-> s.rx_depth,
           cq_mod |-> s.cq_mod, post_list |-> s.post_list, recv_post_list |-> s.recv_post_list,
           fill_count |-> IF FillCount(s) THEN 1 ELSE 0, send_rcredit |-> s.send_rcredit]
  BY Zenon DEF Settle, l
<1> HIDE DEF s, p
<1>4. p \in Config
  BY <1>2, <1>3, Zenon DEF Config, Request, Pos, Switch, ON, OFF
<1>5. p.fill_count = OFF => ~FillCount(s)
  BY <1>3 DEF OFF
<1>6. /\ p.iters = s.iters /\ p.tx_depth = s.tx_depth /\ p.rx_depth = s.rx_depth
      /\ p.cq_mod = s.cq_mod /\ p.post_list = s.post_list
      /\ p.recv_post_list = s.recv_post_list
  BY <1>3, Zenon
<1>7. p.fill_count = OFF => /\ p.cq_mod >= p.tx_depth => p.iters % p.tx_depth = 0
                            /\ p.cq_mod <  p.tx_depth => p.iters % p.cq_mod = 0
  BY <1>5, <1>6, Zenon DEF FillCount
<1>8. /\ p.iters = b.iters /\ p.tx_depth = b.tx_depth
      /\ p.post_list = b.post_list /\ p.recv_post_list = b.recv_post_list
      /\ p.rx_depth = b.rx_depth \/ p.rx_depth = b.rx_depth + 1
      /\ p.cq_mod = IF b.post_list > 1 /\ ~b.req_cq_mod THEN b.post_list ELSE b.cq_mod
  BY <1>1, <1>2, <1>6, Zenon
<1> QED  BY <1>4, <1>7, <1>8, Zenon DEF p

(* Every command line that force_dependecies accepts gives the loops what
   ConfigsAssumption asks of them: a moderation within the run that divides a
   send list and, unless fill_count is on, the run; a receive queue at most
   one entry deeper than the run is long; and lists that divide the run.  The
   fit of the credit window in 32 bits is all that is left to assume. *)
THEOREM SettledFits ==
    ASSUME NEW r \in Request, ~Rejected(r)
    PROVE  /\ Settle(r) \in Config
           /\ Moderated(Settle(r)) /\ DepthFits(Settle(r)) /\ ListsDivide(Settle(r))
<1>1. PICK b \in Request :
          /\ b = BeforeLists(r) /\ b.iters = r.iters
          /\ b.tx_depth <= b.iters /\ b.rx_depth <= b.iters /\ b.cq_mod <= b.tx_depth
  BY BeforeListsSettles, Zenon
<1>2. PICK p : p = Settle(r)
  BY Zenon
<1>3. /\ p \in Config
      /\ p.iters = b.iters /\ p.tx_depth = b.tx_depth
      /\ p.post_list = b.post_list /\ p.recv_post_list = b.recv_post_list
      /\ p.rx_depth = b.rx_depth \/ p.rx_depth = b.rx_depth + 1
      /\ p.cq_mod = IF b.post_list > 1 /\ ~b.req_cq_mod THEN b.post_list ELSE b.cq_mod
      /\ p.fill_count = OFF => /\ p.cq_mod >= p.tx_depth => p.iters % p.tx_depth = 0
                               /\ p.cq_mod <  p.tx_depth => p.iters % p.cq_mod = 0
  BY <1>1, <1>2, ListRulesSettle, Zenon
<1>4. /\ b.post_list > 1 => b.iters % b.post_list = 0
      /\ b.post_list > 1 /\ b.req_cq_mod => b.post_list % b.cq_mod = 0
      /\ b.recv_post_list > 1 => b.iters % b.recv_post_list = 0
  BY <1>1, Zenon DEF Rejected
<1>5. PICK n \in Nat \ {0}, tx \in Nat \ {0}, rx \in Nat \ {0}, m \in Nat \ {0},
           pl \in Nat \ {0}, rpl \in Nat \ {0} :
          /\ n = b.iters /\ tx = b.tx_depth /\ rx = b.rx_depth /\ m = b.cq_mod
          /\ pl = b.post_list /\ rpl = b.recv_post_list
  BY Zenon DEF Request
<1>6. /\ (\E k \in 0..n : n = k * pl) /\ pl <= n /\ n % pl = 0
      /\ (\E k \in 0..n : n = k * rpl)
  <2>1. (pl > 1 => n % pl = 0) /\ (rpl > 1 => n % rpl = 0)
    BY <1>4, <1>5, Zenon
  <2>2. (\E k \in 0..n : n = k * pl) /\ pl <= n /\ n % pl = 0
    BY <2>1, WholeLists, Zenon
  <2>3. \E k \in 0..n : n = k * rpl
    BY <2>1, WholeLists, Zenon
  <2> QED  BY <2>2, <2>3, Zenon
<1>7. ListsDivide(p)
  BY <1>3, <1>5, <1>6, Zenon DEF ListsDivide
<1>8. DepthFits(p)
  BY <1>1, <1>3, <1>5 DEF DepthFits
<1>9. Moderated(p)
  <2>1. CASE b.post_list > 1 /\ ~b.req_cq_mod
    <3>1. p.cq_mod = pl /\ p.post_list = pl /\ p.iters = n
      BY <1>3, <1>5, <2>1, Zenon
    <3>2. pl % pl = 0
      <4>1. (0 + 1 * pl) % pl = 0
        BY ModShift
      <4> QED  BY <4>1
    <3> QED  BY <1>6, <3>1, <3>2, Zenon DEF Moderated
  <2>2. CASE ~(b.post_list > 1 /\ ~b.req_cq_mod)
    <3>1. p.cq_mod = m /\ p.post_list = pl /\ p.iters = n /\ p.tx_depth = tx /\ m <= tx /\ tx <= n
      BY <1>1, <1>3, <1>5, <2>2, Zenon
    <3>2. pl > 1 => pl % m = 0
      BY <1>4, <1>5, <2>2, Zenon
    <3>3. p.fill_count = OFF => n % m = 0
      <4>1. p.fill_count = OFF => (m >= tx => n % tx = 0) /\ (m < tx => n % m = 0)
        BY <1>3, <3>1, Zenon
      <4> QED  BY <3>1, <4>1
    <3>4. m <= n
      BY <3>1
    <3> QED  BY <3>1, <3>2, <3>3, <3>4, Zenon DEF Moderated
  <2> QED  BY <2>1, <2>2, Zenon
<1> QED  BY <1>2, <1>3, <1>7, <1>8, <1>9, Zenon
=============================================================================
