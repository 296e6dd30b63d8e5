------------------------------- MODULE RdmaCm -------------------------------
(***************************************************************************)
(* The connections of -R: create_rdma_cm_connection on both machines, the  *)
(* event loops it waits in, the client's retries, and the disconnection in *)
(* destroy_ctx.  A client id and the server id made for its request are    *)
(* one connection and share a number.  The rdma_cm library is external:    *)
(* "due" holds what it has still to report, in no order, "chan" the event  *)
(* channel of each machine, and cm what became of each id.                 *)
(*                                                                         *)
(* conn is "RC", "UD" (one direction) or "UDX" (UD with -b or a latency    *)
(* test, where the client sends its QP number to the server in a message). *)
(***************************************************************************)
EXTENDS Integers, FiniteSets, SequencesExt

CONSTANTS num_of_qps,   \* -q
          max_retries,  \* 10 in rdma_cm_client_connection
          Conns         \* the connection types tried

ASSUME RdmaCmAssumption == /\ num_of_qps \in Nat \ {0}
                           /\ max_retries \in Nat \ {0}
                           /\ Conns \subseteq {"RC", "UD", "UDX"}

VARIABLES conn, client, server, cm, due, chan

vars == <<conn, client, server, cm, due, chan>>

Nodes == 1 .. num_of_qps
Ids   == 1 .. (num_of_qps * max_retries)
NULL  == 0

Ev(side, type, x) == [side |-> side, type |-> type, id |-> x]
Named(f)  == {f[i] : i \in Nodes} \ {NULL}
Up(m)     == Cardinality({i \in Nodes : m.connected[i]})

-----------------------------------------------------------------------------
(* The library: what it still has to say, and what its calls change.        *)

Outcomes(type) == CASE type = "ADDR"    -> {"ADDR_RESOLVED", "ADDR_ERROR"}
                  [] type = "ROUTE"   -> {"ROUTE_RESOLVED", "ROUTE_ERROR"}
                  [] OTHER            -> {type}

Says(side, type, x) == chan' = [chan EXCEPT ![side] = Append(@, [type |-> type, id |-> x])]

\* Two events of one connection reach a machine in the order they happened.
InOrder(e) == e.type = "DISCONNECTED" => Ev(e.side, "ESTABLISHED", e.id) \notin due

Deliver(e) ==
    /\ e \in due /\ e.type # "REQUEST" /\ InOrder(e)
    /\ due' = due \ {e}
    /\ \E t \in Outcomes(e.type) : Says(e.side, t, e.id)
    /\ UNCHANGED <<conn, client, server, cm>>

\* A request reaches the listener, or is refused because there is none.
DeliverRequest(e) ==
    /\ e \in due /\ e.type = "REQUEST"
    /\ due' = due \ {e}
    /\ IF server.listening
       THEN /\ cm' = [cm EXCEPT ![e.id] = "asked"]
            /\ Says("server", "CONNECT_REQUEST", e.id)
       ELSE Says("client", "REJECTED", e.id) /\ UNCHANGED cm
    /\ UNCHANGED <<conn, client, server>>

\* A request the server has not answered in time.
Unanswered(x) ==
    /\ cm[x] = "asked"
    /\ cm' = [cm EXCEPT ![x] = "lost"]
    /\ due' = due \cup {Ev("client", "UNREACHABLE", x)}
    /\ UNCHANGED <<conn, client, server, chan>>

\* rdma_destroy_id on the client ids D: their events are dropped, and a
\* connected peer is told.
Destroyed(D) ==
    /\ cm' = [x \in Ids |-> IF x \in D THEN "closed" ELSE cm[x]]
    /\ due' = {e \in due : ~(e.id \in D /\ (e.side = "client" \/ e.type = "REQUEST"))}
              \cup {Ev("server", "REJECTED", x) :
                        x \in {y \in D : conn = "RC" /\ cm[y] = "accepted"}}
              \cup {Ev("server", "DISCONNECTED", x) :
                        x \in {y \in D : conn = "RC" /\ cm[y] = "up"}}
    /\ chan' = [chan EXCEPT !["client"] = SelectSeq(@, LAMBDA e : e.id \notin D)]

-----------------------------------------------------------------------------
Machine == [pc |-> "alloc", cma_id |-> [i \in Nodes |-> NULL],
            connected |-> [i \in Nodes |-> FALSE], qp |-> [i \in Nodes |-> NULL],
            ah |-> [i \in Nodes |-> NULL],
            connects_left |-> num_of_qps, disconnects_left |-> 0]

Init == /\ conn \in Conns
        /\ client = Machine @@ [try |-> 1, slips |-> {}]
        /\ server = Machine @@ [connection_index |-> 1, listening |-> FALSE, ud |-> NULL]
        /\ cm = [x \in Ids |-> "none"]
        /\ due = {} /\ chan = [s \in {"client", "server"} |-> <<>>]

-----------------------------------------------------------------------------
(* The client.                                                              *)

FreshId(i) == (client.try - 1) * num_of_qps + i

\* rdma_cm_allocate_nodes: an id for every node that has none.
AllocateNodes ==
    LET Want == {i \in Nodes : client.cma_id[i] = NULL}
    IN /\ client.pc = "alloc"
       /\ client' = [client EXCEPT
              !.cma_id = [i \in Nodes |-> IF i \in Want THEN FreshId(i) ELSE @[i]],
              !.pc = IF client.try = 1 THEN "hs1" ELSE "resolve"]
       /\ cm' = [x \in Ids |-> IF x \in {FreshId(i) : i \in Want} THEN "new" ELSE cm[x]]
       /\ UNCHANGED <<conn, server, due, chan>>

\* Creating the id of node k fails: the ids before it are destroyed but not
\* forgotten, and the caller destroys what the nodes still name.
AllocateNodesFails ==
    /\ client.pc = "alloc"
    /\ \E k \in Nodes :
         LET Made == {i \in 1 .. k - 1 : client.cma_id[i] = NULL}
             Kept == Named(client.cma_id) \cup {FreshId(i) : i \in Made}
         IN /\ client.cma_id[k] = NULL
            /\ Destroyed(Kept)
            /\ client' = [client EXCEPT !.pc = "failed", !.slips = @ \cup {"create_id"}]
    /\ UNCHANGED <<conn, server>>

\* ctx_hand_shake before the connection: both machines have their nodes.
HandShake1 ==
    /\ client.pc = "hs1" /\ server.pc = "hs1"
    /\ client' = [client EXCEPT !.pc = "resolve"]
    /\ server' = [server EXCEPT !.pc = "listen"]
    /\ UNCHANGED <<conn, cm, due, chan>>

\* _rdma_cm_client_connection: an address is resolved for every node that is
\* not connected; the call may fail at node k.
ClientConnection ==
    LET Want == {i \in Nodes : ~client.connected[i]}
    IN /\ client.pc = "resolve"
       /\ \/ /\ due' = due \cup {Ev("client", "ADDR", client.cma_id[i]) : i \in Want}
             /\ client' = [client EXCEPT !.pc = "events"]
          \/ \E k \in Want :
                /\ due' = due \cup {Ev("client", "ADDR", client.cma_id[i]) :
                                       i \in {j \in Want : j < k}}
                /\ client' = [client EXCEPT !.pc = "retry", !.connects_left = @ - 1]
       /\ UNCHANGED <<conn, server, cm, chan>>

ClientEvent(type) ==
    /\ client.pc \in {"events", "draining"}
    /\ chan["client"] # <<>> /\ Head(chan["client"]).type = type
    /\ chan' = [chan EXCEPT !["client"] = Tail(@)]

ClientId    == Head(chan["client"]).id
NodeOf(m, x) == CHOOSE i \in Nodes : m.cma_id[i] = x

\* rdma_cm_connect_events, rdma_cm_disconnect_nodes: after an event.
Waiting(m) == IF m.pc = "events"   THEN IF m.connects_left = 0 THEN "hs2" ELSE "events"
              ELSE IF m.disconnects_left = 0 THEN "destroy" ELSE "draining"
Looped(m)  == [m EXCEPT !.pc = Waiting(m)]
\* rdma_cm_connect_error, and the loop is left.
GaveUp(m)  == [m EXCEPT !.connects_left = @ - 1,
                        !.pc = IF m.pc = "events" THEN "retry" ELSE "destroy"]

address_handler ==
    /\ ClientEvent("ADDR_RESOLVED")
    /\ \/ /\ due' = due \cup {Ev("client", "ROUTE", ClientId)}     \* rdma_resolve_route
          /\ client' = Looped(client)
       \/ client' = GaveUp(client) /\ UNCHANGED due
       \/ client' = [client EXCEPT !.pc = "retry"] /\ UNCHANGED due    \* the ToS option
    /\ UNCHANGED <<conn, server, cm>>

\* rdma_cm_route_handler: the queue pair is made on the first id that gets
\* this far; when rdma_connect fails the id is gone and the queue pair stays.
route_handler ==
    LET x == ClientId
        i == NodeOf(client, x)
        Made == [client EXCEPT !.qp[i] = IF @ = NULL THEN x ELSE @]
    IN /\ ClientEvent("ROUTE_RESOLVED")
       /\ \/ /\ client' = Looped(Made)                        \* rdma_connect
             /\ cm' = [cm EXCEPT ![x] = "asking"]
             /\ due' = due \cup {Ev("client", "REQUEST", x)}
          \/ client' = GaveUp(client) /\ UNCHANGED <<cm, due>>
          \/ /\ client' = GaveUp([Made EXCEPT !.cma_id[i] = NULL,
                                              !.slips = @ \cup {"rdma_connect"}])
             /\ cm' = [cm EXCEPT ![x] = "closed"]
             /\ UNCHANGED due
       /\ UNCHANGED <<conn, server>>

\* rdma_cm_connection_established_handler on the client.  For UD the address
\* handle goes to the entry named by the count of connections so far, and is
\* announced to the server from that entry's queue pair.
Index == client.disconnects_left + 1
Established ==
    LET x == ClientId
        i == NodeOf(client, x)
    IN [client EXCEPT !.connected[i] = TRUE, !.connects_left = @ - 1,
                      !.disconnects_left = @ + 1,
                      !.ah[Index] = IF conn = "RC" THEN NULL ELSE x,
                      !.slips = IF conn # "RC" /\ i # Index THEN @ \cup {"ud_order"} ELSE @]
\* rdma_cm_send_ud_connection_parameters.
SendUd == IF conn = "UDX" THEN [server EXCEPT !.ud = Index] ELSE server
client_established ==
    /\ ClientEvent("ESTABLISHED")
    /\ \/ /\ client' = Looped(Established)
          /\ cm' = [cm EXCEPT ![ClientId] = IF @ = "accepted" THEN "up" ELSE @]
          /\ due' = IF conn = "RC" /\ cm[ClientId] = "accepted"
                    THEN due \cup {Ev("server", "ESTABLISHED", ClientId)} ELSE due
          /\ server' = SendUd
       \/ /\ conn # "RC"                                      \* no address handle
          /\ client' = GaveUp(client) /\ UNCHANGED <<cm, due, server>>
    /\ UNCHANGED conn

\* rdma_cm_event_error_handler.
client_event_error ==
    /\ \E t \in {"ADDR_ERROR", "ROUTE_ERROR", "UNREACHABLE", "REJECTED"} : ClientEvent(t)
    /\ client' = GaveUp(client)
    /\ UNCHANGED <<conn, server, cm, due>>

client_disconnected ==
    /\ ClientEvent("DISCONNECTED")
    /\ client' = Looped([client EXCEPT !.disconnects_left = @ - 1])
    /\ UNCHANGED <<conn, server, cm, due>>

\* rdma_cm_destroy_cma, then the next attempt or the end: what is not
\* connected is released, and what is connected is kept for the retry.
Dropped == {i \in Nodes : client.cma_id[i] # NULL /\ ~client.connected[i]}
Clear(f, D) == [i \in Nodes |-> IF i \in D THEN NULL ELSE f[i]]
destroy_cma_Uncounted == [client EXCEPT !.cma_id = Clear(@, Dropped),
                              !.qp = Clear(@, Dropped), !.ah = Clear(@, Dropped)]
destroy_cma == [client EXCEPT !.cma_id = Clear(@, Dropped), !.qp = Clear(@, Dropped),
                              !.ah = Clear(@, Dropped),
                              !.connects_left = num_of_qps - Up(client)]
Retry ==
    /\ client.pc = "retry" /\ client.try < max_retries
    /\ Destroyed({client.cma_id[i] : i \in Dropped})
    /\ client' = [destroy_cma EXCEPT !.pc = "alloc", !.try = @ + 1]
    /\ UNCHANGED <<conn, server>>

\* The label destroy_rdma_id of create_rdma_cm_connection.
ClientFails ==
    /\ \/ client.pc = "retry" /\ client.try = max_retries
       \/ client.pc \in {"hs1", "hs2"} /\ server.pc = "failed"
    /\ Destroyed(Named(client.cma_id))
    /\ client' = [client EXCEPT !.cma_id = [i \in Nodes |-> NULL], !.pc = "failed"]
    /\ UNCHANGED <<conn, server>>

-----------------------------------------------------------------------------
(* The server.                                                              *)

\* The event channel and the array of nodes.
ServerNodes ==
    /\ server.pc = "alloc"
    /\ \E p \in {"hs1", "failed"} : server' = [server EXCEPT !.pc = p]
    /\ UNCHANGED <<conn, client, cm, due, chan>>

\* rdma_cm_server_connection up to rdma_listen.
ServerListen ==
    /\ server.pc = "listen"
    /\ \/ server' = [server EXCEPT !.pc = "events", !.listening = TRUE]
       \/ server' = [server EXCEPT !.pc = "failed"]
    /\ UNCHANGED <<conn, client, cm, due, chan>>

ServerEvent(type) ==
    /\ server.pc \in {"events", "draining"}
    /\ chan["server"] # <<>> /\ Head(chan["server"]).type = type

\* After an event of the connect loop.  When the loop ends the listening id is
\* destroyed, and with it the requests it still holds.
ServerGoesOn(m, newcm, more) ==
    LET n == Looped(m)
        Rest == Tail(chan["server"])
        Left == {x \in Ids : newcm[x] = "asked"}
    IN IF n.pc = "hs2"
       THEN /\ server' = [n EXCEPT !.listening = FALSE]
            /\ chan' = [chan EXCEPT !["server"] =
                           SelectSeq(Rest, LAMBDA e : e.type # "CONNECT_REQUEST")]
            /\ cm' = [x \in Ids |-> IF x \in Left THEN "lost" ELSE newcm[x]]
            /\ due' = due \cup more \cup {Ev("client", "REJECTED", x) : x \in Left}
       ELSE /\ server' = n
            /\ chan' = [chan EXCEPT !["server"] = Rest]
            /\ cm' = newcm /\ due' = due \cup more

\* The server leaves with an error: its ids go with it.
ServerFails ==
    LET At(S) == {x \in Ids : cm[x] \in S}
    IN /\ server' = [server EXCEPT !.pc = "failed", !.listening = FALSE]
       /\ chan' = [chan EXCEPT !["server"] = <<>>]
       /\ cm' = [x \in Ids |-> IF x \in At({"asked", "accepted", "up"}) THEN "lost" ELSE cm[x]]
       /\ due' = {e \in due : e.side = "client"}
                 \cup {Ev("client", "REJECTED", x) : x \in At({"asked"})}
                 \cup {Ev("client", "DISCONNECTED", x) :
                           x \in IF conn = "RC" THEN At({"accepted", "up"}) ELSE {}}

\* The last lines of rdma_cm_connection_request_handler.
Counted(m) == [m EXCEPT !.connected[m.connection_index] = TRUE,
                        !.connection_index = @ + 1,
                        !.connects_left = @ - 1, !.disconnects_left = @ + 1]

\* rdma_cm_request_ud_connection_parameters: a receive for the message.
RequestUd(m) == [m EXCEPT !.ud = NULL]

\* rdma_cm_connection_request_handler.  For "UDX" it then polls the receive
\* queue until the client's message comes, whatever becomes of the client.
request_handler ==
    LET x == Head(chan["server"]).id
        k == server.connection_index
        m == [server EXCEPT !.cma_id[k] = x, !.qp[k] = x]
        Answer == [cm EXCEPT ![x] = IF @ = "asked" THEN "accepted" ELSE @]
        Reply == IF cm[x] = "asked" THEN {Ev("client", "ESTABLISHED", x)}
                 ELSE IF conn = "RC" THEN {Ev("server", "REJECTED", x)} ELSE {}
    IN /\ ServerEvent("CONNECT_REQUEST")
       /\ \/ /\ conn # "UDX"
             /\ ServerGoesOn(Counted(m), Answer, Reply)
          \/ /\ conn = "UDX"
             /\ server' = [RequestUd(m) EXCEPT !.pc = "polling"]
             /\ cm' = Answer /\ due' = due \cup Reply
             /\ UNCHANGED chan
          \/ ServerFails
       /\ UNCHANGED <<conn, client>>

\* rdma_cm_initialize_ud_connection_parameters: the message has come.
UdParameters ==
    LET m == [server EXCEPT !.pc = "events", !.ah[server.connection_index] = server.ud]
    IN /\ server.pc = "polling" /\ server.ud # NULL
       /\ ServerGoesOn(Counted(m), cm, {})
       /\ UNCHANGED <<conn, client>>

\* rdma_cm_connection_established_handler on the server: it marks the node,
\* which may already have been unmarked by the disconnection.
server_established ==
    /\ ServerEvent("ESTABLISHED")
    /\ LET i == NodeOf(server, Head(chan["server"]).id)
       IN ServerGoesOn([server EXCEPT !.connected[i] = TRUE], cm, {})
    /\ UNCHANGED <<conn, client>>

server_disconnected ==
    /\ ServerEvent("DISCONNECTED")
    /\ ServerGoesOn([server EXCEPT !.disconnects_left = @ - 1], cm, {})
    /\ UNCHANGED <<conn, client>>

server_event_error ==
    /\ ServerEvent("REJECTED")
    /\ IF server.pc = "events" THEN ServerFails
       ELSE /\ server' = GaveUp(server)
            /\ chan' = [chan EXCEPT !["server"] = Tail(@)]
            /\ UNCHANGED <<cm, due>>
    /\ UNCHANGED <<conn, client>>

\* The handshakes fail when the other machine has left.
ServerAlone ==
    /\ server.pc \in {"hs1", "hs2"} /\ client.pc = "failed"
    /\ ServerFails
    /\ UNCHANGED <<conn, client>>

-----------------------------------------------------------------------------
(* The handshake after the connection, the test, and destroy_ctx.           *)

HandShake2 ==
    /\ client.pc = "hs2" /\ server.pc = "hs2"
    /\ client' = [client EXCEPT !.pc = "running"]
    /\ server' = [server EXCEPT !.pc = "running"]
    /\ UNCHANGED <<conn, cm, due, chan>>

\* The test ends with a handshake, after which both run destroy_ctx.
TestEnds ==
    /\ client.pc = "running" /\ server.pc = "running"
    /\ client' = [client EXCEPT !.pc = "disconnect"]
    /\ server' = [server EXCEPT !.pc = "disconnect"]
    /\ UNCHANGED <<conn, cm, due, chan>>

\* rdma_cm_disconnect_nodes up to its loop.  Only the server disconnects.
NothingToWaitFor(m) == m.disconnects_left = 0 \/ conn # "RC"
NoneConnected == [i \in Nodes |-> FALSE]
Drain(m) == IF NothingToWaitFor(m) THEN [m EXCEPT !.pc = "destroy"]
            ELSE [m EXCEPT !.pc = "draining", !.connected = NoneConnected]

ClientDisconnects ==
    /\ client.pc = "disconnect"
    /\ client' = Drain(client)
    /\ UNCHANGED <<conn, server, cm, due, chan>>

Hangup(D) ==
    /\ cm' = [x \in Ids |-> IF x \in D THEN "down" ELSE cm[x]]
    /\ due' = due \cup {Ev(s, "DISCONNECTED", x) :
                            s \in {"client", "server"}, x \in {y \in D : cm[y] = "up"}}

ServerDisconnects ==
    LET To(k) == {server.cma_id[i] : i \in {j \in Nodes : server.connected[j] /\ j < k}}
    IN /\ server.pc = "disconnect"
       /\ \/ /\ server' = Drain(server)
             /\ Hangup(IF NothingToWaitFor(server) THEN {} ELSE To(num_of_qps + 1))
          \/ /\ ~NothingToWaitFor(server)                   \* rdma_disconnect fails
             /\ \E k \in Nodes : server.connected[k] /\ Hangup(To(k))
             /\ server' = [server EXCEPT !.pc = "destroy"]
       /\ UNCHANGED <<conn, client, chan>>

\* rdma_cm_destroy_qps, then no node counts as connected, so that
\* rdma_cm_destroy_cma releases them all.
Released(m) == [m EXCEPT !.pc = "done", !.connected = NoneConnected,
                         !.cma_id = [i \in Nodes |-> NULL],
                         !.qp = [i \in Nodes |-> NULL], !.ah = [i \in Nodes |-> NULL]]
ClientDestroys ==
    /\ client.pc = "destroy"
    /\ Destroyed(Named(client.cma_id))
    /\ client' = Released(client)
    /\ UNCHANGED <<conn, server>>

ServerDestroys ==
    /\ server.pc = "destroy"
    /\ server' = Released(server)
    /\ due' = {e \in due : e.side = "client"}
              \cup {Ev("client", "DISCONNECTED", x) :
                        x \in {y \in Named(server.cma_id) : conn = "RC" /\ cm[y] = "up"}}
    /\ cm' = [x \in Ids |-> IF cm[x] = "up" THEN "down" ELSE cm[x]]
    /\ chan' = [chan EXCEPT !["server"] = <<>>]
    /\ UNCHANGED <<conn, client>>

-----------------------------------------------------------------------------
ClientNext == \/ AllocateNodes \/ AllocateNodesFails \/ ClientConnection
              \/ address_handler \/ route_handler \/ client_established
              \/ client_event_error \/ client_disconnected \/ Retry \/ ClientFails
              \/ ClientDisconnects \/ ClientDestroys
ServerNext == \/ ServerNodes \/ ServerListen \/ request_handler \/ UdParameters
              \/ server_established \/ server_disconnected \/ server_event_error
              \/ ServerAlone \/ ServerDisconnects \/ ServerDestroys
Library    == \/ \E e \in due : Deliver(e) \/ DeliverRequest(e)
              \/ \E x \in Ids : Unanswered(x)
Next == ClientNext \/ ServerNext \/ HandShake1 \/ HandShake2 \/ TestEnds \/ Library

\* Each program runs, and the library reports what it has to report.
Fairness == /\ WF_vars(ClientNext) /\ WF_vars(ServerNext) /\ WF_vars(Library)
            /\ WF_vars(HandShake1) /\ WF_vars(HandShake2) /\ WF_vars(TestEnds)

Spec == Init /\ [][Next]_vars /\ Fairness

-----------------------------------------------------------------------------
\* While a machine waits for connections, connects_left is what is missing:
\* the loops of rdma_cm_connect_events end with every node connected, also
\* after rdma_cm_destroy_cma has recomputed the counter for a retry, and the
\* index that rdma_cm_establish_ud_connection takes from disconnects_left is
\* one of the array.
CountersMatch ==
    /\ client.pc \in {"events", "hs2"} =>
          /\ client.connects_left = num_of_qps - Up(client)
          /\ client.disconnects_left \in 0 .. Up(client)
          /\ client.pc = "hs2" => \A i \in Nodes : client.connected[i]
    /\ server.pc \in {"events", "polling", "hs2"} =>
          /\ server.connects_left = num_of_qps - Up(server)
          /\ server.connects_left = num_of_qps - server.connection_index + 1

\* When both programs go on to the test, their nodes are the two ends of the
\* same connections, one to one, however many attempts it took and whatever
\* the server had already accepted from an attempt the client gave up.  Known
\* exceptions: an attempt lost in rdma_connect leaves a queue pair of a
\* destroyed id, and UD connections made out of order, then retried, lose an
\* address handle.
Ends(m) == Named(m.cma_id)


=============================================================================
