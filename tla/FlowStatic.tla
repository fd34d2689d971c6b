----------------------------- MODULE FlowStatic -----------------------------
(***************************************************************************)
(* An instance of a static flow (sol-flow-static.c): it opens and connects *)
(* its nodes, undoes that when one of them refuses, queues the packets     *)
(* that nodes send and delivers them from a timeout of 0 ms, and closes.   *)
(*                                                                         *)
(* Everything runs on the main thread.  What interleaves is the code of    *)
(* the nodes: their open, connect and process callbacks, and the other     *)
(* handlers they have in the main loop, may all send packets.  Closing and *)
(* disconnecting nodes do not send, and the application closes the flow    *)
(* from outside the callbacks of its nodes.                                *)
(***************************************************************************)
EXTENDS FlowStaticType

CONSTANTS
  ConnSpecs,      \* the arrays of connections the application may write
  Sends,          \* out ports <<node, port>> that nodes send packets on
  ExportedOut,    \* sequence of the out ports exported to the flow's parent
  ExportedIn,     \* sequence of the exported in ports
  Untyped,        \* in ports <<node, port>> without a packet type; an out port
                  \* without one has the same effect
  MaxPackets      \* bound: how many packets are sent

ASSUME FlowAssumption ==
  /\ \A s \in ConnSpecs : s \in Seq([src : Nat, src_port : Nat, dst : Nat, dst_port : Nat])
  /\ \A o \in Sends : o[1] \in Nodes /\ o[2] \in OutPorts(o[1])
  /\ ExportedOut \in Seq([node : Nodes, port : Nat]) /\ validate_port_specs(ExportedOut)
  /\ ExportedIn \in Seq([node : Nodes, port : Nat]) /\ validate_port_specs(ExportedIn)
  /\ MaxPackets \in Nat

VARIABLES
  conns,          \* type->conn_specs; never changes
  pc, i,          \* where the flow is, and the index of the loop it is in
  opened,         \* nodes whose open() succeeded and that are not closed
  linked_out,     \* connections whose source was told connect() ...
  linked_in,      \* ... and whose destination was
  delay_send,     \* fsd->delay_send: is it not NULL?
  timer,          \* is the timeout of flow_send_idle() in the main loop?
  delayed_packets,
  tmplist,        \* the packets flow_send_idle() has stolen
  sent,           \* packets are numbered in the order they are sent
  origin,         \* per packet, <<node, port>>
  fate,           \* per packet: "none", "queued", or how the flow got rid of it
  got             \* per packet, the connections it was delivered on

vars == <<conns, pc, i, opened, linked_out, linked_in, delay_send, timer,
          delayed_packets, tmplist, sent, origin, fate, got>>
nodeVars == <<opened, linked_out, linked_in>>
queueVars == <<delay_send, timer, delayed_packets, tmplist>>
packetVars == <<sent, origin, fate, got>>

Packets == 1..MaxPackets
ConnIds == 1..Len(conns)

\* sol_flow_static_new_type(): only accepted specifications get this far.
Init ==
  /\ conns \in {s \in ConnSpecs : setup_conn_specs(s)}
  /\ pc = "down" /\ i = 0
  /\ opened = {} /\ linked_out = {} /\ linked_in = {}
  /\ delay_send = FALSE /\ timer = FALSE
  /\ delayed_packets = <<>> /\ tmplist = <<>>
  /\ sent = 0
  /\ origin = [p \in Packets |-> <<0, 0>>]
  /\ fate = [p \in Packets |-> "none"]
  /\ got = [p \in Packets |-> {}]

Goes(from, to) == pc = from /\ pc' = to

-----------------------------------------------------------------------------
(* Sending: sol_flow_send_packet() and flow_send().                        *)

\* Mutant of flow_send: the packet is put in front.
MutSendPrepends(n, port) ==
  /\ sent < MaxPackets
  /\ sent' = sent + 1
  /\ origin' = [origin EXCEPT ![sent'] = <<n, port>>]
  /\ delay_send' = TRUE
  /\ timer' = (timer \/ ~delay_send)
  /\ delayed_packets' = <<sent'>> \o delayed_packets
  /\ fate' = [fate EXCEPT ![sent'] = "queued"]
  /\ UNCHANGED <<conns, pc, i, nodeVars, tmplist, got>>

\* The packet matches the port's type: it is queued, and the timeout is added
\* unless one is pending.
flow_send(n, port) ==
  /\ sent < MaxPackets
  /\ sent' = sent + 1
  /\ origin' = [origin EXCEPT ![sent'] = <<n, port>>]
  /\ delay_send' = TRUE
  /\ timer' = (timer \/ ~delay_send)
  /\ delayed_packets' = Append(delayed_packets, sent')
  /\ fate' = [fate EXCEPT ![sent'] = "queued"]
  /\ UNCHANGED <<conns, pc, i, nodeVars, tmplist, got>>

\* It does not, and is deleted by sol_flow_send_packet().
Reject(n, port) ==
  /\ sent < MaxPackets
  /\ sent' = sent + 1
  /\ origin' = [origin EXCEPT ![sent'] = <<n, port>>]
  /\ fate' = [fate EXCEPT ![sent'] = "discarded"]
  /\ UNCHANGED <<conns, pc, i, nodeVars, queueVars, got>>

\* Nodes whose code may be running: the open ones and the one being opened.
MaySend(n) ==
  /\ pc \in {"opening", "connect_out", "connect_in", "up", "deliver"}
  /\ n \in opened \/ (pc = "opening" /\ n = i)

sol_flow_send_packet ==
  \E o \in Sends : MaySend(o[1]) /\ (flow_send(o[1], o[2]) \/ Reject(o[1], o[2]))

-----------------------------------------------------------------------------
(* flow_node_open() and connect_nodes().                                   *)

\* The timeout is the first thing a flow adds to the main loop.
flow_node_open ==
  /\ Goes("down", "opening")
  /\ i' = 0
  /\ delay_send' = TRUE /\ timer' = TRUE
  /\ UNCHANGED <<conns, nodeVars, delayed_packets, tmplist, packetVars>>

\* sol_flow_node_init() of node i; a node that fails is not closed.
OpenNode(ok) ==
  /\ pc = "opening" /\ i < NodeCount
  /\ IF ok THEN opened' = opened \cup {i} /\ i' = i + 1 /\ UNCHANGED pc
           ELSE pc' = "undo_nodes" /\ UNCHANGED <<i, opened>>
  /\ UNCHANGED <<conns, linked_out, linked_in, queueVars, packetVars>>

NodesOpened ==
  /\ Goes("opening", "connect_out") /\ i = NodeCount
  /\ i' = 1
  /\ UNCHANGED <<conns, nodeVars, queueVars, packetVars>>

HasTypes(c) == <<conns[c].dst, conns[c].dst_port>> \notin Untyped

\* The packet types do not match, or the source refuses.
ConnectOut(ok) ==
  /\ pc = "connect_out" /\ i <= Len(conns)
  /\ HasTypes(i)
  /\ IF ok THEN linked_out' = linked_out \cup {i} /\ pc' = "connect_in" /\ UNCHANGED i
           ELSE pc' = "undo_conns" /\ i' = i - 1 /\ UNCHANGED linked_out
  /\ UNCHANGED <<conns, opened, linked_in, queueVars, packetVars>>

\* A port has no packet type: connect_nodes() returns, and what is connected
\* so far stays connected while the nodes are closed.
ConnectUntyped ==
  /\ Goes("connect_out", "undo_nodes") /\ i <= Len(conns)
  /\ ~HasTypes(i)
  /\ i' = NodeCount
  /\ UNCHANGED <<conns, nodeVars, queueVars, packetVars>>

\* Mutant of ConnectIn: the connection that failed is undone once more.
MutUndoFailedToo(ok) ==
  /\ pc = "connect_in"
  /\ IF ok THEN linked_in' = linked_in \cup {i} /\ pc' = "connect_out" /\ i' = i + 1
                /\ UNCHANGED linked_out
           ELSE linked_out' = linked_out \ {i} /\ pc' = "undo_conns" /\ UNCHANGED <<i, linked_in>>
  /\ UNCHANGED <<conns, opened, queueVars, packetVars>>

\* When the destination refuses, the source is told at once.
ConnectIn(ok) ==
  /\ pc = "connect_in"
  /\ IF ok THEN linked_in' = linked_in \cup {i} /\ pc' = "connect_out" /\ i' = i + 1
                /\ UNCHANGED linked_out
           ELSE linked_out' = linked_out \ {i} /\ pc' = "undo_conns" /\ i' = i - 1
                /\ UNCHANGED linked_in
  /\ UNCHANGED <<conns, opened, queueVars, packetVars>>

Connected ==
  /\ Goes("connect_out", "up") /\ i > Len(conns)
  /\ UNCHANGED <<conns, i, nodeVars, queueVars, packetVars>>

\* Disconnections in reverse order, after a failure and when closing.
Disconnect ==
  /\ pc \in {"undo_conns", "close_conns"} /\ i > 0
  /\ linked_in' = linked_in \ {i}
  /\ linked_out' = linked_out \ {i}
  /\ i' = i - 1
  /\ UNCHANGED <<conns, pc, opened, queueVars, packetVars>>

Disconnected ==
  /\ Goes("undo_conns", "undo_nodes") \/ Goes("close_conns", "close_nodes")
  /\ i = 0
  /\ i' = NodeCount
  /\ UNCHANGED <<conns, nodeVars, queueVars, packetVars>>

\* sol_flow_node_fini(), the last node first; i is how many are left.
CloseNode ==
  /\ pc \in {"undo_nodes", "close_nodes"} /\ i > 0
  /\ opened' = opened \ {i - 1}
  /\ i' = i - 1
  /\ UNCHANGED <<conns, pc, linked_out, linked_in, queueVars, packetVars>>

-----------------------------------------------------------------------------
(* The end of a flow: it failed to open, or it is closed.                  *)

\* Mutant of delete_delayed_packets: the timeout stays in the main loop.
MutTimeoutStays ==
  /\ delayed_packets' = <<>>
  /\ fate' = [p \in Packets |-> IF \E k \in 1..Len(delayed_packets) : delayed_packets[k] = p
                                THEN "discarded" ELSE fate[p]]
  /\ UNCHANGED <<timer, delay_send, tmplist, sent, origin, got>>

\* delete_delayed_packets() does not reset fsd->delay_send.
delete_delayed_packets ==
  /\ timer' = (timer /\ ~delay_send)
  /\ delayed_packets' = <<>>
  /\ fate' = [p \in Packets |-> IF \E k \in 1..Len(delayed_packets) : delayed_packets[k] = p
                                THEN "discarded" ELSE fate[p]]
  /\ UNCHANGED <<delay_send, tmplist, sent, origin, got>>

\* Mutant of OpenFailed: the packets queued so far are forgotten.
MutOpenFailedKeeps ==
  /\ Goes("undo_nodes", "gone") /\ i = 0
  /\ timer' = (timer /\ ~delay_send)
  /\ UNCHANGED <<conns, i, nodeVars, delay_send, delayed_packets, tmplist, packetVars>>

\* After a failure the packets are deleted last, with those that the nodes
\* closed meanwhile had sent.
OpenFailed ==
  /\ Goes("undo_nodes", "gone") /\ i = 0
  /\ delete_delayed_packets
  /\ UNCHANGED <<conns, i, nodeVars>>

\* When closing they are deleted first.
flow_node_close ==
  /\ Goes("up", "close_conns")
  /\ delete_delayed_packets
  /\ i' = Len(conns)
  /\ UNCHANGED <<conns, nodeVars>>

Closed ==
  /\ Goes("close_nodes", "gone") /\ i = 0
  /\ UNCHANGED <<conns, i, nodeVars, queueVars, packetVars>>

-----------------------------------------------------------------------------
(* Delivery: flow_send_idle() and flow_send_do().                          *)

\* The queue is stolen: what is sent from now on waits for the next timeout.
flow_send_idle ==
  /\ Goes("up", "deliver") /\ timer
  /\ timer' = FALSE /\ delay_send' = FALSE
  /\ tmplist' = delayed_packets
  /\ delayed_packets' = <<>>
  /\ i' = 0
  /\ UNCHANGED <<conns, nodeVars, packetVars>>

\* The connections of the origin o that the loop still comes to after
\* connection "from": it starts at the node's first connection, passes over
\* other ports, and stops at the first connection of another node.
Walk(o, from) ==
  LET first == IF from = 0 THEN first_conn_idx(conns, o[1]) ELSE from + 1 IN
  {c \in first..Len(conns) : conns[c].src_port = o[2] /\ \A k \in first..c : conns[k].src = o[1]}

\* flow_send_do() calls process() of the next destination of the first packet.
dispatch_process ==
  /\ pc = "deliver" /\ tmplist # <<>>
  /\ LET p == Head(tmplist)
         ahead == Walk(origin[p], i)
     IN  \E c \in ahead :
           /\ \A k \in ahead : c <= k
           /\ got' = [got EXCEPT ![p] = @ \cup {c}]
           /\ i' = c
  /\ UNCHANGED <<conns, pc, nodeVars, queueVars, sent, origin, fate>>

IsExported(o) ==
  \E u \in 1..Len(ExportedOut) : ExportedOut[u].node = o[1] /\ ExportedOut[u].port = o[2]

\* No destination is left: an exported packet is handed to the flow's parent,
\* any other is deleted.
flow_send_do ==
  /\ pc = "deliver" /\ tmplist # <<>>
  /\ LET p == Head(tmplist) IN
       /\ Walk(origin[p], i) = {}
       /\ fate' = [fate EXCEPT ![p] = IF IsExported(origin[p]) THEN "exported" ELSE "deleted"]
  /\ tmplist' = Tail(tmplist)
  /\ i' = 0
  /\ UNCHANGED <<conns, pc, nodeVars, delay_send, timer, delayed_packets, sent, origin, got>>

Delivered ==
  /\ Goes("deliver", "up") /\ tmplist = <<>>
  /\ UNCHANGED <<conns, i, nodeVars, queueVars, packetVars>>

-----------------------------------------------------------------------------

\* What the library does once it was called.
Library ==
  \/ \E ok \in BOOLEAN : OpenNode(ok) \/ ConnectOut(ok) \/ ConnectIn(ok)
  \/ NodesOpened \/ ConnectUntyped \/ Connected \/ Disconnect \/ Disconnected \/ CloseNode
  \/ OpenFailed \/ Closed
  \/ flow_send_idle \/ dispatch_process \/ flow_send_do \/ Delivered

Next == Library \/ flow_node_open \/ flow_node_close \/ sol_flow_send_packet

Spec == Init /\ [][Next]_vars

\* The main loop runs timeouts, and callbacks return.
FairSpec == Spec /\ WF_vars(Library)

-----------------------------------------------------------------------------
(* Properties.                                                             *)

\* Type invariant.
TypeOK ==
  /\ pc \in {"down", "opening", "connect_out", "connect_in", "up", "deliver", "undo_conns",
             "undo_nodes", "close_conns", "close_nodes", "gone"}
  /\ i \in 0..(NodeCount + Len(conns) + 1)
  /\ opened \subseteq Nodes
  /\ linked_out \subseteq ConnIds /\ linked_in \subseteq ConnIds
  /\ delay_send \in BOOLEAN /\ timer \in BOOLEAN
  /\ delayed_packets \in Seq(Packets) /\ tmplist \in Seq(Packets)
  /\ sent \in 0..MaxPackets
  /\ origin \in [Packets -> Nodes \X (0..PortError)]
  /\ fate \in [Packets -> {"none", "queued", "deleted", "exported", "discarded"}]
  /\ got \in [Packets -> SUBSET ConnIds]

\* A packet is in one queue exactly as long as it is not disposed of, so that
\* it is deleted once; and a queued packet has a timeout coming, or is being
\* delivered: the pointer fsd->delay_send never hides that none is pending.
QueuedHasTimeout ==
  /\ \A p \in Packets :
       fate[p] = "queued" <=>
         Cardinality({k \in 1..Len(delayed_packets) : delayed_packets[k] = p})
           + Cardinality({k \in 1..Len(tmplist) : tmplist[k] = p}) = 1
  /\ delayed_packets # <<>> => timer

\* Packets arrive in the order they were sent, whatever the callbacks that
\* they trigger send meanwhile: nothing is delivered of a packet as long as an
\* earlier one is queued, and no queued one is forgotten.
DeliveredInOrder ==
  /\ TypeOK
  /\ QueuedHasTimeout
  /\ \A p, q \in Packets : p < q /\ got[q] # {} => fate[p] # "queued"

\* setup_conn_ids() comes to the in port of connection c.
IsNumbered(c) == conns[c].dst_port < PortsOut[conns[c].dst]

\* On the ports that setup_conn_ids() comes to, connections to the same in port
\* of a node have different ids, those that come from outside through an exported
\* port included; so have those from the same out port, except the error port,
\* whose connections all have id 0.
ConnIdsDiffer ==
  /\ \A c, d \in ConnIds : c # d =>
       /\ d \in ToSamePort(conns, c) /\ IsNumbered(c) => in_conn_id(conns, c) # in_conn_id(conns, d)
       /\ /\ <<conns[c].src, conns[c].src_port>> = <<conns[d].src, conns[d].src_port>>
          /\ conns[c].src_port # PortError
          => out_conn_id(conns, c) # out_conn_id(conns, d)
  /\ \A u \in 1..Len(ExportedIn) : IsMet(ExportedIn, u) => \A c \in ConnIds :
       <<conns[c].dst, conns[c].dst_port>> = <<ExportedIn[u].node, ExportedIn[u].port>>
         => in_conn_id(conns, c) # exported_in_conn_id(conns, ExportedIn, u, 0)
  /\ \A u \in 1..Len(ExportedOut) : IsMet(ExportedOut, u) => \A c \in ConnIds :
       <<conns[c].src, conns[c].src_port>> = <<ExportedOut[u].node, ExportedOut[u].port>>
         => out_conn_id(conns, c) # exported_out_conn_id(conns, ExportedOut, u, 0)

\* The same of every in port, which is what a node with several connections on a
\* port needs.  The code does not give it: the walk over the in ports ends at
\* ports_out_count, so that all connections to a node without out ports have id 0.
EveryInIdDiffers ==
  \A c, d \in ConnIds :
    c # d /\ d \in ToSamePort(conns, c) => in_conn_id(conns, c) # in_conn_id(conns, d)

\* flow_send_do() has given the packet to every connection of its port when it
\* deletes it or hands it on: no connection is missed by starting at
\* first_conn_idx and stopping at the first foreign connection.  The receivers
\* can tell apart the connections that are numbered.
RoutedToAll ==
  /\ ConnIdsDiffer
  /\ \A p \in Packets :
       fate[p] \in {"deleted", "exported"} =>
         got[p] = {c \in ConnIds : <<conns[c].src, conns[c].src_port>> = origin[p]}

\* Only what is connected is disconnected, each connection once and whole;
\* connections join open nodes; and process() is called on complete connections
\* only.  The exception is a port without a packet type: its nodes are closed
\* while they are still connected (ConnectUntyped).
LinksMatchNodes ==
  /\ linked_in \subseteq linked_out
  /\ (\A c \in ConnIds : HasTypes(c)) =>
       \A c \in linked_out : conns[c].src \in opened /\ conns[c].dst \in opened
  /\ pc \in {"undo_conns", "close_conns"} => linked_out = 1..i /\ linked_in = 1..i
  /\ pc \in {"up", "deliver"} => linked_in = ConnIds

\* A flow that failed to open or was closed leaves nothing behind: no timeout
\* that would run on freed memory, no packet, no open or connected node.
GoneIsClean ==
  pc = "gone" =>
    /\ ~timer
    /\ \A p \in Packets : fate[p] # "queued"
    /\ opened = {}
    /\ (\A c \in ConnIds : HasTypes(c)) => linked_out = {} /\ linked_in = {}

\* Every packet that is sent is disposed of in the end.
QueuedIsSettled == \A p \in Packets : (fate[p] = "queued") ~> (fate[p] # "queued")
=============================================================================
