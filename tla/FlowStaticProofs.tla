-------------------------- MODULE FlowStaticProofs --------------------------
(***************************************************************************)
(* A static flow keeps its nodes, connections and packets in order, for    *)
(* any accepted specification: whatever fails while it opens, and whatever *)
(* its nodes send and when.                                                *)
(*                                                                         *)
(* LinkInv says, for every place of the code, which nodes are open and     *)
(* which connections are made; QueueInv that the packets which wait are    *)
(* the queued ones, in the order they were sent, with a timeout coming;    *)
(* RouteInv how far the delivery of the first packet has come.             *)
(***************************************************************************)
EXTENDS FlowStatic, VectorProofs, FiniteSetTheorems

Connection == [src : Nat, src_port : Nat, dst : Nat, dst_port : Nat]

ConnsInv == conns \in Seq(Connection) /\ setup_conn_specs(conns)

AllTyped == \A c \in ConnIds : HasTypes(c)

LinkInv ==
  /\ pc = "down" => opened = {} /\ linked_out = {} /\ linked_in = {}
  /\ pc = "opening" => i <= NodeCount /\ opened = 0..(i - 1) /\ linked_out = {} /\ linked_in = {}
  /\ pc = "connect_out" => /\ i \in 1..(Len(conns) + 1) /\ opened = Nodes
                           /\ linked_out = 1..(i - 1) /\ linked_in = 1..(i - 1)
  /\ pc = "connect_in" => /\ i \in ConnIds /\ opened = Nodes
                          /\ linked_out = 1..i /\ linked_in = 1..(i - 1)
  /\ pc \in {"up", "deliver"} => opened = Nodes /\ linked_out = ConnIds /\ linked_in = ConnIds
  /\ pc \in {"undo_conns", "close_conns"} => /\ i <= Len(conns) /\ opened = Nodes
                                             /\ linked_out = 1..i /\ linked_in = 1..i
  /\ pc \in {"undo_nodes", "close_nodes"} => i <= NodeCount /\ opened = 0..(i - 1)
  /\ pc = "gone" => opened = {}
  /\ pc \in {"undo_nodes", "close_nodes", "gone"} =>
       linked_in = linked_out /\ (AllTyped => linked_out = {})

Increasing(s) == \A j, k \in 1..Len(s) : j < k => s[j] < s[k]
IsIn(p, s) == \E k \in 1..Len(s) : s[k] = p

QueueInv ==
  /\ pc \notin {"close_conns", "close_nodes", "gone"} => (timer <=> delay_send)
  /\ pc \in {"close_conns", "close_nodes", "gone"} => ~timer
  /\ delayed_packets # <<>> => timer
  /\ tmplist # <<>> => pc = "deliver"
  /\ Increasing(tmplist) /\ Increasing(delayed_packets)
  /\ \A j \in 1..Len(tmplist), k \in 1..Len(delayed_packets) : tmplist[j] < delayed_packets[k]
  /\ \A p \in Packets : fate[p] = "queued" <=> IsIn(p, tmplist) \/ IsIn(p, delayed_packets)
  /\ \A p \in Packets : fate[p] = "none" <=> p > sent
  /\ pc \in {"down", "gone"} => delayed_packets = <<>>

\* The connections of an out port.
Routes(o) == {c \in ConnIds : conns[c].src = o[1] /\ conns[c].src_port = o[2]}

RouteInv ==
  /\ \A p \in Packets : fate[p] \in {"deleted", "exported"} => got[p] = Routes(origin[p])
  /\ \A p \in Packets : fate[p] \in {"none", "discarded"} => got[p] = {}
  /\ \A p \in Packets : fate[p] = "queued" /\ (tmplist # <<>> => p # Head(tmplist)) => got[p] = {}
  /\ pc = "deliver" /\ tmplist # <<>> =>
       /\ i = 0 \/ (i \in ConnIds /\ conns[i].src = origin[Head(tmplist)][1])
       /\ got[Head(tmplist)] = {c \in Routes(origin[Head(tmplist)]) : c <= i}

\* What was delivered is older than what waits.
OrderInv ==
  \A p, q \in Packets : fate[p] = "queued" /\ fate[q] \in {"deleted", "exported"} => q < p

IInv == TypeOK /\ ConnsInv /\ LinkInv /\ QueueInv /\ RouteInv /\ OrderInv

-----------------------------------------------------------------------------
(* The next-state relation, by what the steps are about.                   *)

\* Steps that open, connect, disconnect and close.
Wiring ==
  \/ \E ok \in BOOLEAN : OpenNode(ok) \/ ConnectOut(ok) \/ ConnectIn(ok)
  \/ NodesOpened \/ ConnectUntyped \/ Connected \/ Disconnect \/ Disconnected \/ CloseNode
  \/ Closed \/ Delivered

\* A node sends.
Sending ==
  /\ pc \in {"opening", "connect_out", "connect_in", "up", "deliver"}
  /\ \E n \in Nodes, port \in 0..PortError : flow_send(n, port) \/ Reject(n, port)

\* The steps of a flow, by what they change: the wiring of nodes and connections, the
\* sending of packets, opening and closing as a whole, and the delivery from the timeout.
LEMMA StepCases ==
  Next => \/ Wiring \/ Sending \/ flow_node_open \/ flow_node_close \/ OpenFailed
          \/ flow_send_idle \/ dispatch_process \/ flow_send_do
  <1>1. sol_flow_send_packet => Sending
        BY FlowAssumption DEF sol_flow_send_packet, Sending, MaySend, OutPorts
  <1>2. QED
        BY <1>1 DEF Next, Library, Wiring

\* What the type invariant and an accepted specification say of numbers and indices.
LEMMA Constants ==
  ASSUME TypeOK, ConnsInv
  PROVE  /\ NodeCount \in Nat \ {0} /\ Nodes = 0..(NodeCount - 1)
         /\ Len(conns) \in Nat /\ ConnIds = 1..Len(conns) /\ DOMAIN conns = ConnIds
         /\ MaxPackets \in Nat /\ Packets = 1..MaxPackets
         /\ i \in Nat /\ sent \in Nat
         /\ \A c \in ConnIds : /\ conns[c] \in Connection
                               /\ conns[c].src \in Nodes /\ conns[c].dst \in Nodes
  <1>1. Len(conns) \in Nat /\ DOMAIN conns = 1..Len(conns)
        /\ \A c \in 1..Len(conns) : conns[c] \in Connection
        BY LenProperties, ElementOfSeq DEF ConnsInv
  <1>2. NodeCount \in Nat \ {0} /\ MaxPackets \in Nat
        BY FlowTypeAssumption, FlowAssumption
  <1>3. i \in Nat /\ sent \in Nat
        BY <1>1, <1>2 DEF TypeOK
  <1>4. \A c \in 1..Len(conns) : conns[c].src \in Nodes /\ conns[c].dst \in Nodes
        BY <1>1, <1>2 DEF ConnsInv, setup_conn_specs, is_valid_spec, Nodes, Connection
  <1>5. QED
        BY <1>1, <1>2, <1>3, <1>4 DEF Nodes, ConnIds, Packets

\* No step changes the connections that setup_conn_specs() accepted.
LEMMA ConnsStep == ConnsInv /\ [Next]_vars => ConnsInv' /\ conns' = conns
  <1> SUFFICES ASSUME ConnsInv, [Next]_vars PROVE conns' = conns
      BY DEF ConnsInv
  <1>1. CASE UNCHANGED vars
        BY <1>1 DEF vars
  <1>2. CASE Next
        BY <1>2, StepCases DEF Wiring, Sending, OpenNode, ConnectOut, ConnectIn, NodesOpened,
           ConnectUntyped, Connected, Disconnect, Disconnected, CloseNode, Closed, Delivered,
           flow_send, Reject, flow_node_open, flow_node_close, OpenFailed, flow_send_idle,
           dispatch_process, flow_send_do
  <1>3. QED
        BY <1>1, <1>2

-----------------------------------------------------------------------------
(* Nodes and connections.                                                  *)

\* Opening nodes, connecting, undoing and closing keep track of which are done.
LEMMA WiringLinks ==
  ASSUME IInv, Wiring, conns' = conns
  PROVE  LinkInv' /\ i' \in 0..(NodeCount + Len(conns) + 1) /\ pc' \in
           {"opening", "connect_out", "connect_in", "up", "undo_conns",
             "undo_nodes", "close_conns", "close_nodes", "gone"}
         /\ UNCHANGED <<queueVars, packetVars>>
  <1> USE DEF Goes, nodeVars
  <1>1. /\ NodeCount \in Nat \ {0} /\ Nodes = 0..(NodeCount - 1)
        /\ Len(conns) \in Nat /\ ConnIds = 1..Len(conns) /\ ConnIds' = ConnIds
        /\ i \in Nat
        BY Constants DEF IInv, ConnIds
  <1>2. AllTyped' = AllTyped
        BY <1>1 DEF AllTyped, HasTypes
  <1>3. LinkInv
        BY DEF IInv
  <1>a. /\ (0..(i - 1)) \cup {i} = 0..((i + 1) - 1)
        /\ i # 0 => (1..(i - 1)) \cup {i} = 1..i /\ (1..i) \ {i} = 1..(i - 1)
        /\ (i + 1) - 1 = i
        BY <1>1
  <1>4. ASSUME NEW ok \in BOOLEAN, OpenNode(ok) PROVE LinkInv'
    <2>1. CASE ok
      <3>1. /\ pc = "opening" /\ pc' = "opening" /\ i' = i + 1 /\ i < NodeCount
            /\ opened' = opened \cup {i} /\ UNCHANGED <<linked_out, linked_in>>
            BY <1>4, <2>1 DEF OpenNode
      <3>2. opened' = 0..(i' - 1) /\ i' <= NodeCount /\ linked_out' = {} /\ linked_in' = {}
            BY <1>1, <1>3, <1>a, <3>1 DEF LinkInv
      <3>3. QED
            BY <3>1, <3>2 DEF LinkInv
    <2>2. CASE ~ok
          BY <1>1, <1>2, <1>3, <1>4, <2>2 DEF OpenNode, LinkInv
    <2>3. QED
          BY <2>1, <2>2
  <1>5. ASSUME NEW ok \in BOOLEAN, ConnectOut(ok) PROVE LinkInv'
    <2>1. CASE ok
      <3>1. /\ pc = "connect_out" /\ pc' = "connect_in" /\ i' = i /\ i <= Len(conns)
            /\ linked_out' = linked_out \cup {i} /\ UNCHANGED <<opened, linked_in>>
            BY <1>5, <2>1 DEF ConnectOut
      <3>2. /\ i' \in ConnIds /\ opened' = Nodes
            /\ linked_out' = 1..i' /\ linked_in' = 1..(i' - 1)
            BY <1>1, <1>3, <1>a, <3>1 DEF LinkInv
      <3>3. QED
            BY <1>1, <3>1, <3>2 DEF LinkInv
    <2>2. CASE ~ok
          BY <1>1, <1>2, <1>3, <1>5, <2>2 DEF ConnectOut, LinkInv
    <2>3. QED
          BY <2>1, <2>2
  <1>6. ASSUME NEW ok \in BOOLEAN, ConnectIn(ok) PROVE LinkInv'
    <2>1. CASE ok
      <3>1. /\ pc = "connect_in" /\ pc' = "connect_out" /\ i' = i + 1
            /\ linked_in' = linked_in \cup {i} /\ UNCHANGED <<opened, linked_out>>
            BY <1>6, <2>1 DEF ConnectIn
      <3>2. /\ i' \in 1..(Len(conns) + 1) /\ opened' = Nodes
            /\ linked_out' = 1..(i' - 1) /\ linked_in' = 1..(i' - 1)
            BY <1>1, <1>3, <1>a, <3>1 DEF LinkInv
      <3>3. QED
            BY <3>1, <3>2 DEF LinkInv
    <2>2. CASE ~ok
      <3>1. /\ pc = "connect_in" /\ pc' = "undo_conns" /\ i' = i - 1
            /\ linked_out' = linked_out \ {i} /\ UNCHANGED <<opened, linked_in>>
            BY <1>6, <2>2 DEF ConnectIn
      <3>2. /\ i' <= Len(conns) /\ opened' = Nodes
            /\ linked_out' = 1..i' /\ linked_in' = 1..i'
            BY <1>1, <1>3, <1>a, <3>1 DEF LinkInv
      <3>3. QED
            BY <3>1, <3>2 DEF LinkInv
    <2>3. QED
          BY <2>1, <2>2
  <1>7. ASSUME NodesOpened PROVE LinkInv'
        BY <1>1, <1>2, <1>3, <1>7 DEF NodesOpened, LinkInv
  <1>8. ASSUME ConnectUntyped PROVE LinkInv'
    <2>1. ~AllTyped
      <3>1. i \in ConnIds /\ ~HasTypes(i)
            BY <1>1, <1>3, <1>8 DEF ConnectUntyped, LinkInv
      <3>2. QED
            BY <3>1 DEF AllTyped
    <2>2. QED
          BY <1>1, <1>2, <1>3, <1>8, <2>1 DEF ConnectUntyped, LinkInv
  <1>9. ASSUME Connected PROVE LinkInv'
        BY <1>1, <1>2, <1>3, <1>9 DEF Connected, LinkInv
  <1>10. ASSUME Disconnect PROVE LinkInv'
        BY <1>1, <1>2, <1>3, <1>10 DEF Disconnect, LinkInv
  <1>11. ASSUME Disconnected PROVE LinkInv'
        BY <1>1, <1>2, <1>3, <1>11 DEF Disconnected, LinkInv
  <1>12. ASSUME CloseNode PROVE LinkInv'
        BY <1>1, <1>2, <1>3, <1>12 DEF CloseNode, LinkInv
  <1>13. ASSUME Closed \/ Delivered PROVE LinkInv'
        BY <1>1, <1>2, <1>3, <1>13 DEF Closed, Delivered, LinkInv
  <1>14. /\ UNCHANGED <<queueVars, packetVars>>
         /\ pc' \in {"opening", "connect_out", "connect_in", "up", "undo_conns",
                     "undo_nodes", "close_conns", "close_nodes", "gone"}
        BY DEF Wiring, OpenNode, ConnectOut, ConnectIn, NodesOpened, ConnectUntyped,
           Connected, Disconnect, Disconnected, CloseNode, Closed, Delivered
  <1>15. i' \in 0..(NodeCount + Len(conns) + 1)
        BY <1>1, <1>3 DEF Wiring, OpenNode, ConnectOut, ConnectIn, NodesOpened, ConnectUntyped,
           Connected, Disconnect, Disconnected, CloseNode, Closed, Delivered, LinkInv, IInv, TypeOK
  <1>16. QED
        BY <1>4, <1>5, <1>6, <1>7, <1>8, <1>9, <1>10, <1>11, <1>12, <1>13, <1>14, <1>15 DEF Wiring

-----------------------------------------------------------------------------
(* Routing.                                                                *)

\* Connections are addressed by numbers, and their sources are numbers.
LEMMA ConnsTyped ==
  ASSUME ConnsInv
  PROVE  Len(conns) \in Nat /\ \A c \in 1..Len(conns) : conns[c].src \in Nat
  <1>1. Len(conns) \in Nat /\ \A c \in 1..Len(conns) : conns[c] \in Connection
        BY LenProperties, ElementOfSeq DEF ConnsInv
  <1>2. QED
        BY <1>1 DEF Connection

\* Connections are sorted by their source.
LEMMA SourcesSorted ==
  ASSUME ConnsInv
  PROVE  \A j, k \in 1..Len(conns) : j <= k => conns[j].src <= conns[k].src
  <1>1. Len(conns) \in Nat /\ \A c \in 1..Len(conns) : conns[c].src \in Nat
        BY ConnsTyped
  <1>2. \A k \in 1..(Len(conns) - 1) : conns[k].src <= conns[k + 1].src
        BY <1>1 DEF ConnsInv, setup_conn_specs
  <1> SUFFICES ASSUME NEW j \in 1..Len(conns)
               PROVE  \A k \in 1..Len(conns) : j <= k => conns[j].src <= conns[k].src
      OBVIOUS
  <1> DEFINE Bad == {k \in 1..Len(conns) : j <= k /\ ~(conns[j].src <= conns[k].src)}
  <1>3. SUFFICES ASSUME Bad # {} PROVE FALSE
        OBVIOUS
  <1>4. PICK k \in Bad : \A y \in Bad : k <= y
    <2>1. Bad \subseteq Nat
          BY <1>1
    <2> HIDE DEF Bad
    <2>2. QED
          BY <1>3, <2>1, Least
  <1>5. k # j
        BY <1>1
  <1>6. k - 1 \in 1..Len(conns) /\ j <= k - 1 /\ k - 1 \notin Bad /\ k - 1 \in 1..(Len(conns) - 1)
        BY <1>1, <1>4, <1>5
  <1>7. conns[k - 1].src <= conns[(k - 1) + 1].src /\ (k - 1) + 1 = k
        BY <1>2, <1>6
  <1>8. QED
        BY <1>1, <1>6, <1>7

\* The connections of a node begin at first_conn_idx and follow one another.
LEMMA FirstConn ==
  ASSUME ConnsInv, NEW n
  PROVE  LET first == first_conn_idx(conns, n) IN
         /\ first \in Nat \ {0}
         /\ \A c \in 1..Len(conns) : conns[c].src = n =>
              /\ first <= c /\ \A k \in first..c : conns[k].src = n
  <1> DEFINE own == {c \in 1..Len(conns) : conns[c].src = n}
             starts == {c \in 1..Len(conns) : conns[c].src = n /\ (c = 1 \/ conns[c - 1].src # n)}
  <1>1. Len(conns) \in Nat /\ \A c \in 1..Len(conns) : conns[c].src \in Nat
        BY ConnsTyped
  <1>2. CASE own = {}
    <2>1. starts = {}
          BY <1>2
    <2>2. first_conn_idx(conns, n) = 1
          BY <2>1 DEF first_conn_idx
    <2>3. QED
          BY <1>2, <2>2
  <1>3. CASE own # {}
    <2>1. PICK f \in own : \A c \in own : f <= c
      <3>1. own \subseteq Nat
            BY <1>1
      <3> HIDE DEF own
      <3>2. QED
            BY <1>3, <3>1, Least
    <2>2. f \in 1..Len(conns) /\ conns[f].src = n
          BY <2>1
    <2>3. f \in starts
      <3>1. f = 1 \/ f - 1 \in 1..Len(conns)
            BY <1>1, <2>2
      <3>2. f - 1 \notin own
            BY <1>1, <2>1, <2>2
      <3>3. QED
            BY <2>2, <3>1, <3>2
    <2>4. ASSUME NEW c \in 1..Len(conns), conns[c].src = n, NEW k \in f..c
          PROVE  k \in 1..Len(conns) /\ conns[k].src = n
      <3>1. k \in 1..Len(conns)
            BY <1>1, <2>2, <2>4
      <3>2. conns[f].src <= conns[k].src /\ conns[k].src <= conns[c].src
            BY <1>1, <2>2, <2>4, <3>1, SourcesSorted
      <3>3. QED
            BY <1>1, <2>2, <2>4, <3>1, <3>2
    <2>5. ASSUME NEW s \in starts PROVE s = f
      <3>1. s \in 1..Len(conns) /\ conns[s].src = n /\ s \in own /\ f <= s
            BY <2>1
      <3>2. CASE s # f
        <4>1. s - 1 \in f..s /\ s # 1
              BY <1>1, <2>2, <3>1, <3>2
        <4>2. conns[s - 1].src = n
              BY <2>4, <3>1, <4>1
        <4>3. QED
              BY <4>1, <4>2
      <3>3. QED
            BY <3>2
    <2>6. first_conn_idx(conns, n) = f
      <3>1. starts # {} /\ \E c \in starts : \A j \in starts : j <= c
            BY <2>2, <2>3, <2>5
      <3>2. (CHOOSE c \in starts : \A j \in starts : j <= c) \in starts
            BY <3>1
      <3>3. QED
            BY <2>5, <3>1, <3>2 DEF first_conn_idx
    <2>7. QED
          BY <1>1, <2>1, <2>2, <2>4, <2>6
  <1>4. QED
        BY <1>2, <1>3

\* What the loop of flow_send_do() has before it, at its start or behind a
\* connection of the node, is all the connections of the port that are left.
LEMMA WalkIsComplete ==
  ASSUME ConnsInv, NEW o, NEW from \in Nat,
         from = 0 \/ (from \in ConnIds /\ conns[from].src = o[1])
  PROVE  Walk(o, from) = {c \in Routes(o) : c > from}
  <1> DEFINE first == IF from = 0 THEN first_conn_idx(conns, o[1]) ELSE from + 1
  <1>1. Len(conns) \in Nat /\ \A c \in 1..Len(conns) : conns[c].src \in Nat
        BY ConnsTyped
  <1>2. first \in Nat \ {0} /\ first > from
        BY FirstConn
  <1>3. ASSUME NEW c \in 1..Len(conns), conns[c].src = o[1], c > from
        PROVE  first <= c /\ \A k \in first..c : conns[k].src = o[1]
    <2>1. CASE from = 0
          BY <1>3, <2>1, FirstConn
    <2>2. CASE from # 0
      <3>1. first = from + 1 /\ from \in 1..Len(conns) /\ conns[from].src = o[1]
            BY <2>2 DEF ConnIds
      <3>2. ASSUME NEW k \in first..c PROVE conns[k].src = o[1]
        <4>1. k \in 1..Len(conns) /\ from <= k /\ k <= c
              BY <1>1, <1>3, <3>1, <3>2
        <4>2. conns[from].src <= conns[k].src /\ conns[k].src <= conns[c].src
              BY <1>3, <3>1, <4>1, SourcesSorted
        <4>3. QED
              BY <1>1, <1>3, <3>1, <4>1, <4>2
      <3>3. QED
            BY <1>1, <1>3, <3>1, <3>2
    <2>3. QED
          BY <2>1, <2>2
  <1>4. Walk(o, from) = {c \in first..Len(conns) :
                           conns[c].src_port = o[2] /\ \A k \in first..c : conns[k].src = o[1]}
        BY DEF Walk
  <1> HIDE DEF first
  <1>5. ASSUME NEW c \in Walk(o, from) PROVE c \in Routes(o) /\ c > from
    <2>1. c \in first..Len(conns) /\ conns[c].src_port = o[2] /\ conns[c].src = o[1]
          BY <1>1, <1>2, <1>4
    <2>2. QED
          BY <1>1, <1>2, <2>1 DEF Routes, ConnIds
  <1>6. ASSUME NEW c \in Routes(o), c > from PROVE c \in Walk(o, from)
    <2>1. c \in 1..Len(conns) /\ conns[c].src_port = o[2] /\ conns[c].src = o[1]
          BY DEF Routes, ConnIds
    <2>2. QED
          BY <1>1, <1>2, <1>3, <1>4, <1>6, <2>1
  <1>7. QED
        BY <1>5, <1>6

-----------------------------------------------------------------------------

\* Every step keeps track of which nodes are open and which connections are made.
LEMMA LinkStep ==
  ASSUME IInv, Next, conns' = conns
  PROVE  LinkInv' /\ i' \in 0..(NodeCount + Len(conns) + 1)
  <1> USE DEF Goes, nodeVars
  <1>1. /\ NodeCount \in Nat \ {0} /\ Len(conns) \in Nat /\ ConnIds = 1..Len(conns)
        /\ ConnIds' = ConnIds /\ i \in Nat /\ i <= NodeCount + Len(conns) + 1
        BY Constants DEF IInv, ConnIds, TypeOK
  <1>2. AllTyped' = AllTyped
        BY <1>1 DEF AllTyped, HasTypes
  <1>3. LinkInv
        BY DEF IInv
  <1>4. CASE Wiring
        BY <1>4, WiringLinks
  <1>5. CASE Sending
        BY <1>1, <1>2, <1>3, <1>5 DEF Sending, flow_send, Reject, LinkInv
  <1>6. CASE flow_node_open
        BY <1>1, <1>2, <1>3, <1>6 DEF flow_node_open, LinkInv
  <1>7. CASE flow_node_close
        BY <1>1, <1>2, <1>3, <1>7 DEF flow_node_close, LinkInv
  <1>8. CASE OpenFailed
        BY <1>1, <1>2, <1>3, <1>8 DEF OpenFailed, LinkInv
  <1>9. CASE flow_send_idle \/ flow_send_do
        BY <1>1, <1>2, <1>3, <1>9 DEF flow_send_idle, flow_send_do, LinkInv
  <1>10. CASE dispatch_process
    <2>1. /\ i' \in Nat /\ i' <= NodeCount + Len(conns) + 1
          /\ pc = "deliver" /\ UNCHANGED <<pc, opened, linked_out, linked_in>>
      <3>1. PICK c \in Walk(origin[Head(tmplist)], i) : i' = c
            BY <1>10 DEF dispatch_process
      <3>2. c \in ConnIds
        <4>1. i = 0 \/ (i \in ConnIds /\ conns[i].src = origin[Head(tmplist)][1])
              BY <1>10 DEF dispatch_process, IInv, RouteInv
        <4>2. QED
              BY <1>1, <3>1, <4>1, WalkIsComplete DEF IInv, Routes
      <3>3. QED
            BY <1>1, <1>10, <3>1, <3>2 DEF dispatch_process
    <2>2. QED
          BY <1>1, <1>2, <1>3, <2>1 DEF LinkInv
  <1>11. QED
         BY <1>4, <1>5, <1>6, <1>7, <1>8, <1>9, <1>10, StepCases

-----------------------------------------------------------------------------
(* The queue.                                                              *)

\* flow_send_packet_delayed() appends a packet; younger ones are at the end.
LEMMA AppendedPacket ==
  ASSUME NEW s \in Seq(Packets), NEW x \in Packets
  PROVE  /\ Append(s, x) \in Seq(Packets)
         /\ \A p : IsIn(p, Append(s, x)) <=> IsIn(p, s) \/ p = x
         /\ \A k \in 1..Len(Append(s, x)) : Append(s, x)[k] = x \/ IsIn(Append(s, x)[k], s)
         /\ Increasing(s) /\ (\A k \in 1..Len(s) : s[k] < x) => Increasing(Append(s, x))
  <1> DEFINE t == Append(s, x)
  <1>1. /\ t \in Seq(Packets) /\ Len(t) = Len(s) + 1 /\ Len(s) \in Nat
        /\ \A k \in 1..Len(s) : t[k] = s[k]
        /\ t[Len(s) + 1] = x
        BY AppendProperties, LenProperties
  <1> HIDE DEF t
  <1>2. \A k \in 1..Len(t) : t[k] = x \/ IsIn(t[k], s)
        BY <1>1 DEF IsIn
  <1>3. \A p : IsIn(p, t) <=> IsIn(p, s) \/ p = x
        BY <1>1 DEF IsIn
  <1>4. ASSUME Increasing(s), \A k \in 1..Len(s) : s[k] < x PROVE Increasing(t)
    <2> SUFFICES ASSUME NEW j \in 1..Len(t), NEW k \in 1..Len(t), j < k PROVE t[j] < t[k]
        BY DEF Increasing
    <2>1. j \in 1..Len(s)
          BY <1>1
    <2>2. CASE k \in 1..Len(s)
          BY <1>1, <1>4, <2>1, <2>2 DEF Increasing
    <2>3. CASE k = Len(s) + 1
          BY <1>1, <1>4, <2>1, <2>3
    <2>4. QED
          BY <1>1, <2>2, <2>3
  <1>5. QED
        BY <1>1, <1>2, <1>3, <1>4 DEF t

\* flow_send_idle() takes the first packet; the others stay in order behind it.
LEMMA FirstPacket ==
  ASSUME NEW s \in Seq(Packets), s # <<>>, Increasing(s)
  PROVE  /\ Tail(s) \in Seq(Packets) /\ Head(s) \in Packets /\ Head(s) = s[1]
         /\ \A p : IsIn(p, s) <=> p = Head(s) \/ IsIn(p, Tail(s))
         /\ \A k \in 1..Len(Tail(s)) : Head(s) < Tail(s)[k] /\ k + 1 \in 1..Len(s) /\ Tail(s)[k] = s[k + 1]
         /\ Increasing(Tail(s))
  <1> DEFINE t == Tail(s)
  <1>1. /\ t \in Seq(Packets) /\ Len(t) = Len(s) - 1 /\ Len(s) \in Nat \ {0}
        /\ \A k \in 1..Len(t) : t[k] = s[k + 1]
        /\ Head(s) \in Packets /\ Head(s) = s[1]
        BY HeadTailProperties, EmptySeq, LenProperties
  <1> HIDE DEF t
  <1>2. \A k \in 1..Len(t) : k + 1 \in 1..Len(s) /\ 1 < k + 1
        BY <1>1
  <1>3. \A k \in 1..Len(t) : Head(s) < t[k]
        BY <1>1, <1>2 DEF Increasing
  <1>4. Increasing(t)
        BY <1>1, <1>2 DEF Increasing
  <1>5. ASSUME NEW p, IsIn(p, s) PROVE p = Head(s) \/ IsIn(p, t)
    <2>1. PICK k \in 1..Len(s) : s[k] = p
          BY <1>5 DEF IsIn
    <2>2. CASE k = 1
          BY <1>1, <2>1, <2>2
    <2>3. CASE k # 1
      <3>1. k - 1 \in 1..Len(t) /\ (k - 1) + 1 = k
            BY <1>1, <2>3
      <3>2. t[k - 1] = p
            BY <1>1, <2>1, <3>1
      <3>3. QED
            BY <3>1, <3>2 DEF IsIn
    <2>4. QED
          BY <2>2, <2>3
  <1>6. \A p : p = Head(s) \/ IsIn(p, t) => IsIn(p, s)
        BY <1>1, <1>2 DEF IsIn
  <1>7. QED
        BY <1>1, <1>2, <1>3, <1>4, <1>5, <1>6 DEF t

\* Every step preserves the types.
LEMMA TypeStep ==
  ASSUME IInv, Next, conns' = conns
  PROVE  TypeOK'
  <1> USE DEF Goes, nodeVars, queueVars, packetVars
  <1>1. i' \in 0..(NodeCount + Len(conns) + 1) /\ LinkInv'
        BY LinkStep
  <1>2. /\ NodeCount \in Nat \ {0} /\ Nodes = 0..(NodeCount - 1) /\ Len(conns) \in Nat
        /\ ConnIds = 1..Len(conns) /\ ConnIds' = ConnIds /\ i \in Nat
        /\ MaxPackets \in Nat /\ Packets = 1..MaxPackets
        BY Constants DEF IInv, ConnIds
  <1>3. opened' \subseteq Nodes /\ linked_out' \subseteq ConnIds /\ linked_in' \subseteq ConnIds
    <2>1. /\ opened \subseteq Nodes /\ linked_out \subseteq ConnIds /\ linked_in \subseteq ConnIds
          /\ pc = "opening" /\ i < NodeCount => i \in Nodes
          /\ pc \in {"connect_out", "connect_in"} /\ i <= Len(conns) => i \in ConnIds
          /\ pc = "connect_in" => i \in ConnIds
          BY <1>2 DEF IInv, LinkInv, TypeOK
    <2>2. CASE Wiring
      <3>1. ASSUME NEW ok \in BOOLEAN, OpenNode(ok) \/ ConnectOut(ok) \/ ConnectIn(ok)
            PROVE  /\ opened' \subseteq Nodes /\ linked_out' \subseteq ConnIds
                   /\ linked_in' \subseteq ConnIds
            BY <2>1, <3>1 DEF OpenNode, ConnectOut, ConnectIn
      <3>2. QED
            BY <2>1, <2>2, <3>1 DEF Wiring, NodesOpened, ConnectUntyped, Connected, Disconnect,
               Disconnected, CloseNode, Closed, Delivered
    <2>3. CASE ~Wiring
          BY <2>1, <2>3, StepCases DEF Sending, flow_send, Reject, flow_node_open, flow_node_close,
             OpenFailed, flow_send_idle, dispatch_process, flow_send_do
    <2>4. QED
          BY <2>2, <2>3
  <1>4. TypeOK
        BY DEF IInv
  <1>e. <<>> \in Seq(Packets)
        OBVIOUS
  <1>5. CASE Wiring
        BY <1>1, <1>2, <1>3, <1>4, <1>5, WiringLinks DEF TypeOK
  <1>6. CASE Sending
    <2>1. PICK n \in Nodes, port \in 0..PortError : flow_send(n, port) \/ Reject(n, port)
          BY <1>6 DEF Sending
    <2>2. sent' = sent + 1 /\ sent' \in Packets
          BY <1>2, <1>4, <2>1 DEF flow_send, Reject, TypeOK
    <2>3. delayed_packets' \in Seq(Packets)
      <3>1. delayed_packets \in Seq(Packets)
            BY <1>4 DEF TypeOK
      <3>2. Append(delayed_packets, sent') \in Seq(Packets)
            BY <2>2, <3>1, AppendedPacket
      <3>3. QED
            BY <2>1, <3>1, <3>2 DEF flow_send, Reject
    <2>4. origin' \in [Packets -> Nodes \X (0..PortError)]
          BY <1>4, <2>1 DEF flow_send, Reject, TypeOK
    <2>5. fate' \in [Packets -> {"none", "queued", "deleted", "exported", "discarded"}]
          BY <1>4, <2>1 DEF flow_send, Reject, TypeOK
    <2>6. delay_send' \in BOOLEAN /\ timer' \in BOOLEAN /\ UNCHANGED <<pc, tmplist, got>>
          BY <1>4, <2>1 DEF flow_send, Reject, TypeOK
    <2>7. sent' \in 0..MaxPackets
          BY <1>2, <2>2
    <2>8. QED
          BY <1>1, <1>2, <1>3, <1>4, <2>3, <2>4, <2>5, <2>6, <2>7 DEF TypeOK
  <1>7. CASE flow_node_open
        BY <1>1, <1>2, <1>3, <1>4, <1>7 DEF flow_node_open, TypeOK
  <1>8. CASE flow_node_close \/ OpenFailed
    <2>1. /\ pc' \in {"close_conns", "gone"} /\ timer' = (timer /\ ~delay_send)
          /\ delayed_packets' = <<>> /\ UNCHANGED <<delay_send, tmplist, sent, origin, got>>
          BY <1>8 DEF flow_node_close, OpenFailed, delete_delayed_packets
    <2>2. fate' \in [Packets -> {"none", "queued", "deleted", "exported", "discarded"}]
          BY <1>4, <1>8 DEF flow_node_close, OpenFailed, delete_delayed_packets, TypeOK
    <2>3. timer' \in BOOLEAN
          BY <2>1
    <2>4. QED
          BY <1>1, <1>2, <1>3, <1>4, <1>e, <2>1, <2>2, <2>3 DEF TypeOK
  <1>9. CASE flow_send_idle
        BY <1>1, <1>2, <1>3, <1>4, <1>9, <1>e DEF flow_send_idle, TypeOK
  <1>10. CASE dispatch_process
    <2>1. PICK c \in Walk(origin[Head(tmplist)], i) :
            got' = [got EXCEPT ![Head(tmplist)] = @ \cup {c}] /\ i' = c
          BY <1>10 DEF dispatch_process
    <2>2. c \in ConnIds
      <3>1. i = 0 \/ (i \in ConnIds /\ conns[i].src = origin[Head(tmplist)][1])
            BY <1>10 DEF dispatch_process, IInv, RouteInv
      <3>2. QED
            BY <1>2, <2>1, <3>1, WalkIsComplete DEF IInv, Routes
    <2>3. got' \in [Packets -> SUBSET ConnIds]
          BY <1>4, <2>1, <2>2 DEF TypeOK
    <2>4. QED
          BY <1>1, <1>2, <1>3, <1>4, <1>10, <2>3 DEF dispatch_process, TypeOK
  <1>11. CASE flow_send_do
    <2>1. tmplist' \in Seq(Packets)
          BY <1>4, <1>11, HeadTailProperties DEF flow_send_do, TypeOK
    <2>2. fate' \in [Packets -> {"none", "queued", "deleted", "exported", "discarded"}]
          BY <1>4, <1>11 DEF flow_send_do, TypeOK
    <2>3. QED
          BY <1>1, <1>2, <1>3, <1>4, <1>11, <2>1, <2>2 DEF flow_send_do, TypeOK
  <1>12. QED
         BY <1>5, <1>6, <1>7, <1>8, <1>9, <1>10, <1>11, StepCases

\* A queued packet has been sent, and the next one comes after all of them.
LEMMA QueuedIsSent ==
  ASSUME IInv
  PROVE  /\ \A k \in 1..Len(tmplist) : tmplist[k] \in Packets /\ tmplist[k] <= sent
         /\ \A k \in 1..Len(delayed_packets) : delayed_packets[k] \in Packets
                                                  /\ delayed_packets[k] <= sent
  <1>1. /\ tmplist \in Seq(Packets) /\ delayed_packets \in Seq(Packets)
        /\ Packets = 1..MaxPackets /\ MaxPackets \in Nat /\ sent \in Nat
        BY Constants DEF IInv, TypeOK
  <1>2. /\ \A k \in 1..Len(tmplist) : tmplist[k] \in Packets
        /\ \A k \in 1..Len(delayed_packets) : delayed_packets[k] \in Packets
        BY <1>1, ElementOfSeq
  <1>3. \A p \in Packets : fate[p] = "queued" => p <= sent
        BY <1>1 DEF IInv, QueueInv
  <1>4. \A p \in Packets : IsIn(p, tmplist) \/ IsIn(p, delayed_packets) => p <= sent
        BY <1>3 DEF IInv, QueueInv
  <1>5. QED
        BY <1>2, <1>4 DEF IsIn

\* Every step keeps the queue in the order of sending, with a timeout coming for it.
LEMMA QueueStep ==
  ASSUME IInv, Next, conns' = conns
  PROVE  QueueInv'
  <1> USE DEF Goes, nodeVars, queueVars, packetVars
  <1>1. /\ tmplist \in Seq(Packets) /\ delayed_packets \in Seq(Packets)
        /\ Packets = 1..MaxPackets /\ MaxPackets \in Nat /\ sent \in Nat
        /\ fate \in [Packets -> {"none", "queued", "deleted", "exported", "discarded"}]
        /\ timer \in BOOLEAN /\ delay_send \in BOOLEAN
        BY Constants DEF IInv, TypeOK
  <1>2. QueueInv
        BY DEF IInv
  <1>3. Increasing(<<>>) /\ \A p : ~IsIn(p, <<>>)
        BY DEF Increasing, IsIn
  <1>4. CASE Wiring
    <2>1. UNCHANGED <<delay_send, timer, delayed_packets, tmplist, sent, fate>>
          BY <1>4, WiringLinks
    <2>2. /\ pc' # "deliver" => tmplist = <<>>
          /\ pc' \in {"close_conns", "close_nodes", "gone"}
               <=> pc \in {"close_conns", "close_nodes", "gone"}
          /\ pc' \in {"down", "gone"} => delayed_packets = <<>>
          BY <1>2, <1>4 DEF Wiring, OpenNode, ConnectOut, ConnectIn, NodesOpened, ConnectUntyped,
             Connected, Disconnect, Disconnected, CloseNode, Closed, Delivered, QueueInv
    <2>3. QED
          BY <1>2, <2>1, <2>2 DEF QueueInv
  <1>5. CASE Sending
    <2>1. PICK n \in Nodes, port \in 0..PortError : flow_send(n, port) \/ Reject(n, port)
          BY <1>5 DEF Sending
    <2>2. /\ sent' = sent + 1 /\ sent' \in Packets /\ UNCHANGED <<pc, tmplist>>
          /\ pc \in {"opening", "connect_out", "connect_in", "up", "deliver"}
          BY <1>1, <1>5, <2>1 DEF Sending, flow_send, Reject
    <2>3. CASE Reject(n, port)
      <3>1. /\ UNCHANGED <<delay_send, timer, delayed_packets>>
            /\ fate' = [fate EXCEPT ![sent'] = "discarded"]
            BY <2>3 DEF Reject
      <3>2. ~IsIn(sent', tmplist) /\ ~IsIn(sent', delayed_packets)
            BY <1>1, <2>2, QueuedIsSent DEF IsIn
      <3>3. \A p \in Packets : fate'[p] = "queued" <=> IsIn(p, tmplist) \/ IsIn(p, delayed_packets)
            BY <1>1, <1>2, <3>1, <3>2 DEF QueueInv
      <3>4. \A p \in Packets : fate'[p] = "none" <=> p > sent'
            BY <1>1, <1>2, <2>2, <3>1 DEF QueueInv
      <3>5. QED
            BY <1>2, <2>2, <3>1, <3>3, <3>4 DEF QueueInv
    <2>4. CASE flow_send(n, port)
      <3>1. /\ delay_send' = TRUE /\ timer' = (timer \/ ~delay_send)
            /\ delayed_packets' = Append(delayed_packets, sent')
            /\ fate' = [fate EXCEPT ![sent'] = "queued"]
            BY <2>4 DEF flow_send
      <3>2. timer'
            BY <1>2, <2>2, <3>1 DEF QueueInv
      <3>3. /\ \A k \in 1..Len(delayed_packets) : delayed_packets[k] < sent'
            /\ \A k \in 1..Len(tmplist) : tmplist[k] < sent'
            BY <1>1, <2>2, QueuedIsSent
      <3>4. /\ \A p : IsIn(p, delayed_packets') <=> IsIn(p, delayed_packets) \/ p = sent'
            /\ \A k \in 1..Len(delayed_packets') :
                 delayed_packets'[k] = sent' \/ IsIn(delayed_packets'[k], delayed_packets)
            /\ Increasing(delayed_packets')
            BY <1>1, <1>2, <2>2, <3>1, <3>3, AppendedPacket DEF QueueInv
      <3>5. \A j \in 1..Len(tmplist), k \in 1..Len(delayed_packets') :
              tmplist[j] < delayed_packets'[k]
            BY <1>2, <3>3, <3>4 DEF QueueInv, IsIn
      <3>6. \A p \in Packets : fate'[p] = "queued" <=> IsIn(p, tmplist) \/ IsIn(p, delayed_packets')
            BY <1>1, <1>2, <3>1, <3>4 DEF QueueInv
      <3>7. \A p \in Packets : fate'[p] = "none" <=> p > sent'
            BY <1>1, <1>2, <2>2, <3>1 DEF QueueInv
      <3>8. QED
            BY <1>2, <2>2, <3>1, <3>2, <3>4, <3>5, <3>6, <3>7 DEF QueueInv
    <2>5. QED
          BY <2>1, <2>3, <2>4
  <1>6. CASE flow_node_open
        BY <1>2, <1>6 DEF flow_node_open, QueueInv
  <1>7. CASE flow_node_close \/ OpenFailed
    <2>1. /\ timer' = (timer /\ ~delay_send) /\ delayed_packets' = <<>>
          /\ pc' \in {"close_conns", "gone"} /\ pc \in {"up", "undo_nodes"}
          /\ UNCHANGED <<delay_send, tmplist, sent>>
          /\ fate' = [p \in Packets |-> IF IsIn(p, delayed_packets) THEN "discarded" ELSE fate[p]]
          BY <1>7 DEF flow_node_close, OpenFailed, delete_delayed_packets, IsIn
    <2>2. tmplist = <<>> /\ ~timer'
          BY <1>2, <2>1 DEF QueueInv
    <2>3. \A p \in Packets : fate'[p] # "queued" /\ (fate'[p] = "none" <=> p > sent)
          BY <1>2, <1>3, <2>1, <2>2 DEF QueueInv
    <2>4. QED
          BY <1>3, <2>1, <2>2, <2>3 DEF QueueInv
  <1>8. CASE flow_send_idle
    <2>1. /\ pc = "up" /\ pc' = "deliver" /\ ~timer' /\ ~delay_send'
          /\ tmplist' = delayed_packets /\ delayed_packets' = <<>> /\ UNCHANGED <<sent, fate>>
          /\ tmplist = <<>>
          BY <1>2, <1>8 DEF flow_send_idle, QueueInv
    <2>2. \A p \in Packets : fate[p] = "queued" <=> IsIn(p, delayed_packets)
          BY <1>2, <1>3, <2>1 DEF QueueInv
    <2>3. QED
          BY <1>2, <1>3, <2>1, <2>2 DEF QueueInv
  <1>9. CASE dispatch_process
        BY <1>2, <1>9 DEF dispatch_process, QueueInv
  <1>10. CASE flow_send_do
    <2> DEFINE h == Head(tmplist)
    <2>1. /\ pc = "deliver" /\ tmplist # <<>> /\ tmplist' = Tail(tmplist)
          /\ UNCHANGED <<pc, delay_send, timer, delayed_packets, sent>>
          /\ fate' = [fate EXCEPT ![h] = IF IsExported(origin[h]) THEN "exported" ELSE "deleted"]
          BY <1>10 DEF flow_send_do
    <2>2. /\ h \in Packets /\ Increasing(tmplist') /\ h = tmplist[1] /\ 1 \in 1..Len(tmplist)
          /\ \A p : IsIn(p, tmplist) <=> p = h \/ IsIn(p, tmplist')
          /\ \A k \in 1..Len(tmplist') : h < tmplist'[k] /\ k + 1 \in 1..Len(tmplist)
                                           /\ tmplist'[k] = tmplist[k + 1]
          BY <1>1, <1>2, <2>1, FirstPacket, EmptySeq DEF QueueInv
    <2> HIDE DEF h
    <2>3. ~IsIn(h, tmplist') /\ ~IsIn(h, delayed_packets)
          BY <1>1, <1>2, <2>1, <2>2 DEF QueueInv, IsIn
    <2>4. fate[h] = "queued"
          BY <1>2, <2>2 DEF QueueInv
    <2>5. \A p \in Packets : p # h => fate'[p] = fate[p]
          BY <1>1, <2>1, <2>2
    <2>6. fate'[h] \in {"exported", "deleted"}
          BY <1>1, <2>1, <2>2
    <2>7. \A p \in Packets : fate'[p] = "queued" <=> IsIn(p, tmplist') \/ IsIn(p, delayed_packets)
          BY <1>2, <2>2, <2>3, <2>5, <2>6 DEF QueueInv
    <2>8. \A p \in Packets : fate'[p] = "none" <=> p > sent
          BY <1>2, <2>2, <2>4, <2>5, <2>6 DEF QueueInv
    <2>9. \A j \in 1..Len(tmplist'), k \in 1..Len(delayed_packets) : tmplist'[j] < delayed_packets[k]
          BY <1>2, <2>2 DEF QueueInv
    <2>10. QED
          BY <1>2, <2>1, <2>2, <2>7, <2>8, <2>9 DEF QueueInv
  <1>11. QED
         BY <1>4, <1>5, <1>6, <1>7, <1>8, <1>9, <1>10, StepCases

\* Every step keeps the delivery of the packet in hand complete up to where it is.
LEMMA RouteStep ==
  ASSUME IInv, Next, conns' = conns
  PROVE  RouteInv'
  <1> USE DEF Goes, nodeVars, queueVars, packetVars
  <1>1. /\ tmplist \in Seq(Packets) /\ delayed_packets \in Seq(Packets)
        /\ Packets = 1..MaxPackets /\ MaxPackets \in Nat /\ sent \in Nat /\ i \in Nat
        /\ fate \in [Packets -> {"none", "queued", "deleted", "exported", "discarded"}]
        /\ got \in [Packets -> SUBSET ConnIds] /\ ConnIds' = ConnIds /\ ConnIds = 1..Len(conns)
        /\ origin \in [Packets -> Nodes \X (0..PortError)] /\ Len(conns) \in Nat
        BY Constants DEF IInv, TypeOK, ConnIds
  <1>2. RouteInv /\ QueueInv
        BY DEF IInv
  <1>r. \A o : Routes(o)' = Routes(o)
        BY <1>1 DEF Routes
  <1>3. CASE Wiring
    <2>1. UNCHANGED <<tmplist, origin, fate, got>> /\ pc' # "deliver"
          BY <1>3, WiringLinks
    <2>2. QED
          BY <1>2, <1>r, <2>1 DEF RouteInv
  <1>4. CASE Sending
    <2>1. PICK n \in Nodes, port \in 0..PortError : flow_send(n, port) \/ Reject(n, port)
          BY <1>4 DEF Sending
    <2>2. /\ sent' = sent + 1 /\ sent' \in Packets /\ UNCHANGED <<pc, i, tmplist, got>>
          /\ origin' = [origin EXCEPT ![sent'] = <<n, port>>]
          /\ \E f \in {"queued", "discarded"} : fate' = [fate EXCEPT ![sent'] = f]
          BY <1>1, <2>1 DEF flow_send, Reject
    <2>3. got[sent'] = {} /\ fate'[sent'] \in {"queued", "discarded"}
          BY <1>1, <1>2, <2>2 DEF RouteInv, QueueInv
    <2>4. \A p \in Packets : p # sent' => origin'[p] = origin[p] /\ fate'[p] = fate[p]
          BY <1>1, <2>2
    <2>5. tmplist # <<>> => Head(tmplist) \in Packets /\ Head(tmplist) # sent'
      <3>1. SUFFICES ASSUME tmplist # <<>> PROVE Head(tmplist) \in Packets /\ Head(tmplist) # sent'
            OBVIOUS
      <3>2. Head(tmplist) = tmplist[1] /\ 1 \in 1..Len(tmplist)
            BY <1>1, <1>2, <3>1, FirstPacket, EmptySeq DEF QueueInv
      <3>3. QED
            BY <1>1, <2>2, <3>2, QueuedIsSent
    <2>6. QED
          BY <1>2, <1>r, <2>2, <2>3, <2>4, <2>5, <1>1 DEF RouteInv
  <1>5. CASE flow_node_open
        BY <1>2, <1>r, <1>5 DEF flow_node_open, RouteInv
  <1>6. CASE flow_node_close \/ OpenFailed
    <2>1. /\ pc' # "deliver" /\ pc # "deliver" /\ UNCHANGED <<tmplist, origin, got>>
          /\ fate' = [p \in Packets |-> IF IsIn(p, delayed_packets) THEN "discarded" ELSE fate[p]]
          BY <1>6 DEF flow_node_close, OpenFailed, delete_delayed_packets, IsIn
    <2>2. tmplist = <<>>
          BY <1>2, <2>1 DEF QueueInv
    <2>3. \A p \in Packets : IsIn(p, delayed_packets) => fate[p] = "queued" /\ got[p] = {}
          BY <1>2, <2>2 DEF QueueInv, RouteInv
    <2>4. QED
          BY <1>2, <1>r, <2>1, <2>2, <2>3 DEF RouteInv
  <1>7. CASE flow_send_idle
    <2>1. /\ pc' = "deliver" /\ i' = 0 /\ UNCHANGED <<origin, fate, got>> /\ tmplist = <<>>
          /\ tmplist' = delayed_packets
          BY <1>2, <1>7 DEF flow_send_idle, QueueInv
    <2>2. \A p \in Packets : fate[p] = "queued" => got[p] = {}
          BY <1>2, <2>1 DEF RouteInv
    <2>3. tmplist' # <<>> => Head(tmplist') \in Packets /\ fate[Head(tmplist')] = "queued"
      <3>1. SUFFICES ASSUME tmplist' # <<>>
                     PROVE  Head(tmplist') \in Packets /\ fate[Head(tmplist')] = "queued"
            OBVIOUS
      <3>2. Head(tmplist') \in Packets /\ IsIn(Head(tmplist'), delayed_packets)
            BY <1>1, <1>2, <2>1, <3>1, FirstPacket DEF QueueInv
      <3>3. QED
            BY <1>2, <3>2 DEF QueueInv
    <2>4. \A o : {c \in Routes(o) : c <= 0} = {}
          BY <1>1 DEF Routes
    <2>5. QED
          BY <1>2, <1>r, <2>1, <2>2, <2>3, <2>4 DEF RouteInv
  <1>8. ASSUME tmplist # <<>>
        PROVE  Head(tmplist) \in Packets /\ fate[Head(tmplist)] = "queued"
    <2>1. Head(tmplist) \in Packets /\ IsIn(Head(tmplist), tmplist)
          BY <1>1, <1>2, <1>8, FirstPacket DEF QueueInv
    <2>2. QED
          BY <1>2, <2>1 DEF QueueInv
  <1> DEFINE h == Head(tmplist)
  <1>9. CASE dispatch_process
    <2>1. /\ pc = "deliver" /\ tmplist # <<>> /\ UNCHANGED <<pc, tmplist, origin, fate>>
          BY <1>9 DEF dispatch_process
    <2>2. /\ i = 0 \/ (i \in ConnIds /\ conns[i].src = origin[h][1])
          /\ got[h] = {c \in Routes(origin[h]) : c <= i}
          BY <1>2, <2>1 DEF RouteInv
    <2>3. Walk(origin[h], i) = {c \in Routes(origin[h]) : c > i}
          BY <1>1, <2>2, WalkIsComplete DEF IInv
    <2>4. PICK c \in Walk(origin[h], i) :
            /\ \A k \in Walk(origin[h], i) : c <= k
            /\ got' = [got EXCEPT ![h] = @ \cup {c}]
            /\ i' = c
          BY <1>9 DEF dispatch_process
    <2>5. c \in ConnIds /\ conns[c].src = origin[h][1] /\ c \in Routes(origin[h]) /\ c > i
          BY <2>3, <2>4 DEF Routes
    <2>6. h \in Packets /\ fate[h] = "queued"
          BY <1>8, <2>1
    <2> HIDE DEF h
    <2>7. {k \in Routes(origin[h]) : k <= c} = {k \in Routes(origin[h]) : k <= i} \cup {c}
      <3>1. c \in Nat /\ i \in Nat /\ \A k \in Routes(origin[h]) : k \in Nat
            BY <1>1, <2>5 DEF Routes
      <3>2. \A k \in Routes(origin[h]) : k > i => c <= k
            BY <2>3, <2>4
      <3>3. \A k \in Routes(origin[h]) : k <= c <=> k <= i \/ k = c
        <4> SUFFICES ASSUME NEW k \in Routes(origin[h]) PROVE k <= c <=> k <= i \/ k = c
            OBVIOUS
        <4>1. k \in Nat /\ (k > i => c <= k) /\ c > i
              BY <2>5, <3>1, <3>2
        <4>2. QED
              BY <3>1, <4>1
      <3>4. QED
            BY <2>5, <3>3
    <2>8. got'[h] = {k \in Routes(origin[h]) : k <= c} /\ \A p \in Packets : p # h => got'[p] = got[p]
          BY <1>1, <2>2, <2>4, <2>6, <2>7
    <2>9. Head(tmplist) = h /\ tmplist' = tmplist
          BY <2>1 DEF h
    <2>10. /\ \A p \in Packets : fate[p] \in {"deleted", "exported"} => got'[p] = Routes(origin[p])
           /\ \A p \in Packets : fate[p] \in {"none", "discarded"} => got'[p] = {}
           /\ \A p \in Packets : fate[p] = "queued" /\ p # h => got'[p] = {}
          BY <1>2, <2>1, <2>6, <2>8, <2>9 DEF RouteInv
    <2>11. QED
          BY <1>1, <1>r, <2>1, <2>4, <2>5, <2>8, <2>9, <2>10 DEF RouteInv
  <1>10. CASE flow_send_do
    <2>1. /\ pc = "deliver" /\ tmplist # <<>> /\ tmplist' = Tail(tmplist) /\ i' = 0
          /\ UNCHANGED <<pc, origin, got>> /\ Walk(origin[h], i) = {}
          /\ fate' = [fate EXCEPT ![h] = IF IsExported(origin[h]) THEN "exported" ELSE "deleted"]
          BY <1>10 DEF flow_send_do
    <2>2. /\ i = 0 \/ (i \in ConnIds /\ conns[i].src = origin[h][1])
          /\ got[h] = {c \in Routes(origin[h]) : c <= i}
          BY <1>2, <2>1 DEF RouteInv
    <2>3. Walk(origin[h], i) = {c \in Routes(origin[h]) : c > i}
          BY <1>1, <2>2, WalkIsComplete DEF IInv
    <2>4. h \in Packets /\ fate[h] = "queued"
          BY <1>8, <2>1
    <2>5. tmplist' # <<>> => Head(tmplist') \in Packets /\ Head(tmplist') # h
                               /\ fate[Head(tmplist')] = "queued"
      <3>1. SUFFICES ASSUME tmplist' # <<>>
                     PROVE  Head(tmplist') \in Packets /\ Head(tmplist') # h
                               /\ fate[Head(tmplist')] = "queued"
            OBVIOUS
      <3>2. /\ tmplist' \in Seq(Packets) /\ Increasing(tmplist')
            /\ \A p : IsIn(p, tmplist) <=> p = h \/ IsIn(p, tmplist')
            /\ \A k \in 1..Len(tmplist') : h < tmplist'[k]
            BY <1>1, <1>2, <2>1, FirstPacket DEF QueueInv
      <3>3. Head(tmplist') \in Packets /\ Head(tmplist') = tmplist'[1] /\ 1 \in 1..Len(tmplist')
            BY <3>1, <3>2, FirstPacket, EmptySeq
      <3> HIDE DEF h
      <3>4. Head(tmplist') # h
            BY <1>1, <2>4, <3>2, <3>3
      <3>5. IsIn(Head(tmplist'), tmplist)
            BY <3>2, <3>3 DEF IsIn
      <3>6. QED
            BY <1>2, <3>3, <3>4, <3>5 DEF QueueInv
    <2> HIDE DEF h
    <2>6. got[h] = Routes(origin[h])
      <3>1. \A c \in Routes(origin[h]) : c \in Nat /\ ~(c > i)
        <4>1. Routes(origin[h]) \subseteq Nat
              BY <1>1 DEF Routes
        <4>2. QED
              BY <2>1, <2>3, <4>1
      <3>2. \A c \in Routes(origin[h]) : c <= i
            BY <1>1, <3>1
      <3>3. QED
            BY <2>2, <3>2
    <2>7. /\ fate'[h] \in {"exported", "deleted"}
          /\ \A p \in Packets : p # h => fate'[p] = fate[p]
          BY <1>1, <2>1, <2>4
    <2>8. \A p \in Packets : p # h /\ fate[p] = "queued" => got[p] = {}
          BY <1>2 DEF RouteInv, h
    <2>9. \A o : {c \in Routes(o) : c <= 0} = {}
          BY <1>1 DEF Routes
    <2>10. QED
          BY <1>2, <1>r, <2>1, <2>4, <2>5, <2>6, <2>7, <2>8, <2>9 DEF RouteInv
  <1>11. QED
         BY <1>3, <1>4, <1>5, <1>6, <1>7, <1>9, <1>10, StepCases

\* Packets leave the queue from its front.
LEMMA OrderStep ==
  ASSUME IInv, Next, conns' = conns
  PROVE  OrderInv'
  <1> USE DEF Goes, nodeVars, queueVars, packetVars
  <1>1. /\ tmplist \in Seq(Packets) /\ Packets = 1..MaxPackets /\ MaxPackets \in Nat /\ sent \in Nat
        /\ fate \in [Packets -> {"none", "queued", "deleted", "exported", "discarded"}]
        BY Constants DEF IInv, TypeOK
  <1>2. OrderInv /\ QueueInv
        BY DEF IInv
  <1>3. CASE Wiring \/ flow_node_open \/ flow_send_idle \/ dispatch_process
    <2>1. fate' = fate
          BY <1>3, WiringLinks DEF flow_node_open, flow_send_idle, dispatch_process
    <2>2. QED
          BY <1>2, <2>1 DEF OrderInv
  <1>4. CASE Sending
    <2>1. PICK f \in {"queued", "discarded"} : fate' = [fate EXCEPT ![sent'] = f]
          BY <1>4 DEF Sending, flow_send, Reject
    <2>2. sent' = sent + 1 /\ sent' \in Packets
          BY <1>1, <1>4 DEF Sending, flow_send, Reject
    <2>3. /\ \A p \in Packets : p # sent' => fate'[p] = fate[p]
          /\ fate'[sent'] \notin {"deleted", "exported"}
          BY <1>1, <2>1, <2>2
    <2>4. \A q \in Packets : fate[q] \in {"deleted", "exported"} => q < sent'
          BY <1>1, <1>2, <2>2 DEF QueueInv
    <2>5. QED
          BY <1>2, <2>2, <2>3, <2>4 DEF OrderInv
  <1>5. CASE flow_node_close \/ OpenFailed
    <2>1. fate' = [p \in Packets |-> IF IsIn(p, delayed_packets) THEN "discarded" ELSE fate[p]]
          BY <1>5 DEF flow_node_close, OpenFailed, delete_delayed_packets, IsIn
    <2>2. QED
          BY <1>2, <2>1 DEF OrderInv
  <1>6. CASE flow_send_do
    <2> DEFINE h == Head(tmplist)
    <2>1. /\ tmplist # <<>>
          /\ fate' = [fate EXCEPT ![h] = IF IsExported(origin[h]) THEN "exported" ELSE "deleted"]
          BY <1>6 DEF flow_send_do
    <2>2. /\ h \in Packets /\ h = tmplist[1] /\ 1 \in 1..Len(tmplist)
          /\ \A p : IsIn(p, tmplist) <=> p = h \/ IsIn(p, Tail(tmplist))
          /\ \A k \in 1..Len(Tail(tmplist)) : h < Tail(tmplist)[k]
          BY <1>1, <1>2, <2>1, FirstPacket, EmptySeq DEF QueueInv
    <2> HIDE DEF h
    <2>3. /\ fate'[h] \in {"deleted", "exported"}
          /\ \A p \in Packets : p # h => fate'[p] = fate[p]
          BY <1>1, <2>1, <2>2
    <2>4. \A p \in Packets : fate[p] = "queued" /\ p # h => h < p
          BY <1>2, <2>2 DEF QueueInv, IsIn
    <2>5. QED
          BY <1>2, <2>2, <2>3, <2>4 DEF OrderInv
  <1>7. QED
        BY <1>3, <1>4, <1>5, <1>6, StepCases

-----------------------------------------------------------------------------
(* The inductive invariant.                                                *)

\* A type that was accepted, and nothing opened or sent.
LEMMA InitIInv == Init => IInv
  <1> SUFFICES ASSUME Init PROVE IInv
      OBVIOUS
  <1> USE DEF Init
  <1>1. conns \in Seq(Connection) /\ setup_conn_specs(conns)
        BY FlowAssumption DEF Connection
  <1>2. ConnsInv
        BY <1>1 DEF ConnsInv
  <1>3. Len(conns) \in Nat /\ NodeCount \in Nat \ {0} /\ MaxPackets \in Nat /\ PortError \in Nat
        BY <1>1, LenProperties, FlowTypeAssumption, FlowAssumption
  <1>4. TypeOK
    <2>1. <<>> \in Seq(Packets)
          OBVIOUS
    <2>2. <<0, 0>> \in Nodes \X (0..PortError)
          BY <1>3 DEF Nodes
    <2>3. i \in 0..(NodeCount + Len(conns) + 1) /\ sent \in 0..MaxPackets
          BY <1>3
    <2>4. /\ origin \in [Packets -> Nodes \X (0..PortError)]
          /\ fate \in [Packets -> {"none", "queued", "deleted", "exported", "discarded"}]
          /\ got \in [Packets -> SUBSET ConnIds]
          BY <2>2
    <2>5. QED
          BY <2>1, <2>3, <2>4 DEF TypeOK
  <1>5. LinkInv
        BY DEF LinkInv
  <1>6. QueueInv
    <2>1. Increasing(<<>>) /\ \A p : ~IsIn(p, <<>>)
          BY DEF Increasing, IsIn
    <2>2. \A p \in Packets : p > 0 /\ fate[p] = "none"
          BY <1>3 DEF Packets
    <2>3. QED
          BY <2>1, <2>2 DEF QueueInv
  <1>7. RouteInv
        BY DEF RouteInv
  <1>8. OrderInv
        BY DEF OrderInv
  <1>9. QED
        BY <1>2, <1>4, <1>5, <1>6, <1>7, <1>8 DEF IInv

\* Every step of the flow and of its nodes keeps the invariant.
LEMMA NextIInv == IInv /\ [Next]_vars => IInv'
  <1> SUFFICES ASSUME IInv, [Next]_vars PROVE IInv'
      OBVIOUS
  <1>1. ConnsInv' /\ conns' = conns
        BY ConnsStep DEF IInv
  <1>2. CASE Next
        BY <1>1, <1>2, TypeStep, LinkStep, QueueStep, RouteStep, OrderStep DEF IInv
  <1>3. CASE UNCHANGED vars
    <2>1. TypeOK'
          BY <1>3 DEF IInv, TypeOK, vars, ConnIds
    <2>2. LinkInv'
          BY <1>3 DEF IInv, LinkInv, vars, ConnIds, AllTyped, HasTypes
    <2>3. QueueInv' /\ OrderInv'
          BY <1>3 DEF IInv, QueueInv, OrderInv, vars
    <2>4. RouteInv'
          BY <1>3 DEF IInv, RouteInv, vars, Routes, ConnIds
    <2>5. QED
          BY <1>1, <2>1, <2>2, <2>3, <2>4 DEF IInv
  <1>4. QED
        BY <1>2, <1>3

\* The invariant holds in every state of a static flow.
THEOREM FlowInvariant == Spec => []IInv
  <1>1. QED
        BY InitIInv, NextIInv, PTL DEF Spec

-----------------------------------------------------------------------------
(* What follows from it.                                                   *)

\* Nodes and connections: only what connect() was called for is disconnected,
\* each connection once and whole, connections join open nodes, and process()
\* runs on complete connections only, whatever node fails to open or connect.
THEOREM LinksAlwaysMatch == Spec => []LinksMatchNodes
  <1>1. IInv => LinksMatchNodes
    <2> SUFFICES ASSUME IInv PROVE LinksMatchNodes
        OBVIOUS
    <2>1. /\ NodeCount \in Nat \ {0} /\ Len(conns) \in Nat /\ ConnIds = 1..Len(conns) /\ i \in Nat
          /\ \A c \in ConnIds : conns[c].src \in Nodes /\ conns[c].dst \in Nodes
          BY Constants DEF IInv
    <2>2. LinkInv /\ TypeOK
          BY DEF IInv
    <2>3. /\ linked_in \subseteq linked_out
          /\ pc \in {"undo_conns", "close_conns"} => linked_out = 1..i /\ linked_in = 1..i
          /\ pc \in {"up", "deliver"} => linked_in = ConnIds
          BY <2>1, <2>2 DEF LinkInv, TypeOK
    <2>4. ASSUME AllTyped, NEW c \in linked_out
          PROVE  conns[c].src \in opened /\ conns[c].dst \in opened
      <3>1. c \in ConnIds
            BY <2>2, <2>4 DEF TypeOK
      <3>2. linked_out = {} \/ opened = Nodes
            BY <2>2, <2>4 DEF LinkInv, TypeOK
      <3>3. QED
            BY <2>1, <2>4, <3>1, <3>2
    <2>5. QED
          BY <2>3, <2>4 DEF LinksMatchNodes, AllTyped
  <1>2. QED
        BY <1>1, FlowInvariant, PTL

\* The end: when flow_node_open() has failed or flow_node_close() returned, no
\* timeout is left that would run on the freed flow, no packet waits, and no
\* node is open or connected.
THEOREM GoneAlwaysClean == Spec => []GoneIsClean
  <1>1. IInv => GoneIsClean
    <2> SUFFICES ASSUME IInv, pc = "gone"
                 PROVE  /\ ~timer /\ \A p \in Packets : fate[p] # "queued"
                        /\ opened = {} /\ (AllTyped => linked_out = {} /\ linked_in = {})
        BY DEF GoneIsClean, AllTyped
    <2>1. opened = {} /\ (AllTyped => linked_out = {} /\ linked_in = {})
          BY DEF IInv, LinkInv
    <2>2. ~timer /\ delayed_packets = <<>> /\ tmplist = <<>>
          BY DEF IInv, QueueInv
    <2>3. \A p : ~IsIn(p, <<>>)
          BY DEF IsIn
    <2>4. \A p \in Packets : fate[p] # "queued"
          BY <2>2, <2>3 DEF IInv, QueueInv
    <2>5. QED
          BY <2>1, <2>2, <2>4
  <1>2. QED
        BY <1>1, FlowInvariant, PTL

\* A packet is in one place of one queue exactly as long as it is not settled.
LEMMA QueuedOnce ==
  ASSUME IInv, NEW p \in Packets
  PROVE  fate[p] = "queued" <=>
           Cardinality({k \in 1..Len(delayed_packets) : delayed_packets[k] = p})
             + Cardinality({k \in 1..Len(tmplist) : tmplist[k] = p}) = 1
  <1> DEFINE D == {k \in 1..Len(delayed_packets) : delayed_packets[k] = p}
             T == {k \in 1..Len(tmplist) : tmplist[k] = p}
  <1>1. QueueInv /\ Len(tmplist) \in Nat /\ Len(delayed_packets) \in Nat
        BY LenProperties DEF IInv, TypeOK
  <1>2. p \in Nat
        BY Constants DEF IInv
  <1>3. CASE fate[p] # "queued"
    <2>1. D = {} /\ T = {}
          BY <1>1, <1>3 DEF QueueInv, IsIn
    <2> HIDE DEF D, T
    <2>2. Cardinality(D) = 0 /\ Cardinality(T) = 0
          BY <2>1, FS_EmptySet
    <2>3. QED
          BY <1>3, <2>2 DEF D, T
  <1>4. CASE fate[p] = "queued"
    <2>1. \E k : (D = {k} /\ T = {}) \/ (D = {} /\ T = {k})
      <3>1. CASE IsIn(p, tmplist)
        <4>1. D = {}
              BY <1>1, <1>2, <3>1 DEF QueueInv, IsIn
        <4>2. PICK k \in 1..Len(tmplist) : tmplist[k] = p
              BY <3>1 DEF IsIn
        <4>3. \A j \in 1..Len(tmplist) : tmplist[j] = p => j = k
              BY <1>1, <1>2, <4>2 DEF QueueInv, Increasing
        <4>4. T = {k}
              BY <4>2, <4>3
        <4>5. QED
              BY <4>1, <4>4
      <3>2. CASE ~IsIn(p, tmplist)
        <4>1. T = {} /\ IsIn(p, delayed_packets)
              BY <1>1, <1>4, <3>2 DEF QueueInv, IsIn
        <4>2. PICK k \in 1..Len(delayed_packets) : delayed_packets[k] = p
              BY <4>1 DEF IsIn
        <4>3. \A j \in 1..Len(delayed_packets) : delayed_packets[j] = p => j = k
              BY <1>1, <1>2, <4>2 DEF QueueInv, Increasing
        <4>4. D = {k}
              BY <4>2, <4>3
        <4>5. QED
              BY <4>1, <4>4
      <3>3. QED
            BY <3>1, <3>2
    <2> HIDE DEF D, T
    <2>2. Cardinality({}) = 0 /\ \A k : Cardinality({k}) = 1
          BY FS_EmptySet, FS_Singleton
    <2>3. \/ Cardinality(D) = 1 /\ Cardinality(T) = 0
          \/ Cardinality(D) = 0 /\ Cardinality(T) = 1
      <3>1. PICK k : (D = {k} /\ T = {}) \/ (D = {} /\ T = {k})
            BY <2>1
      <3>2. Cardinality({k}) = 1
            BY <2>2
      <3>3. QED
            BY <2>2, <3>1, <3>2
    <2>4. Cardinality(D) + Cardinality(T) = 1
          BY <2>3
    <2>5. QED
          BY <1>4, <2>4 DEF D, T
  <1>5. QED
        BY <1>3, <1>4

\* Order: packets reach the other nodes in the order they were sent, none is
\* forgotten or deleted twice, and as long as one waits flow_send_idle() is
\* coming, whatever the callbacks of the nodes send.
THEOREM AlwaysDeliveredInOrder == Spec => []DeliveredInOrder
  <1>1. IInv => DeliveredInOrder
    <2> SUFFICES ASSUME IInv PROVE DeliveredInOrder
        OBVIOUS
    <2>1. QueuedHasTimeout
          BY QueuedOnce DEF QueuedHasTimeout, IInv, QueueInv
    <2>2. ASSUME NEW p \in Packets, NEW q \in Packets, p < q, got[q] # {}, fate[p] = "queued"
          PROVE  FALSE
      <3>0. Packets = 1..MaxPackets /\ MaxPackets \in Nat
            BY Constants DEF IInv
      <3>1. /\ QueueInv /\ RouteInv /\ OrderInv /\ p \in Nat /\ q \in Nat /\ tmplist \in Seq(Packets)
            /\ fate[q] \in {"none", "queued", "deleted", "exported", "discarded"}
            BY <3>0 DEF IInv, TypeOK
      <3>2. fate[q] = "queued" /\ tmplist # <<>> /\ q = Head(tmplist)
            BY <2>2, <3>1 DEF RouteInv, OrderInv
      <3>3. /\ q = tmplist[1] /\ 1 \in 1..Len(tmplist) /\ IsIn(q, tmplist)
            /\ \A k \in 1..Len(Tail(tmplist)) : q < Tail(tmplist)[k]
            /\ \A x : IsIn(x, tmplist) <=> x = q \/ IsIn(x, Tail(tmplist))
            BY <3>1, <3>2, FirstPacket, EmptySeq DEF QueueInv
      <3>4. IsIn(p, tmplist) \/ IsIn(p, delayed_packets)
            BY <2>2, <3>1 DEF QueueInv
      <3>5. CASE IsIn(p, tmplist)
            BY <2>2, <3>1, <3>3, <3>5 DEF IsIn
      <3>6. CASE IsIn(p, delayed_packets)
            BY <2>2, <3>1, <3>3, <3>6 DEF IsIn, QueueInv
      <3>7. QED
            BY <3>4, <3>5, <3>6
    <2>3. QED
          BY <2>1, <2>2 DEF DeliveredInOrder, IInv
  <1>2. QED
        BY <1>1, FlowInvariant, PTL

-----------------------------------------------------------------------------
(* Connection ids.                                                         *)

\* A set of indices has more elements than its part below one of them.
LEMMA PrefixIsSmaller ==
  ASSUME NEW l \in Nat, NEW T, T \subseteq 1..l, NEW c \in T, NEW B, B \subseteq T, c \notin B
  PROVE  Cardinality(B) \in Nat /\ Cardinality(T) \in Nat /\ Cardinality(B) < Cardinality(T)
  <1>1. IsFiniteSet(1..l)
        BY FS_Interval
  <1>2. IsFiniteSet(T) /\ IsFiniteSet(B)
        BY <1>1, FS_Subset
  <1>3. /\ Cardinality(B) <= Cardinality(T)
        /\ Cardinality(B) = Cardinality(T) => B = T
        BY <1>2, FS_Subset
  <1>4. Cardinality(B) \in Nat /\ Cardinality(T) \in Nat
        BY <1>2, FS_CardinalityType
  <1>5. QED
        BY <1>3, <1>4

\* The ids that setup_conn_ids() gives to the connections at the indices T.
Below(T, c) == {j \in T : j < c}

\* Two connections of one port have different ids.
LEMMA BelowDiffers ==
  ASSUME NEW l \in Nat, NEW T, T \subseteq 1..l, NEW c \in T, NEW d \in T, c # d
  PROVE  Cardinality(Below(T, c)) # Cardinality(Below(T, d))
  <1>1. ASSUME NEW x \in T, NEW y \in T, x < y
        PROVE  Cardinality(Below(T, x)) # Cardinality(Below(T, y))
    <2>1. /\ Below(T, y) \subseteq 1..l /\ x \in Below(T, y)
          /\ Below(T, x) \subseteq Below(T, y) /\ x \notin Below(T, x)
      <3>1. T \subseteq Int
            OBVIOUS
      <3>2. \A j \in T : j < x => j < y
            BY <1>1, <3>1
      <3>3. ~(x < x)
            BY <1>1, <3>1
      <3>4. QED
            BY <1>1, <3>2, <3>3 DEF Below
    <2>2. /\ Cardinality(Below(T, x)) \in Nat /\ Cardinality(Below(T, y)) \in Nat
          /\ Cardinality(Below(T, x)) < Cardinality(Below(T, y))
          BY <2>1, PrefixIsSmaller
    <2>3. QED
          BY <2>2
  <1>2. c < d \/ d < c
    <2>1. c \in Int /\ d \in Int
          OBVIOUS
    <2>2. QED
          BY <2>1
  <1>3. QED
        BY <1>1, <1>2

\* No connection of a port has the id that the next one would get.
LEMMA BelowIsLess ==
  ASSUME NEW l \in Nat, NEW T, T \subseteq 1..l, NEW c \in T
  PROVE  Cardinality(Below(T, c)) # Cardinality(T) + 0
  <1>1. Below(T, c) \subseteq T /\ c \notin Below(T, c)
    <2>1. c \in Int
          OBVIOUS
    <2>2. QED
          BY <2>1 DEF Below
  <1>2. /\ Cardinality(Below(T, c)) \in Nat /\ Cardinality(T) \in Nat
        /\ Cardinality(Below(T, c)) < Cardinality(T)
        BY <1>1, PrefixIsSmaller
  <1>3. QED
        BY <1>2

ToPort(n, port) == {j \in 1..Len(conns) : conns[j].dst = n /\ conns[j].dst_port = port}
FromPort(n, port) == {j \in 1..Len(conns) : conns[j].src = n /\ conns[j].src_port = port}

\* setup_conn_ids() numbers the connections of the ports it comes to.
LEMMA IdsDiffer ==
  ASSUME ConnsInv
  PROVE  ConnIdsDiffer
  <1>1. /\ Len(conns) \in Nat /\ ConnIds = 1..Len(conns)
        /\ \A c \in ConnIds : conns[c] \in Connection
        BY LenProperties, ElementOfSeq DEF ConnsInv, ConnIds
  <1>2. ASSUME NEW c \in ConnIds
        PROVE  /\ conns[c].src \in Nodes /\ conns[c].dst \in Nodes /\ conns[c].dst_port \in Nat
               /\ conns[c].dst_port < PortsIn[conns[c].dst]
               /\ conns[c].src_port = PortError \/ conns[c].src_port < PortsOut[conns[c].src]
    <2>1. conns[c] \in Connection /\ is_valid_spec(conns[c])
          BY <1>1, <1>2 DEF ConnsInv, setup_conn_specs
    <2>2. conns[c].src \in Nat /\ conns[c].dst \in Nat /\ conns[c].dst_port \in Nat
          BY <2>1 DEF Connection
    <2>3. QED
          BY <2>1, <2>2, FlowTypeAssumption DEF is_valid_spec, Nodes
  <1>3. ASSUME NEW specs, NEW u \in 1..Len(specs), Len(specs) \in Nat, IsMet(specs, u)
        PROVE  specs[u].port < PortsOut[specs[u].node]
        BY <1>3 DEF IsMet
  <1>4. \A c \in ConnIds : IsNumbered(c) =>
          in_conn_id(conns, c) = Cardinality(Below(ToPort(conns[c].dst, conns[c].dst_port), c))
        BY DEF IsNumbered, in_conn_id, ToSamePort, Below, ToPort
  <1>5. ASSUME NEW c \in ConnIds, conns[c].src_port < PortsOut[conns[c].src]
        PROVE  out_conn_id(conns, c)
                 = Cardinality(Below(FromPort(conns[c].src, conns[c].src_port), c))
    <2>1. Below(FromPort(conns[c].src, conns[c].src_port), c)
            = {j \in 1..(c - 1) : /\ conns[j].src = conns[c].src
                                  /\ conns[j].src_port = conns[c].src_port}
          BY <1>1 DEF Below, FromPort
    <2>2. QED
          BY <1>5, <2>1 DEF out_conn_id
  <1>6. /\ \A n, port : ToPort(n, port) \subseteq 1..Len(conns)
        /\ \A n, port : FromPort(n, port) \subseteq 1..Len(conns)
        /\ \A c \in ConnIds : /\ c \in ToPort(conns[c].dst, conns[c].dst_port)
                              /\ c \in FromPort(conns[c].src, conns[c].src_port)
        BY <1>1 DEF ToPort, FromPort
  <1>7. ASSUME NEW u \in 1..Len(ExportedIn), IsMet(ExportedIn, u)
        PROVE  exported_in_conn_id(conns, ExportedIn, u, 0)
                 = Cardinality(ToPort(ExportedIn[u].node, ExportedIn[u].port)) + 0
        BY <1>7 DEF exported_in_conn_id, ports_in_base_conn_id, ToPort
  <1>8. ASSUME NEW u \in 1..Len(ExportedOut), IsMet(ExportedOut, u)
        PROVE  exported_out_conn_id(conns, ExportedOut, u, 0)
                 = Cardinality(FromPort(ExportedOut[u].node, ExportedOut[u].port)) + 0
        BY <1>8 DEF exported_out_conn_id, ports_out_base_conn_id, FromPort
  <1>9. ASSUME NEW c \in ConnIds, NEW d \in ConnIds, c # d, d \in ToSamePort(conns, c), IsNumbered(c)
        PROVE  in_conn_id(conns, c) # in_conn_id(conns, d)
    <2>1. conns[d].dst = conns[c].dst /\ conns[d].dst_port = conns[c].dst_port /\ IsNumbered(d)
          BY <1>9 DEF ToSamePort, IsNumbered
    <2> DEFINE T == ToPort(conns[c].dst, conns[c].dst_port)
    <2>2. /\ T \subseteq 1..Len(conns) /\ c \in T /\ d \in T
          /\ in_conn_id(conns, c) = Cardinality(Below(T, c))
          /\ in_conn_id(conns, d) = Cardinality(Below(T, d))
          BY <1>4, <1>6, <1>9, <2>1
    <2> HIDE DEF T
    <2>3. QED
          BY <1>1, <1>9, <2>2, BelowDiffers
  <1>10. ASSUME NEW c \in ConnIds, NEW d \in ConnIds, c # d,
                conns[c].src = conns[d].src, conns[c].src_port = conns[d].src_port,
                conns[c].src_port # PortError
         PROVE  out_conn_id(conns, c) # out_conn_id(conns, d)
    <2>1. /\ conns[c].src_port < PortsOut[conns[c].src]
          /\ conns[d].src_port < PortsOut[conns[d].src]
          BY <1>2, <1>10
    <2> DEFINE T == FromPort(conns[c].src, conns[c].src_port)
    <2>2. /\ T \subseteq 1..Len(conns) /\ c \in T /\ d \in T
          /\ out_conn_id(conns, c) = Cardinality(Below(T, c))
          /\ out_conn_id(conns, d) = Cardinality(Below(T, d))
          BY <1>5, <1>6, <1>10, <2>1
    <2> HIDE DEF T
    <2>3. QED
          BY <1>1, <1>10, <2>2, BelowDiffers
  <1>11. ASSUME NEW u \in 1..Len(ExportedIn), NEW c \in ConnIds, IsMet(ExportedIn, u),
                conns[c].dst = ExportedIn[u].node, conns[c].dst_port = ExportedIn[u].port
         PROVE  in_conn_id(conns, c) # exported_in_conn_id(conns, ExportedIn, u, 0)
    <2>1. Len(ExportedIn) \in Nat
          BY FlowAssumption, LenProperties
    <2>2. IsNumbered(c)
          BY <1>3, <1>11, <2>1 DEF IsNumbered
    <2>3. QED
          BY <1>1, <1>4, <1>6, <1>7, <1>11, <2>2, BelowIsLess
  <1>12. ASSUME NEW u \in 1..Len(ExportedOut), NEW c \in ConnIds, IsMet(ExportedOut, u),
                conns[c].src = ExportedOut[u].node, conns[c].src_port = ExportedOut[u].port
         PROVE  out_conn_id(conns, c) # exported_out_conn_id(conns, ExportedOut, u, 0)
    <2>1. Len(ExportedOut) \in Nat
          BY FlowAssumption, LenProperties
    <2>2. conns[c].src_port < PortsOut[conns[c].src]
          BY <1>3, <1>12, <2>1
    <2>3. QED
          BY <1>1, <1>5, <1>6, <1>8, <1>12, <2>2, BelowIsLess
  <1>13. QED
         BY <1>9, <1>10, <1>11, <1>12 DEF ConnIdsDiffer

\* Routing: a packet that flow_send_do() is done with was given to every
\* connection of its port and to no other, for every array of connections that
\* setup_conn_specs() accepts and whatever ports the nodes have; and connections
\* on a port that setup_conn_ids() comes to can be told apart.
THEOREM AlwaysRoutedToAll == Spec => []RoutedToAll
  <1>1. ASSUME IInv PROVE RoutedToAll
    <2>1. ConnIdsDiffer
          BY <1>1, IdsDiffer DEF IInv
    <2>2. ASSUME NEW p \in Packets, fate[p] \in {"deleted", "exported"}
          PROVE  got[p] = {c \in ConnIds : <<conns[c].src, conns[c].src_port>> = origin[p]}
      <3>1. got[p] = Routes(origin[p])
            BY <1>1, <2>2 DEF IInv, RouteInv
      <3>2. origin[p] \in Nodes \X (0..PortError)
            BY <1>1, <2>2 DEF IInv, TypeOK
      <3>3. PICK n \in Nodes, port \in 0..PortError : origin[p] = <<n, port>>
            BY <3>2
      <3>4. Routes(<<n, port>>) = {c \in ConnIds : <<conns[c].src, conns[c].src_port>> = <<n, port>>}
            BY DEF Routes
      <3>5. QED
            BY <3>1, <3>3, <3>4
    <2>3. QED
          BY <2>1, <2>2 DEF RoutedToAll
  <1>2. QED
        BY <1>1, FlowInvariant, PTL
=============================================================================
