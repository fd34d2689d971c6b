--------------------------- MODULE FlowStaticType ---------------------------
(***************************************************************************)
(* What sol-flow-static.c computes once per static flow type from the      *)
(* arrays of its specification: which specifications it accepts, where the *)
(* connections of a node start, and the connection ids that the nodes see. *)
(*                                                                         *)
(* Nodes and ports are numbered from 0 as in the code; sequences from 1.   *)
(***************************************************************************)
EXTENDS Naturals, Sequences, FiniteSets

CONSTANTS
  NodeCount,      \* type->node_count
  PortsIn,        \* per node, ports_in_count of its type
  PortsOut,       \* per node, ports_out_count of its type
  PortError       \* SOL_FLOW_NODE_PORT_ERROR, an out port of every node

Nodes == 0..(NodeCount - 1)

ASSUME FlowTypeAssumption ==
  /\ NodeCount \in Nat \ {0}
  /\ PortsIn \in [Nodes -> Nat] /\ PortsOut \in [Nodes -> Nat]
  /\ PortError \in Nat /\ \A n \in Nodes : PortsOut[n] <= PortError

OutPorts(n) == {p \in 0..PortError : p < PortsOut[n] \/ p = PortError}

-----------------------------------------------------------------------------
(* Connections: a sequence of records [src, src_port, dst, dst_port].      *)

is_valid_spec(c) ==
  /\ c.src < NodeCount /\ c.dst < NodeCount
  /\ c.src_port = PortError \/ c.src_port < PortsOut[c.src]
  /\ c.dst_port < PortsIn[c.dst]

\* Mutant of setup_conn_specs: the order of the connections is not verified.
MutOrderNotVerified(conns) == \A i \in 1..Len(conns) : is_valid_spec(conns[i])

\* setup_conn_specs() accepts valid connections sorted by source and port.
setup_conn_specs(conns) ==
  /\ \A i \in 1..Len(conns) : is_valid_spec(conns[i])
  /\ \A i \in 1..(Len(conns) - 1) :
       \/ conns[i].src < conns[i + 1].src
       \/ conns[i].src = conns[i + 1].src /\ conns[i].src_port <= conns[i + 1].src_port

\* The first connection of every node; of a node without any, the first of all.
first_conn_idx(conns, n) ==
  LET starts == {i \in 1..Len(conns) :
                   conns[i].src = n /\ (i = 1 \/ conns[i - 1].src # n)}
  IN  IF starts = {} THEN 1 ELSE CHOOSE i \in starts : \A j \in starts : j <= i

-----------------------------------------------------------------------------
(* Connection ids.  setup_conn_ids() numbers the connections of the out    *)
(* and of the in port "port" of every node, for port < ports_out_count;    *)
(* what it does not reach keeps the zero of calloc().                      *)

ToSamePort(conns, i) ==
  {j \in 1..Len(conns) : conns[j].dst = conns[i].dst /\ conns[j].dst_port = conns[i].dst_port}

in_conn_id(conns, i) ==
  IF conns[i].dst_port < PortsOut[conns[i].dst]
  THEN Cardinality({j \in ToSamePort(conns, i) : j < i})
  ELSE 0

out_conn_id(conns, i) ==
  IF conns[i].src_port < PortsOut[conns[i].src]
  THEN Cardinality({j \in 1..(i - 1) : /\ conns[j].src = conns[i].src
                                       /\ conns[j].src_port = conns[i].src_port})
  ELSE 0

\* Exported ports: a sequence of records [node, port], sorted without
\* duplicates.
validate_port_specs(specs) ==
  \A u \in 1..(Len(specs) - 1) :
    \/ specs[u].node < specs[u + 1].node
    \/ specs[u].node = specs[u + 1].node /\ specs[u].port < specs[u + 1].port

\* setup_conn_ids() walks over the ports and over the exported ports together:
\* exported port u is met if all before it were.
IsMet(specs, u) == \A v \in 1..u : specs[v].port < PortsOut[specs[v].node]

\* The ids of the connections from outside continue those from inside.
ports_in_base_conn_id(conns, specs, u) ==
  IF IsMet(specs, u)
  THEN Cardinality({j \in 1..Len(conns) : /\ conns[j].dst = specs[u].node
                                          /\ conns[j].dst_port = specs[u].port})
  ELSE 0

ports_out_base_conn_id(conns, specs, u) ==
  IF IsMet(specs, u)
  THEN Cardinality({j \in 1..Len(conns) : /\ conns[j].src = specs[u].node
                                          /\ conns[j].src_port = specs[u].port})
  ELSE 0

\* flow_exported_*(): the id that the child sees of connection "id" to the
\* exported port u of the flow.
exported_in_conn_id(conns, specs, u, id) == ports_in_base_conn_id(conns, specs, u) + id
exported_out_conn_id(conns, specs, u, id) == ports_out_base_conn_id(conns, specs, u) + id
=============================================================================
