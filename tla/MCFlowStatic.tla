---------------------------- MODULE MCFlowStatic ----------------------------
(* Instances of FlowStatic for TLC: four nodes, the last of them a sink,   *)
(* every array of up to two of a few connections, and some of three,       *)
(* sorted or not.                                                          *)
EXTENDS FlowStatic, TLC

Conn(s, sp, d, dp) == [src |-> s, src_port |-> sp, dst |-> d, dst_port |-> dp]

\* Two ports of node 0, a chain, and an error port: two connections into node 2
\* and two into node 3, which has no out ports.
fan1 == Conn(0, 0, 1, 0)
fan2 == Conn(0, 0, 2, 0)
other == Conn(0, 1, 3, 0)
chain == Conn(1, 0, 2, 0)
error == Conn(1, 9, 3, 0)
untyped == Conn(1, 0, 2, 1)

AllSpecs ==
  UNION {[1..n -> {fan1, fan2, other, chain, error}] : n \in 0..2}
    \cup {<<fan1, fan2, other>>, <<other, chain, error>>, <<fan1, chain, fan2>>,
          <<fan1, untyped>>}

PortsUsed == {<<0, 0>>, <<0, 1>>, <<1, 0>>, <<1, 9>>}
PortOfChain == <<[node |-> 1, port |-> 0]>>
PortOfSecondLast == <<[node |-> 2, port |-> 0]>>

PortWithoutType == {<<2, 1>>}

OneInOrTwo == (0 :> 1) @@ (1 :> 1) @@ (2 :> 2) @@ (3 :> 1)
LastIsSink == (0 :> 2) @@ (1 :> 1) @@ (2 :> 1) @@ (3 :> 0)
=============================================================================
