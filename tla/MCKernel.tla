------------------------------ MODULE MCKernel ------------------------------
(***************************************************************************)
(* Instances of Kernel for TLC.                                            *)
(***************************************************************************)
EXTENDS Kernel

CONSTANT MaxJoin    \* bound: inputs of a join

Up == [n \in 1..Cardinality(Nodes) |-> n]
Orders == {o \in [DOMAIN Up -> Nodes] : \A n \in Nodes : \E k \in DOMAIN Up : o[k] = n}

Kinds == [n \in Nodes |-> CASE n = 2 -> "call" [] n = 3 -> "timer" [] OTHER -> "cpu"]
CallKinds == [n \in Nodes |-> IF n = 2 THEN "call" ELSE "cpu"]
CpuKinds == [n \in Nodes |-> "cpu"]

Sources(n) ==
    {e \in Edges : e.to = n /\ e.from < n /\ e.port \in SuccessPorts(e.from) \cup {"error"}}

\* The ways to lead paths to node n: one edge, or a join of several.
Inlets(n) ==
    [join : {"none"}, edges : {{e} : e \in Sources(n)}]
      \cup IF Kind[n] # "cpu" \/ n \in Branches THEN {}
           ELSE [join : {"all", "any"},
                 edges : {s \in SUBSET Sources(n) : Cardinality(s) \in 2..MaxJoin}]

Define(inlets, keys) ==
    [edges |-> UNION {i.edges : i \in {inlets[k] : k \in DOMAIN inlets}},
     join |-> [n \in Nodes |-> IF n = Entry THEN "none" ELSE inlets[n - 1].join],
     keys |-> keys]

\* Every graph of four nodes, in every order of the nodes.
Graphs4 == {Define(i, keys) : i \in Inlets(2) \X Inlets(3) \X Inlets(4), keys \in Orders}
\* The same with the nodes in the order of their numbers.
Graphs4Up == {Define(i, Up) : i \in Inlets(2) \X Inlets(3) \X Inlets(4)}

\* An ANY between the error routes of two nodes that follow a third.
Twins ==
    LET edge(m, port, n) == [from |-> m, port |-> port, to |-> n]
    IN  {[edges |-> {edge(1, "success", 2), edge(2, "success", 3), edge(2, "success", 4),
                     edge(3, "error", 5), edge(4, "error", 5)},
          join |-> [n \in Nodes |-> IF n = 5 THEN "any" ELSE "none"],
          keys |-> keys] : keys \in Orders}
=============================================================================
