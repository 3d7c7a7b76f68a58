------------------------------ MODULE Drawing ------------------------------
(***************************************************************************)
(* What a person draws in the editor of a flow: nodes from the palette,    *)
(* control edges between them, and the bindings that say which output an   *)
(* input takes.  The editor wires what it adds, takes away what pointed at *)
(* a removed node, and repairs the drawing whenever it is loaded, saved or *)
(* validated; the compiler says which drawings can run.  Configuration,    *)
(* paths and outputs typed by hand are left out.                           *)
(***************************************************************************)
EXTENDS Naturals, FiniteSets, SequencesExt

CONSTANTS
    MaxNodes,        \* bound on the nodes of a drawing
    MaxEdits         \* bound on the edits

\* The first input has a number.
ASSUME DrawingAssumption == MaxNodes \in Nat \ {0} /\ MaxEdits \in Nat

VARIABLES
    drawing,         \* the definition the page holds
    edits            \* edits so far

drawingVars == <<drawing, edits>>

NodeTypes == {"input", "mean", "condition", "map", "any"}
IsJoin(t) == t = "any"

\* A node is named after its type and numbered.
Ids == NodeTypes \X (1..MaxNodes)

JoinNames == {"a", "b"}
FieldNames == {"value", "field"}
NameLists == {<<"a", "b">>, <<"a">>, <<"b">>}

\* DrawnBindings: an output of a node, or a value written down.
Literal == [node |-> <<"literal", 0>>, output |-> "value"]
Output(id, name) == [node |-> id, output |-> name]
DrawnBindings == {Literal} \cup [node : Ids, output : {"value", "mean", "result"}]

\* A route, and the number that tells edges between the same ends apart.
Edges == [source : Ids, port : {"success", "true", "false"}, target : Ids,
          at : JoinNames \cup {"in"}, n : 1..2]

NodesOf(d) == {d.nodes[i].id : i \in DOMAIN d.nodes}
NodeOf(d, id) == d.nodes[CHOOSE i \in DOMAIN d.nodes : d.nodes[i].id = id]

DrawingTypeOK ==
    /\ drawing.entry \in Ids
    /\ Len(drawing.nodes) <= MaxNodes
    /\ \A i \in DOMAIN drawing.nodes :
          LET node == drawing.nodes[i]
          IN  /\ node.id \in Ids
              /\ DOMAIN node.inputs \subseteq JoinNames \cup FieldNames \cup {"left"}
              /\ \A name \in DOMAIN node.inputs : node.inputs[name] \in DrawnBindings
              /\ node.names \in NameLists \cup {<< >>}
    /\ drawing.edges \subseteq Edges
    /\ edits \in 0..MaxEdits

EmptyDefinition == [entry |-> <<"input", 1>>, nodes |-> << >>, edges |-> {}]

DrawingInit == drawing = EmptyDefinition /\ edits = 0

-----------------------------------------------------------------------------
(* Wiring. *)

\* The handles of a node, and the one an automatic edge leaves by.
SourcePorts(t) == IF t = "condition" THEN {"true", "false"} ELSE {"success"}
SourcePort(t) == IF t = "condition" THEN "true" ELSE "success"
TargetPorts(node) ==
    CASE IsJoin(node.id[1]) -> ToSet(node.names)
      [] node.id[1] = "input" -> {}
      [] OTHER -> {"in"}

OutputOf(t) == CASE t = "mean" -> "mean" [] t = "condition" -> "result" [] OTHER -> "value"
OutputFrom(id) == Output(id, OutputOf(id[1]))

\* The first node of a type, or the name it would have.
FirstNode(nodes, t) ==
    LET found == {i \in DOMAIN nodes : nodes[i].id[1] = t}
    IN  IF found = {} THEN <<t, 1>> ELSE nodes[Min(found)].id

NextNodeId(d, t) ==
    <<t, CHOOSE n \in 1..MaxNodes :
            <<t, n>> \notin NodesOf(d) /\ \A k \in 1..(n - 1) : <<t, k>> \in NodesOf(d)>>

\* What a new node reads.
WiredInputs(t, nodes) ==
    CASE t = "mean" -> [name \in {"value"} |-> Output(FirstNode(nodes, "input"), "value")]
      [] t = "condition" ->
            [name \in {"left"} |->
                IF \E i \in DOMAIN nodes : nodes[i].id[1] = "mean"
                THEN Output(FirstNode(nodes, "mean"), "mean")
                ELSE IF nodes = << >> THEN Output(<<"mean", 1>>, "value")
                ELSE OutputFrom(Last(nodes).id)]
      [] t = "map" /\ nodes # << >> -> [name \in {"value"} |-> OutputFrom(Last(nodes).id)]
      [] OTHER -> [name \in {} |-> Literal]

DefaultNode(t, id, nodes) ==
    [id |-> id, inputs |-> WiredInputs(t, nodes),
     names |-> IF IsJoin(t) THEN <<"a", "b">> ELSE << >>]

\* Where one edge may come in: a port of a join, and any other node as a whole.
SameInbound(e, target, at) == e.target = target /\ (IsJoin(target[1]) => e.at = at)

\* An input more, or another one.
Taking(inputs, name, b) ==
    [x \in DOMAIN inputs \cup {name} |-> IF x = name THEN b ELSE inputs[x]]

\* The node with some of its inputs replaced.
Rebound(d, id, inputs) ==
    [d EXCEPT !.nodes = [i \in DOMAIN d.nodes |->
        IF d.nodes[i].id = id THEN [d.nodes[i] EXCEPT !.inputs = inputs] ELSE d.nodes[i]]]

\* A new edge; a join takes the output of the node it comes from, unless it was
\* told what to take.
Connected(d, source, port, target, at) ==
    LET number == CHOOSE n \in 1..2 :
            ~\E e \in d.edges : e.source = source /\ e.port = port /\ e.target = target /\ e.n = n
        inputs == NodeOf(d, target).inputs
    IN  IF \E e \in d.edges : SameInbound(e, target, at)
        THEN d
        ELSE [(IF IsJoin(target[1]) /\ at \notin DOMAIN inputs
               THEN Rebound(d, target, Taking(inputs, at, OutputFrom(source)))
               ELSE d)
              EXCEPT !.edges = @ \cup {[source |-> source, port |-> port, target |-> target,
                                        at |-> at, n |-> number]}]

\* A join is connected with the last nodes, any other node with the last one.
Added(d, t) ==
    LET id == NextNodeId(d, t)
        node == DefaultNode(t, id, d.nodes)
        new == [d EXCEPT !.entry = IF d.nodes = << >> THEN id ELSE Head(d.nodes).id,
                         !.nodes = Append(@, node)]
        many == IF Len(d.nodes) > Len(node.names) THEN Len(node.names) ELSE Len(d.nodes)
        joined[i \in 0..many] ==
            LET source == d.nodes[Len(d.nodes) - many + i].id
            IN  IF i = 0 THEN new
                ELSE Connected(joined[i - 1], source, SourcePort(source[1]), id, node.names[i])
    IN  CASE IsJoin(t) -> joined[many]
          [] ~IsJoin(t) /\ d.nodes # << >> ->
                LET source == Last(d.nodes).id
                IN  Connected(new, source, SourcePort(source[1]), id, "in")
          [] OTHER -> new

\* The nodes but those with an id of gone, in their order.
Remaining(nodes, gone) ==
    LET upTo[k \in 0..Len(nodes)] ==
            IF k = 0 THEN << >>
            ELSE IF nodes[k].id \in gone THEN upTo[k - 1] ELSE Append(upTo[k - 1], nodes[k])
    IN  upTo[Len(nodes)]

\* The entry that is gone makes way for the first input, or for the first node.
Without(d, gone) ==
    LET Left(node) ==
            [node EXCEPT !.inputs = [name \in {x \in DOMAIN @ : @[x].node \notin gone} |-> @[name]]]
        kept == Remaining(d.nodes, gone)
    IN  [entry |-> IF d.entry \notin gone THEN d.entry
                   ELSE IF kept = << >> \/ \E i \in DOMAIN kept : kept[i].id[1] = "input"
                        THEN FirstNode(kept, "input")
                   ELSE Head(kept).id,
         nodes |-> [i \in DOMAIN kept |-> Left(kept[i])],
         edges |-> {e \in d.edges : e.source \notin gone /\ e.target \notin gone}]

\* Edges to ports that a join no longer has are dropped, and of several that come
\* in together one stays, the true branch of a condition before others.
RepairedEdges(d) ==
    LET known == {e \in d.edges :
                    IsJoin(e.target[1]) => e.at \in ToSet(NodeOf(d, e.target).names)}
        Together(e) == {f \in known : SameInbound(f, e.target, e.at)}
        Preferred(e) == {f \in Together(e) : f.port = "true" \/ \A g \in Together(e) : g.port # "true"}
    IN  [d EXCEPT !.edges = {e \in known : e = CHOOSE f \in Preferred(e) : TRUE}]

\* A binding whose node is gone is given to the first node of the kind it was for.
Repaired(d) ==
    LET Mended(node, name) ==
            LET binding == node.inputs[name]
                lost == binding # Literal /\ binding.node \notin NodesOf(d)
            IN  IF lost /\ node.id[1] = "mean" /\ name = "value"
                THEN Output(FirstNode(d.nodes, "input"), "value")
                ELSE IF lost /\ node.id[1] = "condition" /\ name = "left"
                THEN Output(FirstNode(d.nodes, "mean"), "mean")
                ELSE binding
    IN  RepairedEdges([d EXCEPT !.nodes = [i \in DOMAIN d.nodes |->
            [d.nodes[i] EXCEPT !.inputs = [name \in DOMAIN @ |-> Mended(d.nodes[i], name)]]]])

-----------------------------------------------------------------------------
(* What the compiler accepts. *)

EdgesBetween(d, S) == {<<e.source, e.target>> : e \in {x \in d.edges : x.source \in S}}

\* The nodes that a path of edges leads to, from some node of S.
Reached(d, S) ==
    LET far[k \in 0..Len(d.nodes)] ==
            IF k = 0 THEN S ELSE far[k - 1] \cup {p[2] : p \in EdgesBetween(d, far[k - 1])}
    IN  far[Len(d.nodes)]

IsAcyclic(d) == \A id \in NodesOf(d) : id \notin Reached(d, {e.target : e \in {x \in d.edges : x.source = id}})

\* The nodes whose output is there when a node starts: its predecessor and what that
\* had, and for a join what all its predecessors had.
Available(d) ==
    LET Inbound(id) == {e \in d.edges : e.target = id}
        Had(known, id) ==
            IF Inbound(id) = {} \/ id = d.entry THEN {}
            ELSE {m \in NodesOf(d) : \A e \in Inbound(id) :
                     m \in known[e.source] \/ (m = e.source /\ ~IsJoin(id[1]))}
        known[k \in 0..Len(d.nodes)] ==
            IF k = 0 THEN [id \in NodesOf(d) |-> {}]
            ELSE [id \in NodesOf(d) |-> Had(known[k - 1], id)]
    IN  known[Len(d.nodes)]

DataOutputs(t) ==
    CASE t = "mean" -> {"mean"} [] t = "condition" -> {"result"} [] OTHER -> {"value"}

\* The value of a join's input is read on the path of that input alone.
InReach(d, node, name, id) ==
    IF IsJoin(node.id[1]) /\ name \in ToSet(node.names)
    THEN \E e \in d.edges : /\ e.target = node.id /\ e.at = name
                            /\ (id = e.source \/ id \in Available(d)[e.source])
    ELSE id \in Available(d)[node.id]

ControlPortsAreKnown(d) ==
    \A e \in d.edges : /\ {e.source, e.target} \subseteq NodesOf(d)
                       /\ e.port \in SourcePorts(e.source[1])
                       /\ e.at \in TargetPorts(NodeOf(d, e.target))

JoinsAreWhole(d) ==
    \A id \in NodesOf(d) :
        LET inbound == {e \in d.edges : e.target = id} IN
        CASE IsJoin(id[1]) -> \A name \in ToSet(NodeOf(d, id).names) :
                /\ Cardinality({e \in inbound : e.at = name}) = 1
                /\ name \in DOMAIN NodeOf(d, id).inputs
          [] ~IsJoin(id[1]) /\ id = d.entry -> inbound = {} /\ id[1] = "input"
          [] OTHER -> Cardinality(inbound) = 1 /\ id[1] # "input"

ReferencesAreKnown(d) ==
    \A i \in DOMAIN d.nodes : \A name \in DOMAIN d.nodes[i].inputs :
        LET binding == d.nodes[i].inputs[name] IN
        binding # Literal =>
            /\ binding.node \in NodesOf(d) /\ binding.output \in DataOutputs(binding.node[1])
            /\ InReach(d, d.nodes[i], name, binding.node)

Compiles(d) ==
    /\ d.nodes # << >> /\ d.entry \in NodesOf(d)
    /\ ControlPortsAreKnown(d)
    /\ IsAcyclic(d) /\ NodesOf(d) = Reached(d, {d.entry})
    /\ JoinsAreWhole(d)
    /\ ReferencesAreKnown(d)

-----------------------------------------------------------------------------
(* Edits. *)

Draw(d) ==
    /\ edits < MaxEdits /\ d # drawing
    /\ drawing' = d /\ edits' = edits + 1

\* A click in the palette.
AddNode(t) == Len(drawing.nodes) < MaxNodes /\ Draw(Added(drawing, t))

\* A line from one handle to another, of the same node too.
Connect(source, port, target, at) ==
    /\ port \in SourcePorts(source[1]) /\ at \in TargetPorts(NodeOf(drawing, target))
    /\ Draw(Connected(drawing, source, port, target, at))

RemoveNodes(gone) == Draw(Without(drawing, gone))

RemoveEdge(e) == Draw([drawing EXCEPT !.edges = @ \ {e}])

\* The names of a join: inputs and edges of the names that go, go with them.
Renamed(d, id, names) ==
    LET Node(node) == [node EXCEPT !.names = names,
                                   !.inputs = [x \in DOMAIN @ \cap ToSet(names) |-> @[x]]]
    IN  [d EXCEPT !.nodes = [i \in DOMAIN d.nodes |->
            IF d.nodes[i].id = id THEN Node(d.nodes[i]) ELSE d.nodes[i]]]

SetJoinNames(id, names) == IsJoin(id[1]) /\ Draw(RepairedEdges(Renamed(drawing, id, names)))

\* An input of a join or a field of a map takes the output of another node, a field
\* also a value written down; the path of a mean is one of the input of the flow.
BindInput(id, name, source) ==
    LET node == NodeOf(drawing, id)
        Takes(b) == Draw(Rebound(drawing, id, Taking(node.inputs, name, b)))
    IN  \/ IsJoin(id[1]) /\ name \in ToSet(node.names) /\ source # id /\ Takes(OutputFrom(source))
        \/ id[1] = "map" /\ name \in DOMAIN node.inputs /\ source # id /\ Takes(OutputFrom(source))
        \/ id[1] = "map" /\ name \in DOMAIN node.inputs /\ Takes(Literal)
        \/ id[1] = "mean" /\ name = "value" /\ Takes(Output(FirstNode(drawing.nodes, "input"), "value"))

\* A field is added, with the last of the other nodes, taken away, or named anew.
AddField(id, name) ==
    LET others == Remaining(drawing.nodes, {id})
        inputs == NodeOf(drawing, id).inputs
    IN  /\ id[1] = "map" /\ name = "field" /\ name \notin DOMAIN inputs
        /\ Draw(Rebound(drawing, id,
              Taking(inputs, name, IF others = << >> THEN Literal ELSE OutputFrom(Last(others).id))))

RemoveField(id, name) ==
    LET inputs == NodeOf(drawing, id).inputs
    IN  /\ id[1] = "map" /\ name \in DOMAIN inputs
        /\ Draw(Rebound(drawing, id, [x \in DOMAIN inputs \ {name} |-> inputs[x]]))

RenameField(id, from, to) ==
    LET inputs == NodeOf(drawing, id).inputs
    IN  /\ id[1] = "map" /\ from \in DOMAIN inputs /\ to \notin DOMAIN inputs
        /\ Draw(Rebound(drawing, id,
              [x \in (DOMAIN inputs \ {from}) \cup {to} |-> inputs[IF x = to THEN from ELSE x]]))

\* The page loads, saves or validates the drawing.
Repair == Draw(Repaired(drawing))

DrawingNext ==
    \/ \E t \in NodeTypes : AddNode(t)
    \/ \E s, t \in NodesOf(drawing), port \in {"success", "true", "false"},
          at \in JoinNames \cup {"in"} : Connect(s, port, t, at)
    \/ \E gone \in SUBSET NodesOf(drawing) \ {{}} : RemoveNodes(gone)
    \/ \E e \in drawing.edges : RemoveEdge(e)
    \/ \E id \in NodesOf(drawing), names \in NameLists : SetJoinNames(id, names)
    \/ \E id, source \in NodesOf(drawing), name \in JoinNames \cup FieldNames :
          BindInput(id, name, source)
    \/ \E id \in NodesOf(drawing), name \in FieldNames : AddField(id, name) \/ RemoveField(id, name)
    \/ \E id \in NodesOf(drawing), from, to \in FieldNames : RenameField(id, from, to)
    \/ Repair

DrawingSpec == DrawingInit /\ [][DrawingNext]_drawingVars

-----------------------------------------------------------------------------
(* What holds. *)

\* Numbers are given again, yet nothing of a removed node is taken for its namesake:
\* edges join nodes that are there, and so do bindings, but for the first input and
\* the first mean, which a node may be wired to before they are added.
NothingDangles ==
    /\ \A e \in drawing.edges : {e.source, e.target} \subseteq NodesOf(drawing)
    /\ \A i \in DOMAIN drawing.nodes : \A name \in DOMAIN drawing.nodes[i].inputs :
          LET binding == drawing.nodes[i].inputs[name]
          IN  binding = Literal \/ binding.node \in NodesOf(drawing) \cup {<<"input", 1>>, <<"mean", 1>>}

\* However edges are drawn, removed and drawn again, one comes in at a time, at a port
\* that its target has, and what is drawn as one line is one edge.
EdgesAreSingle ==
    \A e, f \in drawing.edges :
        /\ SameInbound(f, e.target, e.at) => e = f
        /\ [e EXCEPT !.at = "in"] = [f EXCEPT !.at = "in"] => e = f
        /\ IsJoin(e.target[1]) => e.at \in ToSet(NodeOf(drawing, e.target).names)

\* Saving repairs what is broken and nothing else: what the compiler accepts is saved
\* as it was drawn, and there is nothing left to repair afterwards.
RepairKeeps ==
    /\ Compiles(drawing) => Repaired(drawing) = drawing
    /\ Repaired(Repaired(drawing)) = Repaired(drawing)

\* Nodes pressed one after the other make a flow that runs: one that compiles, and
\* starts with its first node, still compiles with a map after its last node.
ChainsCompile ==
    Compiles(drawing) /\ drawing.entry = Head(drawing.nodes).id /\ Len(drawing.nodes) < MaxNodes
        => Compiles(Added(drawing, "map"))

DrawingHolds == NothingDangles /\ EdgesAreSingle /\ RepairKeeps /\ ChainsCompile

(***************************************************************************)
(* Said of the editor, and not so.                                         *)
(***************************************************************************)

\* flow-canvas.tsx:156: a node pressed after another is connected with it.  A second
\* input is, though an input takes no edge; a join with fewer nodes before it than it
\* has names, and a condition after another branch's mean, do not compile.
AddingConnects ==
    \A t \in NodeTypes :
        Compiles(drawing) /\ Len(drawing.nodes) < MaxNodes => Compiles(Added(drawing, t))

\* addNode sets the entry to the first node, also when it was moved to another one.
AddingKeepsEntry ==
    \A t \in NodeTypes :
        Compiles(drawing) /\ Len(drawing.nodes) < MaxNodes => Added(drawing, t).entry = drawing.entry

\* toolbar.tsx:56: validation finds missing settings.  A condition whose mean was
\* removed has nothing to compare, and no field of the editor gives it anything.
ValidationFindsMissing ==
    Compiles(drawing) => \A i \in DOMAIN drawing.nodes :
        drawing.nodes[i].id[1] = "condition" => "left" \in DOMAIN drawing.nodes[i].inputs
=============================================================================
