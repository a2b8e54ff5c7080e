-------------------------- MODULE ReferenceCycles --------------------------
(***************************************************************************)
(* detect_reference_cycles (src/index.cpp): the strongly connected         *)
(* components of the reference graph, by Tarjan's algorithm with a stack   *)
(* of frames in place of the recursion.  One step is one turn of a loop.   *)
(***************************************************************************)
EXTENDS DirectedGraphs, Integers, Sequences, FiniteSets, SequencesExt, FiniteSetsExt

CONSTANTS
    N,          \* nodes of the graph, interned as 1 .. N
    MaxEdges    \* bound: edges of the graphs looked at

ASSUME CyclesAssumption == N \in Nat /\ MaxEdges \in Nat

Node == 1 .. N
Unvisited == -1

VARIABLES
    edges,       \* graph.edges
    root,        \* the node the outer loop has come to
    indexOf,     \* index_of
    low,
    stack,       \* nodes whose component is open, the last on top
    onStack,     \* on_stack, as a set
    nextIndex,   \* next_index
    frames,      \* the frames of the depth-first search; a cursor is the target
                 \* it has passed last, and 0 before the first
    components   \* components, as sets

vars == <<edges, root, indexOf, low, stack, onStack, nextIndex, frames, components>>

Graphs == UNION {kSubset(n, Node \X Node) : n \in 0 .. MaxEdges}

Init ==
    /\ edges \in Graphs
    /\ root = 1
    /\ indexOf = [v \in Node |-> Unvisited]
    /\ low = [v \in Node |-> 0]
    /\ stack = <<>>
    /\ onStack = {}
    /\ nextIndex = 0
    /\ frames = <<>>
    /\ components = {}

Lesser(a, b) == IF a < b THEN a ELSE b

(* A node is numbered and put on both stacks.                              *)
Visit(v, below) ==
    /\ indexOf' = [indexOf EXCEPT ![v] = nextIndex]
    /\ low' = [low EXCEPT ![v] = nextIndex]
    /\ nextIndex' = nextIndex + 1
    /\ stack' = Append(stack, v)
    /\ onStack' = onStack \cup {v}
    /\ frames' = Append(below, [node |-> v, cursor |-> 0])

StartRoot ==
    /\ frames = <<>> /\ root <= N
    /\ indexOf[root] = Unvisited
    /\ Visit(root, <<>>)
    /\ UNCHANGED <<edges, root, components>>

SkipRoot ==
    /\ frames = <<>> /\ root <= N
    /\ indexOf[root] # Unvisited
    /\ root' = root + 1
    /\ UNCHANGED <<edges, indexOf, low, stack, onStack, nextIndex, frames, components>>

(* The edges of a node are passed in the order of their targets, each once.*)
Frame    == frames[Len(frames)]
Ahead    == {t \in Successors(edges, {Frame.node}) : t > Frame.cursor}
HasEdge  == frames # <<>> /\ Ahead # {}
Target   == Min(Ahead)
AdvancedNever == frames                        \* mutant: the cursor stays
Advanced == [frames EXCEPT ![Len(frames)].cursor = Target]

Descend ==
    /\ HasEdge
    /\ indexOf[Target] = Unvisited
    /\ Visit(Target, Advanced)
    /\ UNCHANGED <<edges, root, components>>

(* An edge to a node of an open component lowers the number of this one;   *)
(* one to a closed component does nothing.                                 *)
PassAnyEdge ==                                 \* mutant: closed components count
    /\ HasEdge
    /\ indexOf[Target] # Unvisited
    /\ low' = [low EXCEPT ![Frame.node] = Lesser(@, indexOf[Target])]
    /\ frames' = Advanced
    /\ UNCHANGED <<edges, root, indexOf, stack, onStack, nextIndex, components>>
PassEdge ==
    /\ HasEdge
    /\ indexOf[Target] # Unvisited
    /\ low' = [low EXCEPT ![Frame.node] =
                  IF Target \in onStack THEN Lesser(@, indexOf[Target]) ELSE @]
    /\ frames' = Advanced
    /\ UNCHANGED <<edges, root, indexOf, stack, onStack, nextIndex, components>>

(* A node without further edges leaves its frame.  If it is the first of   *)
(* its component, the component is what lies above it on the stack.        *)
Position(v) == CHOOSE i \in DOMAIN stack : stack[i] = v

Close(v) ==
    IF low[v] = indexOf[v]
    THEN LET component == ToSet(SubSeq(stack, Position(v), Len(stack)))
         IN /\ stack' = SubSeq(stack, 1, Position(v) - 1)
            /\ onStack' = onStack \ component
            /\ components' = components \cup {component}
    ELSE UNCHANGED <<stack, onStack, components>>

Return ==
    /\ frames # <<>> /\ ~ HasEdge
    /\ Close(Frame.node)
    /\ frames' = Front(frames)
    /\ low' = IF Len(frames) = 1 THEN low
              ELSE [low EXCEPT ![Last(frames').node] = Lesser(@, low[Frame.node])]
    /\ UNCHANGED <<edges, root, indexOf, nextIndex>>

Next ==
    \/ StartRoot
    \/ SkipRoot
    \/ Descend
    \/ PassEdge
    \/ Return

(* One thread runs the loop to its end.                                    *)
Spec == Init /\ [][Next]_vars /\ WF_vars(Next)

Done == root > N

(* What is reported: components of several nodes and self loops.           *)
Reported == {c \in components : Cardinality(c) > 1 \/ \E v \in c : <<v, v>> \in edges}

-----------------------------------------------------------------------------
(* The frames are a path of the graph, all of them are open, and both      *)
(* records of what is open agree.                                          *)
TypeOK ==
    /\ root \in 1 .. N + 1
    /\ indexOf \in [Node -> Unvisited .. N - 1]
    /\ low \in [Node -> 0 .. N - 1]
    /\ onStack = ToSet(stack) /\ Cardinality(onStack) = Len(stack)
    /\ \A i \in DOMAIN frames : frames[i].node \in onStack
    /\ \A i \in 2 .. Len(frames) : <<frames[i - 1].node, frames[i].node>> \in edges

(* The cycles it reports are the cycles of the graph, each once.           *)
FindsCycles == Done => Reported = Cycles(edges)

(* The search ends.                                                        *)
Terminates == <>Done
=============================================================================
