----------------------- MODULE ReferenceCycles_proofs -----------------------
(***************************************************************************)
(* Proofs about ReferenceCycles for every graph: the search ends with all  *)
(* strongly connected components, and reports exactly the cycles.          *)
(*                                                                         *)
(* What the search knows is about numbers: the stack is in their order,    *)
(* and so are the frames.  A frame reaches all that lies above its node on *)
(* the stack, every node of the stack reaches a frame at or below itself   *)
(* (ReachInv), and low is the number of a node that is reached, and no     *)
(* more than that of any the edges passed so far lead to (LowInv).  So a   *)
(* node whose low is its own number has, with all above it, no edge to     *)
(* what is below it: they are a component.                                 *)
(***************************************************************************)
EXTENDS ReferenceCycles, FiniteSetTheorems, SequenceTheorems, WellFoundedInduction, TLAPS

-----------------------------------------------------------------------------
(* The least of a set of numbers                                           *)

LEMMA MinIsLeast ==
    ASSUME NEW T \in SUBSET Nat, T # {}
    PROVE  Min(T) \in T /\ \A t \in T : Min(T) <= t
<1>1. IsWellFoundedOn(OpToRel(<, Nat), Nat)
  BY NatLessThanWellFounded
<1>2. PICK m \in T : \A t \in T : ~ (<<t, m>> \in OpToRel(<, Nat))
  BY <1>1, WFMin
<1>3. \A t \in T : ~ (t < m)
  BY <1>2 DEF OpToRel
<1>4. \E x \in T : \A t \in T : x <= t
  BY <1>3
<1> QED
  BY <1>4 DEF Min

-----------------------------------------------------------------------------
(* Paths *)

Keeps(E, X) == \A x \in X, t \in Node : <<x, t>> \in E => t \in X

(* A path of any length leads from a to b.                                 *)
Reach(E, a, b) == \A X \in SUBSET Node : a \in X /\ Keeps(E, X) => b \in X

LEMMA ReachSelf ==
    ASSUME NEW E, NEW a
    PROVE  Reach(E, a, a)
BY DEF Reach

LEMMA ReachFurther ==
    ASSUME NEW E, NEW a, NEW b, NEW c, Reach(E, a, b), Reach(E, b, c)
    PROVE  Reach(E, a, c)
BY DEF Reach

LEMMA ReachEdge ==
    ASSUME NEW E, NEW a, NEW b \in Node, <<a, b>> \in E
    PROVE  Reach(E, a, b)
BY DEF Reach, Keeps

-----------------------------------------------------------------------------
(* The invariant *)

FrameType == [node : Node, cursor : 0 .. N]

Types ==
    /\ edges \subseteq Node \X Node
    /\ root \in 1 .. N + 1
    /\ indexOf \in [Node -> Int]
    /\ nextIndex \in Nat
    /\ \A v \in Node : -1 <= indexOf[v] /\ indexOf[v] < nextIndex
    /\ low \in [Node -> Nat]
    /\ stack \in Seq(Node)
    /\ frames \in Seq(FrameType)
    /\ components \in SUBSET SUBSET Node

Visited(v)  == indexOf[v] # Unvisited
ClosedNodes == UNION components

(* The stack is in the order of the numbers.  What was visited is on it or *)
(* in a component.                                                         *)
StackInv ==
    /\ onStack = ToSet(stack)
    /\ \A i, j \in DOMAIN stack : i < j => indexOf[stack[i]] < indexOf[stack[j]]
    /\ \A v \in Node : Visited(v) <=> v \in onStack \cup ClosedNodes
    /\ onStack \cap ClosedNodes = {}

FrameInv ==
    /\ \A i \in DOMAIN frames : frames[i].node \in onStack
    /\ \A i, j \in DOMAIN frames :
         i < j => indexOf[frames[i].node] < indexOf[frames[j].node]

(* The search has passed the edge from x to t, or is past all of x.        *)
Passed(x, t) == \A i \in DOMAIN frames : frames[i].node = x => t <= frames[i].cursor

EdgeInv ==
    /\ \A x \in onStack, t \in Node :
         <<x, t>> \in edges /\ Passed(x, t) => Visited(t)
    /\ Keeps(edges, ClosedNodes)

ReachInv ==
    /\ \A i \in DOMAIN frames : \A x \in onStack :
         indexOf[frames[i].node] <= indexOf[x] => Reach(edges, frames[i].node, x)
    /\ \A x \in onStack : \E i \in DOMAIN frames :
         /\ indexOf[frames[i].node] <= indexOf[x]
         /\ Reach(edges, x, frames[i].node)

(* Frame i is the last at or below x.                                      *)
Owns(i, x) ==
    /\ indexOf[frames[i].node] <= indexOf[x]
    /\ \A j \in DOMAIN frames : i < j => indexOf[x] < indexOf[frames[j].node]

LowInv ==
    \A i \in DOMAIN frames :
        LET f == frames[i].node
        IN /\ low[f] <= indexOf[f]
           /\ \E u \in onStack : indexOf[u] = low[f] /\ Reach(edges, f, u)
           /\ \A x, t \in onStack :
                Owns(i, x) /\ <<x, t>> \in edges /\ Passed(x, t) => low[f] <= indexOf[t]

(* The nodes that x reaches and that reach x.                              *)
ComponentOf(E, x) == {y \in Node : Reach(E, x, y) /\ Reach(E, y, x)}

ComponentInv == \A c \in components : \A x \in c : c = ComponentOf(edges, x)

RootInv ==
    /\ \A v \in 1 .. root - 1 : Visited(v)
    /\ root > N => frames = <<>>

SearchInv ==
    /\ Types /\ StackInv /\ FrameInv /\ EdgeInv /\ ReachInv /\ LowInv
    /\ ComponentInv /\ RootInv

LEMMA InitInv == Init => SearchInv
<1> SUFFICES ASSUME Init PROVE SearchInv
  OBVIOUS
<1>1. /\ root = 1 /\ stack = <<>> /\ onStack = {} /\ nextIndex = 0 /\ frames = <<>>
      /\ components = {} /\ N \in Nat
      /\ indexOf = [v \in Node |-> Unvisited] /\ low = [v \in Node |-> 0]
  BY CyclesAssumption DEF Init
<1>2. edges \subseteq Node \X Node
  <2>1. PICK n \in 0 .. MaxEdges : edges \in kSubset(n, Node \X Node)
    BY DEF Init, Graphs
  <2> QED
    BY <2>1 DEF kSubset
<1>3. DOMAIN stack = {} /\ DOMAIN frames = {} /\ ClosedNodes = {} /\ ToSet(stack) = {}
  BY <1>1 DEF ClosedNodes, ToSet
<1>4. \A v \in Node : indexOf[v] = -1
  BY <1>1 DEF Unvisited
<1>5. Types
  BY <1>1, <1>2, <1>4 DEF Types, Unvisited
<1>6. StackInv /\ FrameInv
  BY <1>1, <1>3, <1>4 DEF StackInv, FrameInv, Visited, Unvisited
<1>7. EdgeInv /\ ReachInv /\ LowInv
  BY <1>1, <1>3 DEF EdgeInv, ReachInv, LowInv, Keeps
<1>8. ComponentInv /\ RootInv
  BY <1>1 DEF ComponentInv, RootInv
<1> QED
  BY <1>5, <1>6, <1>7, <1>8 DEF SearchInv

-----------------------------------------------------------------------------
(* A node is visited                                                       *)

(* The first n frames stay, up to the cursor of the top, which may pass    *)
(* the edge to v.                                                          *)
Stays(below, v) ==
    /\ below \in Seq(FrameType) /\ Len(below) = Len(frames)
    /\ \A i \in DOMAIN frames :
         /\ below[i].node = frames[i].node
         /\ \A t \in Node :
              t <= below[i].cursor /\ <<frames[i].node, t>> \in edges
              => t <= frames[i].cursor \/ t = v
    /\ frames # <<>> => <<frames[Len(frames)].node, v>> \in edges

LEMMA VisitKeeps ==
    ASSUME SearchInv, NEW v \in Node, ~ Visited(v), root <= N,
           NEW below, Stays(below, v), Visit(v, below),
           UNCHANGED <<edges, root, components>>
    PROVE  SearchInv'
<1> DEFINE n == Len(frames)
           new == [node |-> v, cursor |-> 0]
<1>1. /\ Types /\ StackInv /\ FrameInv /\ EdgeInv /\ ReachInv /\ LowInv
      /\ ComponentInv /\ RootInv
  BY DEF SearchInv
<1>2. /\ edges' = edges /\ root' = root /\ components' = components
      /\ indexOf' = [indexOf EXCEPT ![v] = nextIndex]
      /\ low' = [low EXCEPT ![v] = nextIndex]
      /\ nextIndex' = nextIndex + 1
      /\ stack' = Append(stack, v) /\ onStack' = onStack \cup {v}
      /\ frames' = Append(below, new)
  BY DEF Visit
<1>3. /\ edges \subseteq Node \X Node /\ N \in Nat /\ n \in Nat /\ nextIndex \in Nat
      /\ stack \in Seq(Node) /\ frames \in Seq(FrameType) /\ below \in Seq(FrameType)
      /\ Len(below) = n /\ DOMAIN frames = 1 .. n
      /\ new \in FrameType
  BY <1>1, CyclesAssumption DEF Types, Stays, FrameType
<1>4. /\ indexOf \in [Node -> Int] /\ low \in [Node -> Nat]
      /\ \A x \in Node : indexOf[x] \in Int /\ low[x] \in Nat
      /\ \A x \in Node : -1 <= indexOf[x] /\ indexOf[x] < nextIndex
  BY <1>1 DEF Types
<1>5. /\ indexOf'[v] = nextIndex /\ low'[v] = nextIndex
      /\ \A x \in Node : x # v => indexOf'[x] = indexOf[x] /\ low'[x] = low[x]
  BY <1>2, <1>4
<1>6. v \notin onStack /\ v \notin ClosedNodes
  BY <1>1 DEF StackInv
<1>7. \A x \in onStack : x \in Node /\ x # v
  BY <1>1, <1>3, <1>6 DEF StackInv, ToSet
<1>8. \A x \in onStack : indexOf'[x] = indexOf[x] /\ indexOf[x] < nextIndex
  BY <1>4, <1>5, <1>7
<1>9. /\ frames' \in Seq(FrameType) /\ Len(frames') = n + 1 /\ DOMAIN frames' = 1 .. n + 1
      /\ \A i \in 1 .. n : frames'[i] = below[i]
      /\ frames'[n + 1] = new
  BY <1>2, <1>3
<1>10. \A i \in 1 .. n :
         /\ frames'[i].node = frames[i].node /\ frames[i].node \in onStack
         /\ frames[i].node # v
  BY <1>1, <1>3, <1>7, <1>9 DEF Stays, FrameInv
<1>11. ClosedNodes' = ClosedNodes
  BY <1>2 DEF ClosedNodes
<1>12. \A x, t \in Node : <<x, t>> \in edges /\ Passed(x, t)' => Passed(x, t) \/ t = v
  <2> SUFFICES ASSUME NEW x \in Node, NEW t \in Node, <<x, t>> \in edges, Passed(x, t)', t # v
               PROVE  Passed(x, t)
    OBVIOUS
  <2>1. \A i \in 1 .. n : below[i].node = x => t <= below[i].cursor
    BY <1>9 DEF Passed
  <2> QED
    BY <1>3, <2>1 DEF Passed, Stays
<1>13. \A t \in Node : ~ Passed(v, t)'
  <2> SUFFICES ASSUME NEW t \in Node, Passed(v, t)' PROVE FALSE
    OBVIOUS
  <2>1. n + 1 \in DOMAIN frames' /\ frames'[n + 1].node = v /\ frames'[n + 1].cursor = 0
    BY <1>3, <1>9
  <2>2. t <= 0
    BY <2>1 DEF Passed
  <2> QED
    BY <1>3, <2>2 DEF Node
<1>14. Types'
  <2>1. \A x \in Node : -1 <= indexOf'[x] /\ indexOf'[x] < nextIndex'
    BY <1>2, <1>3, <1>4, <1>5
  <2>2. /\ indexOf' \in [Node -> Int] /\ low' \in [Node -> Nat]
        /\ stack' \in Seq(Node) /\ nextIndex' \in Nat
    BY <1>2, <1>3, <1>4
  <2> QED
    BY <1>1, <1>2, <1>9, <2>1, <2>2 DEF Types
<1>15. StackInv'
  <2>1. /\ DOMAIN stack = 1 .. Len(stack) /\ Len(stack) \in Nat
        /\ DOMAIN stack' = 1 .. Len(stack) + 1
        /\ \A i \in 1 .. Len(stack) : stack'[i] = stack[i] /\ stack[i] \in onStack
        /\ stack'[Len(stack) + 1] = v
    BY <1>1, <1>2, <1>3 DEF StackInv, ToSet
  <2>2. onStack' = ToSet(stack')
    <3>1. onStack = {stack[i] : i \in 1 .. Len(stack)}
      BY <1>1, <2>1 DEF StackInv, ToSet
    <3>2. ToSet(stack') = {stack'[i] : i \in 1 .. Len(stack) + 1}
      BY <2>1 DEF ToSet
    <3> QED
      BY <1>2, <2>1, <3>1, <3>2
  <2>3. \A i, j \in DOMAIN stack' : i < j => indexOf'[stack'[i]] < indexOf'[stack'[j]]
    <3> SUFFICES ASSUME NEW i \in 1 .. Len(stack) + 1, NEW j \in 1 .. Len(stack) + 1, i < j
                 PROVE  indexOf'[stack'[i]] < indexOf'[stack'[j]]
      BY <2>1
    <3>1. i \in 1 .. Len(stack)
      BY <2>1
    <3>2. CASE j \in 1 .. Len(stack)
      <4>1. indexOf[stack[i]] < indexOf[stack[j]]
        BY <1>1, <2>1, <3>1, <3>2 DEF StackInv
      <4> QED
        BY <1>8, <2>1, <3>1, <3>2, <4>1
    <3>3. CASE j = Len(stack) + 1
      BY <1>5, <1>8, <2>1, <3>1, <3>3
    <3> QED
      BY <2>1, <3>2, <3>3
  <2>4. \A x \in Node : Visited(x)' <=> x \in onStack' \cup ClosedNodes'
    BY <1>1, <1>2, <1>3, <1>5, <1>11 DEF StackInv, Visited, Unvisited
  <2> QED
    BY <1>1, <1>2, <1>6, <1>11, <2>2, <2>3, <2>4 DEF StackInv
<1>16. FrameInv'
  <2>1. \A i \in 1 .. n + 1 : i \in 1 .. n \/ i = n + 1
    BY <1>3
  <2>2. \A i \in DOMAIN frames' : frames'[i].node \in onStack'
    BY <1>2, <1>9, <1>10, <2>1
  <2>3. \A i, j \in DOMAIN frames' :
          i < j => indexOf'[frames'[i].node] < indexOf'[frames'[j].node]
    <3> SUFFICES ASSUME NEW i \in 1 .. n + 1, NEW j \in 1 .. n + 1, i < j
                 PROVE  indexOf'[frames'[i].node] < indexOf'[frames'[j].node]
      BY <1>9
    <3>1. i \in 1 .. n
      BY <1>3
    <3>2. CASE j \in 1 .. n
      <4>1. indexOf[frames[i].node] < indexOf[frames[j].node]
        BY <1>1, <1>3, <3>1, <3>2 DEF FrameInv
      <4> QED
        BY <1>8, <1>10, <3>1, <3>2, <4>1
    <3>3. CASE j = n + 1
      BY <1>5, <1>8, <1>9, <1>10, <3>1, <3>3
    <3> QED
      BY <2>1, <3>2, <3>3
  <2> QED
    BY <2>2, <2>3 DEF FrameInv
<1>17. EdgeInv'
  <2>1. ASSUME NEW x \in onStack', NEW t \in Node, <<x, t>> \in edges, Passed(x, t)'
        PROVE  Visited(t)'
    <3>1. x # v
      BY <1>13, <2>1
    <3>2. x \in onStack /\ x \in Node
      BY <1>2, <1>7, <3>1
    <3>3. CASE t = v
      BY <1>3, <1>5, <3>3 DEF Visited, Unvisited
    <3>4. CASE t # v
      <4>1. Passed(x, t)
        BY <1>12, <2>1, <3>2, <3>4
      <4>2. Visited(t)
        BY <1>1, <2>1, <3>2, <4>1 DEF EdgeInv
      <4> QED
        BY <1>5, <3>4, <4>2 DEF Visited
    <3> QED
      BY <3>3, <3>4
  <2> QED
    BY <1>1, <1>2, <1>11, <2>1 DEF EdgeInv, Keeps
<1>18. ReachInv'
  <2>1. ASSUME NEW i \in 1 .. n + 1, NEW x \in onStack',
               indexOf'[frames'[i].node] <= indexOf'[x]
        PROVE  Reach(edges, frames'[i].node, x)
    <3>1. CASE i = n + 1
      <4>1. nextIndex <= indexOf'[x]
        BY <1>5, <1>9, <2>1, <3>1
      <4>2. x = v
        BY <1>2, <1>3, <1>4, <1>7, <1>8, <4>1
      <4> QED
        BY <1>9, <3>1, <4>2, ReachSelf
    <3>2. CASE i \in 1 .. n /\ x # v
      <4>1. x \in onStack /\ frames'[i].node = frames[i].node
        BY <1>2, <1>10, <3>2
      <4>2. indexOf[frames[i].node] <= indexOf[x]
        BY <1>8, <1>10, <2>1, <3>2, <4>1
      <4> QED
        BY <1>1, <1>3, <3>2, <4>1, <4>2 DEF ReachInv
    <3>3. CASE i \in 1 .. n /\ x = v
      <4> DEFINE f == frames[n].node
      <4>1. n \in 1 .. n /\ f \in onStack /\ <<f, v>> \in edges
        BY <1>3, <1>10, <3>3 DEF Stays
      <4>2. indexOf[frames[i].node] <= indexOf[f]
        <5>1. i = n \/ i < n
          BY <1>3, <3>3
        <5>2. i < n => indexOf[frames[i].node] < indexOf[f]
          BY <1>1, <1>3, <3>3, <4>1 DEF FrameInv
        <5>3. indexOf[f] \in Int /\ indexOf[frames[i].node] \in Int
          BY <1>4, <1>7, <1>10, <3>3, <4>1
        <5> QED
          BY <5>1, <5>2, <5>3
      <4>3. Reach(edges, frames[i].node, f)
        BY <1>1, <1>3, <3>3, <4>1, <4>2 DEF ReachInv
      <4>4. Reach(edges, f, v)
        BY <4>1, ReachEdge
      <4> QED
        BY <1>10, <3>3, <4>3, <4>4, ReachFurther
    <3>4. i \in 1 .. n \/ i = n + 1
      BY <1>3
    <3> QED
      BY <3>1, <3>2, <3>3, <3>4
  <2>2. ASSUME NEW x \in onStack'
        PROVE  \E i \in 1 .. n + 1 :
                 /\ indexOf'[frames'[i].node] <= indexOf'[x]
                 /\ Reach(edges, x, frames'[i].node)
    <3>1. CASE x = v
      <4>1. n + 1 \in 1 .. n + 1 /\ frames'[n + 1].node = v
        BY <1>3, <1>9
      <4> QED
        BY <1>3, <1>5, <3>1, <4>1, ReachSelf
    <3>2. CASE x # v
      <4>1. x \in onStack
        BY <1>2, <3>2
      <4>2. PICK i \in 1 .. n :
              indexOf[frames[i].node] <= indexOf[x] /\ Reach(edges, x, frames[i].node)
        BY <1>1, <1>3, <4>1 DEF ReachInv
      <4>3. i \in 1 .. n + 1
        BY <1>3
      <4> QED
        BY <1>8, <1>10, <4>1, <4>2, <4>3
    <3> QED
      BY <3>1, <3>2
  <2> QED
    BY <1>2, <1>9, <2>1, <2>2 DEF ReachInv
<1>19. LowInv'
  <2>1. ASSUME NEW i \in 1 .. n
        PROVE  LET f == frames'[i].node
               IN /\ low'[f] <= indexOf'[f]
                  /\ \E u \in onStack' : indexOf'[u] = low'[f] /\ Reach(edges', f, u)
                  /\ \A x, t \in onStack' :
                       Owns(i, x)' /\ <<x, t>> \in edges' /\ Passed(x, t)' => low'[f] <= indexOf'[t]
    <3> DEFINE f == frames[i].node
    <3>1. /\ f \in onStack /\ f \in Node /\ frames'[i].node = f
          /\ low'[f] = low[f] /\ indexOf'[f] = indexOf[f]
          /\ low[f] \in Nat /\ indexOf[f] \in Int /\ indexOf[f] < nextIndex
      BY <1>4, <1>5, <1>7, <1>10
    <3>2. low[f] <= indexOf[f]
      BY <1>1, <1>3 DEF LowInv
    <3>3. PICK u \in onStack : indexOf[u] = low[f] /\ Reach(edges, f, u)
      BY <1>1, <1>3 DEF LowInv
    <3>4. u \in onStack' /\ indexOf'[u] = low'[f]
      BY <1>2, <1>8, <3>1, <3>3
    <3>5. ASSUME NEW x \in onStack', NEW t \in onStack', Owns(i, x)', <<x, t>> \in edges,
                 Passed(x, t)'
          PROVE  low[f] <= indexOf'[t]
      <4>1. x # v /\ t \in Node
        BY <1>2, <1>7, <1>13, <3>5
      <4>2. x \in onStack /\ x \in Node
        BY <1>2, <1>7, <4>1
      <4>3. CASE t = v
        BY <1>3, <1>5, <3>1, <3>2, <4>3
      <4>4. CASE t # v
        <5>1. t \in onStack /\ Passed(x, t)
          BY <1>2, <1>12, <3>5, <4>1, <4>2, <4>4
        <5>2. Owns(i, x)
          <6>1. indexOf[f] <= indexOf[x]
            BY <1>8, <3>1, <3>5, <4>2 DEF Owns
          <6>2. ASSUME NEW j \in 1 .. n, i < j
                PROVE  indexOf[x] < indexOf[frames[j].node]
            <7>1. j \in DOMAIN frames'
              BY <1>3, <1>9
            <7>2. indexOf'[x] < indexOf'[frames'[j].node]
              BY <3>5, <6>2, <7>1 DEF Owns
            <7> QED
              BY <1>8, <1>10, <4>2, <7>2
          <6> QED
            BY <1>3, <6>1, <6>2 DEF Owns
        <5>3. low[f] <= indexOf[t]
          BY <1>1, <1>3, <3>5, <4>2, <5>1, <5>2 DEF LowInv
        <5> QED
          BY <1>8, <5>1, <5>3
      <4> QED
        BY <4>3, <4>4
    <3> HIDE DEF f
    <3> QED
      BY <1>2, <3>1, <3>2, <3>3, <3>4, <3>5
  <2>2. ASSUME NEW i, i = n + 1
        PROVE  LET f == frames'[i].node
               IN /\ low'[f] <= indexOf'[f]
                  /\ \E u \in onStack' : indexOf'[u] = low'[f] /\ Reach(edges', f, u)
                  /\ \A x, t \in onStack' :
                       Owns(i, x)' /\ <<x, t>> \in edges' /\ Passed(x, t)' => low'[f] <= indexOf'[t]
    <3>1. /\ frames'[i].node = v /\ v \in onStack' /\ Reach(edges', v, v)
          /\ indexOf'[v] = nextIndex /\ low'[v] = nextIndex
      BY <1>2, <1>5, <1>9, <2>2, ReachSelf
    <3>2. ASSUME NEW x \in onStack', NEW t \in onStack', Owns(i, x)', Passed(x, t)'
          PROVE  FALSE
      <4>1. nextIndex <= indexOf'[x]
        BY <3>1, <3>2 DEF Owns
      <4>2. x = v
        BY <1>2, <1>3, <1>4, <1>7, <1>8, <4>1
      <4>3. t \in Node
        BY <1>2, <1>7, <3>2
      <4> QED
        BY <1>13, <3>2, <4>2, <4>3
    <3> QED
      BY <1>3, <3>1, <3>2
  <2>3. \A i \in 1 .. n + 1 : i \in 1 .. n \/ i = n + 1
    BY <1>3
  <2> QED
    BY <1>9, <2>1, <2>2, <2>3 DEF LowInv
<1>20. ComponentInv'
  BY <1>1, <1>2 DEF ComponentInv
<1>21. RootInv'
  <2>1. \A x \in 1 .. root - 1 : x \in Node
    BY <1>1, <1>3 DEF Types, Node
  <2>2. \A x \in 1 .. root - 1 : Visited(x)'
    BY <1>1, <1>3, <1>5, <2>1 DEF RootInv, Visited, Unvisited
  <2> QED
    BY <1>1, <1>2, <1>3, <2>2 DEF RootInv, Types
<1> QED
  BY <1>14, <1>15, <1>16, <1>17, <1>18, <1>19, <1>20, <1>21 DEF SearchInv

-----------------------------------------------------------------------------
(* Edges *)

(* The edge that is looked at, and what the cursor says of the others.     *)
LEMMA TargetIsNext ==
    ASSUME Types, HasEdge
    PROVE  /\ Len(frames) \in Nat /\ Len(frames) > 0
           /\ Frame \in FrameType /\ Target \in Node
           /\ <<Frame.node, Target>> \in edges
           /\ Frame.cursor < Target
           /\ \A t \in Node : <<Frame.node, t>> \in edges /\ t <= Target
                              => t <= Frame.cursor \/ t = Target
<1>1. /\ frames \in Seq(FrameType) /\ frames # <<>> /\ Ahead # {} /\ N \in Nat
      /\ edges \subseteq Node \X Node
  BY CyclesAssumption DEF Types, HasEdge
<1>2. Len(frames) \in Nat /\ Len(frames) > 0 /\ Frame \in FrameType
  BY <1>1 DEF Frame
<1>3. Frame.cursor \in Nat /\ Frame.node \in Node
  BY <1>2 DEF FrameType
<1>4. \A t : t \in Ahead <=> t \in Node /\ <<Frame.node, t>> \in edges /\ t > Frame.cursor
  BY <1>1 DEF Ahead, Successors
<1>5. \A t \in Node : t \in Nat
  BY DEF Node
<1>6. Ahead \in SUBSET Nat
  BY <1>4, <1>5
<1>7. Target \in Ahead /\ \A t \in Ahead : Target <= t
  BY <1>1, <1>6, MinIsLeast DEF Target
<1>8. \A t \in Node : <<Frame.node, t>> \in edges /\ t <= Target
                      => t <= Frame.cursor \/ t = Target
  <2> SUFFICES ASSUME NEW t \in Node, <<Frame.node, t>> \in edges, t <= Target,
                      ~ (t <= Frame.cursor)
               PROVE  t = Target
    OBVIOUS
  <2>1. t \in Ahead /\ Target \in Nat /\ t \in Nat
    BY <1>3, <1>4, <1>5, <1>6, <1>7
  <2> QED
    BY <1>7, <2>1
<1> QED
  BY <1>2, <1>3, <1>4, <1>5, <1>7, <1>8

LEMMA AdvancedStays ==
    ASSUME Types, HasEdge
    PROVE  Stays(Advanced, Target)
<1> DEFINE n == Len(frames)
<1>1. /\ frames \in Seq(FrameType) /\ n \in Nat /\ n > 0 /\ DOMAIN frames = 1 .. n
      /\ Frame = frames[n] /\ Frame \in FrameType /\ Target \in Node
  BY TargetIsNext DEF Types, Frame
<1>2. Target \in 0 .. N /\ [Frame EXCEPT !.cursor = Target] \in FrameType
  BY <1>1, CyclesAssumption DEF Node, FrameType
<1>3. Advanced = [frames EXCEPT ![n] = [Frame EXCEPT !.cursor = Target]]
  BY <1>1 DEF Advanced
<1>4. Advanced \in Seq(FrameType) /\ Len(Advanced) = n
  BY <1>1, <1>2, <1>3
<1>5. \A i \in 1 .. n :
        Advanced[i] = IF i = n THEN [Frame EXCEPT !.cursor = Target] ELSE frames[i]
  BY <1>1, <1>3
<1>6. /\ [Frame EXCEPT !.cursor = Target].node = Frame.node
      /\ [Frame EXCEPT !.cursor = Target].cursor = Target
  BY <1>1 DEF FrameType
<1>7. \A i \in 1 .. n :
        /\ Advanced[i].node = frames[i].node
        /\ \A t \in Node : t <= Advanced[i].cursor /\ <<frames[i].node, t>> \in edges
                           => t <= frames[i].cursor \/ t = Target
  BY <1>1, <1>5, <1>6, TargetIsNext
<1> QED
  BY <1>1, <1>4, <1>7, TargetIsNext DEF Stays

LEMMA StartKeeps ==
    ASSUME SearchInv, StartRoot
    PROVE  SearchInv'
<1>1. /\ frames = <<>> /\ root <= N /\ root \in Node /\ ~ Visited(root)
      /\ Visit(root, <<>>) /\ UNCHANGED <<edges, root, components>>
  BY CyclesAssumption DEF StartRoot, SearchInv, Types, Node, Visited
<1>2. Stays(<<>>, root)
  BY <1>1 DEF Stays
<1> QED
  BY <1>1, <1>2, VisitKeeps

LEMMA DescendKeeps ==
    ASSUME SearchInv, Descend
    PROVE  SearchInv'
<1>1. /\ HasEdge /\ ~ Visited(Target) /\ Visit(Target, Advanced)
      /\ UNCHANGED <<edges, root, components>> /\ Types /\ RootInv
  BY DEF Descend, SearchInv, Visited
<1>2. root <= N
  BY <1>1, CyclesAssumption DEF RootInv, HasEdge, Types
<1> QED
  BY <1>1, <1>2, AdvancedStays, TargetIsNext, VisitKeeps

LEMMA SkipKeeps ==
    ASSUME SearchInv, SkipRoot
    PROVE  SearchInv'
<1>1. /\ root' = root + 1 /\ frames = <<>> /\ root <= N /\ Visited(root)
      /\ UNCHANGED <<edges, indexOf, low, stack, onStack, nextIndex, frames, components>>
      /\ N \in Nat /\ root \in 1 .. N + 1
  BY CyclesAssumption DEF SkipRoot, Visited, SearchInv, Types
<1>2. Types'
  BY <1>1 DEF SearchInv, Types
<1>3. StackInv' /\ FrameInv' /\ EdgeInv' /\ ReachInv' /\ LowInv' /\ ComponentInv'
  BY <1>1 DEF SearchInv, StackInv, FrameInv, EdgeInv, ReachInv, LowInv, ComponentInv,
     Visited, ClosedNodes, Passed, Owns
<1>4. RootInv'
  <2>1. \A v \in 1 .. root' - 1 : v \in 1 .. root - 1 \/ v = root
    BY <1>1
  <2>2. \A v \in 1 .. root - 1 : Visited(v)
    BY DEF SearchInv, RootInv
  <2> QED
    BY <1>1, <2>1, <2>2 DEF RootInv, Visited
<1> QED
  BY <1>2, <1>3, <1>4 DEF SearchInv

LEMMA PassKeeps ==
    ASSUME SearchInv, PassEdge
    PROVE  SearchInv'
<1> DEFINE n == Len(frames)
           f == Frame.node
<1>1. /\ Types /\ StackInv /\ FrameInv /\ EdgeInv /\ ReachInv /\ LowInv
      /\ ComponentInv /\ RootInv
  BY DEF SearchInv
<1>2. /\ HasEdge /\ Visited(Target)
      /\ low' = [low EXCEPT ![f] = IF Target \in onStack THEN Lesser(low[f], indexOf[Target])
                                   ELSE low[f]]
      /\ frames' = Advanced
      /\ UNCHANGED <<edges, root, indexOf, stack, onStack, nextIndex, components>>
  BY DEF PassEdge, Visited
<1>3. /\ frames \in Seq(FrameType) /\ n \in Nat /\ n > 0 /\ DOMAIN frames = 1 .. n
      /\ Frame = frames[n] /\ Target \in Node /\ f \in Node /\ <<f, Target>> \in edges
      /\ n \in 1 .. n
  BY <1>1, <1>2, TargetIsNext DEF Types, Frame, FrameType
<1>4. /\ frames' \in Seq(FrameType) /\ Len(frames') = n /\ DOMAIN frames' = 1 .. n
      /\ \A i \in 1 .. n :
           /\ frames'[i].node = frames[i].node
           /\ \A t \in Node : t <= frames'[i].cursor /\ <<frames[i].node, t>> \in edges
                              => t <= frames[i].cursor \/ t = Target
  BY <1>1, <1>2, <1>3, AdvancedStays DEF Stays
<1>5. /\ indexOf \in [Node -> Int] /\ low \in [Node -> Nat] /\ edges \subseteq Node \X Node
      /\ \A x \in onStack : x \in Node
  BY <1>1 DEF Types, StackInv, ToSet
<1>6. Visited(Target) => indexOf[Target] \in Nat
  BY <1>1, <1>3, <1>5 DEF Types, Visited, Unvisited
<1>7. /\ low' \in [Node -> Nat]
      /\ \A x \in Node : x # f => low'[x] = low[x]
      /\ low'[f] <= low[f]
      /\ low'[f] = low[f] \/ (Target \in onStack /\ low'[f] = indexOf[Target])
      /\ Target \in onStack => low'[f] <= indexOf[Target]
  BY <1>2, <1>3, <1>5, <1>6 DEF Lesser
<1>8. \A x, t \in Node :
        <<x, t>> \in edges /\ Passed(x, t)' => Passed(x, t) \/ (x = f /\ t = Target)
  <2> SUFFICES ASSUME NEW x \in Node, NEW t \in Node, <<x, t>> \in edges, Passed(x, t)',
                      ~ (x = f /\ t = Target)
               PROVE  Passed(x, t)
    OBVIOUS
  <2> SUFFICES ASSUME NEW i \in 1 .. n, frames[i].node = x
               PROVE  t <= frames[i].cursor
    BY <1>3 DEF Passed
  <2>1. t <= frames'[i].cursor
    BY <1>4 DEF Passed
  <2>2. t <= frames[i].cursor \/ t = Target
    BY <1>4, <2>1
  <2>3. CASE t = Target
    <3>1. x # f /\ i # n
      BY <1>3, <2>3
    <3>2. frames'[i] = frames[i]
      BY <1>2, <1>3, <3>1 DEF Advanced
    <3> QED
      BY <2>1, <3>2
  <2> QED
    BY <2>2, <2>3
<1>9. Types'
  BY <1>1, <1>2, <1>4, <1>7 DEF Types
<1>10. StackInv' /\ ComponentInv'
  BY <1>1, <1>2 DEF StackInv, ComponentInv, Visited, ClosedNodes
<1>11. FrameInv'
  BY <1>1, <1>2, <1>3, <1>4 DEF FrameInv
<1>12. EdgeInv'
  BY <1>1, <1>2, <1>5, <1>8 DEF EdgeInv, Visited, ClosedNodes
<1>13. ReachInv'
  BY <1>1, <1>2, <1>3, <1>4 DEF ReachInv
<1>14. RootInv'
  <2>1. frames # <<>>
    BY <1>2 DEF HasEdge
  <2> QED
    BY <1>1, <1>2, <2>1 DEF RootInv, Visited
<1>15. LowInv'
  <2>1. ASSUME NEW i \in 1 .. n
        PROVE  LET g == frames'[i].node
               IN /\ low'[g] <= indexOf'[g]
                  /\ \E u \in onStack' : indexOf'[u] = low'[g] /\ Reach(edges', g, u)
                  /\ \A x, t \in onStack' :
                       Owns(i, x)' /\ <<x, t>> \in edges' /\ Passed(x, t)' => low'[g] <= indexOf'[t]
    <3> DEFINE g == frames[i].node
    <3>1. g = frames'[i].node /\ g \in onStack /\ g \in Node
      BY <1>1, <1>3, <1>4, <1>5 DEF FrameInv
    <3>2. low'[g] <= low[g] /\ low[g] \in Nat /\ low'[g] \in Nat /\ indexOf[g] \in Int
      <4> HIDE DEF g
      <4>1. low[g] \in Nat /\ low'[g] \in Nat /\ indexOf[g] \in Int
        BY <1>5, <1>7, <3>1
      <4>2. CASE g = f
        BY <1>7, <4>1, <4>2
      <4>3. CASE g # f
        BY <1>7, <3>1, <4>1, <4>3
      <4> QED
        BY <4>1, <4>2, <4>3
    <3>3. low[g] <= indexOf[g]
      BY <1>1, <1>3 DEF LowInv
    <3>4. \E u \in onStack : indexOf[u] = low'[g] /\ Reach(edges, g, u)
      <4>1. \E u \in onStack : indexOf[u] = low[g] /\ Reach(edges, g, u)
        BY <1>1, <1>3 DEF LowInv
      <4>2. CASE low'[g] = low[g]
        BY <4>1, <4>2
      <4>3. CASE g = f /\ Target \in onStack /\ low'[g] = indexOf[Target]
        BY <1>3, <4>3, ReachEdge
      <4> QED
        BY <1>7, <3>1, <4>2, <4>3
    <3>5. ASSUME NEW x \in onStack, NEW t \in onStack, Owns(i, x)', <<x, t>> \in edges,
                 Passed(x, t)'
          PROVE  low'[g] <= indexOf[t]
      <4>1. x \in Node /\ t \in Node /\ indexOf[t] \in Int /\ indexOf[x] \in Int
        BY <1>5
      <4>2. Owns(i, x)
        BY <1>2, <1>3, <1>4, <3>5 DEF Owns
      <4>3. CASE Passed(x, t)
        <5>1. low[g] <= indexOf[t]
          BY <1>1, <1>3, <3>5, <4>2, <4>3 DEF LowInv
        <5> QED
          BY <3>2, <4>1, <5>1
      <4>4. CASE x = f /\ t = Target
        <5>1. i = n
          <6>1. i < n => indexOf[x] < indexOf[frames[n].node]
            BY <1>3, <4>2 DEF Owns
          <6>2. ~ (i < n)
            BY <1>3, <4>1, <4>4, <6>1
          <6>3. n \in Nat
            BY <1>3
          <6> HIDE DEF n
          <6> QED
            BY <6>2, <6>3
        <5> QED
          BY <1>3, <1>7, <3>5, <4>4, <5>1
      <4> QED
        BY <1>8, <3>5, <4>1, <4>3, <4>4
    <3> HIDE DEF g
    <3> QED
      BY <1>2, <3>1, <3>2, <3>3, <3>4, <3>5
  <2> QED
    BY <1>4, <2>1 DEF LowInv
<1> QED
  BY <1>9, <1>10, <1>11, <1>12, <1>13, <1>14, <1>15 DEF SearchInv

-----------------------------------------------------------------------------
(* A frame is left                                                         *)

(* What lies above the top frame's node, and what lies below it.           *)
Above == {x \in onStack : indexOf[Frame.node] <= indexOf[x]}
Below == {x \in onStack : indexOf[x] < indexOf[Frame.node]}

LEMMA StackSplits ==
    ASSUME Types, StackInv, NEW v \in onStack
    PROVE  /\ SubSeq(stack, 1, Position(v) - 1) \in Seq(Node)
           /\ \A i, j \in DOMAIN SubSeq(stack, 1, Position(v) - 1) :
                i < j => indexOf[SubSeq(stack, 1, Position(v) - 1)[i]]
                         < indexOf[SubSeq(stack, 1, Position(v) - 1)[j]]
           /\ ToSet(SubSeq(stack, 1, Position(v) - 1))
                = {x \in onStack : indexOf[x] < indexOf[v]}
           /\ ToSet(SubSeq(stack, Position(v), Len(stack)))
                = {x \in onStack : indexOf[v] <= indexOf[x]}
<1> DEFINE p == Position(v)
           m == Len(stack)
           lower == SubSeq(stack, 1, p - 1)
           upper == SubSeq(stack, p, m)
<1>1. /\ stack \in Seq(Node) /\ m \in Nat /\ DOMAIN stack = 1 .. m
      /\ \A i \in 1 .. m : stack[i] \in Node /\ indexOf[stack[i]] \in Int
      /\ onStack = {stack[i] : i \in 1 .. m}
  <2>1. /\ stack \in Seq(Node) /\ indexOf \in [Node -> Int] /\ onStack = ToSet(stack)
    BY DEF Types, StackInv
  <2>2. m \in Nat /\ DOMAIN stack = 1 .. m /\ \A i \in 1 .. m : stack[i] \in Node
    BY <2>1
  <2>3. onStack = {stack[i] : i \in 1 .. m}
    BY <2>1, <2>2 DEF ToSet
  <2> QED
    BY <2>1, <2>2, <2>3
<1>2. p \in 1 .. m /\ stack[p] = v
  BY <1>1 DEF Position
<1>3. \A i, j \in 1 .. m : i < j => indexOf[stack[i]] < indexOf[stack[j]]
  BY <1>1 DEF StackInv
<1>4. \A i \in 1 .. m : indexOf[stack[i]] < indexOf[v] <=> i < p
  <2> SUFFICES ASSUME NEW i \in 1 .. m
               PROVE  indexOf[stack[i]] < indexOf[v] <=> i < p
    OBVIOUS
  <2>1. i < p => indexOf[stack[i]] < indexOf[v]
    BY <1>2, <1>3
  <2>2. p < i => indexOf[v] < indexOf[stack[i]]
    BY <1>2, <1>3
  <2>3. indexOf[stack[i]] \in Int /\ indexOf[v] \in Int
    BY <1>1, <1>2
  <2>4. i = p => stack[i] = v
    BY <1>2
  <2>5. i < p \/ i = p \/ p < i
    BY <1>1, <1>2
  <2>6. i \in Int /\ p \in Int
    BY <1>2
  <2> HIDE DEF p
  <2> QED
    BY <2>1, <2>2, <2>3, <2>4, <2>5, <2>6
<1> HIDE DEF p, m
<1>5. /\ lower \in Seq(Node) /\ Len(lower) = p - 1 /\ DOMAIN lower = 1 .. p - 1
      /\ \A i \in 1 .. p - 1 : lower[i] = stack[i]
  <2>1. \A i \in 1 .. p - 1 : stack[i] \in Node
    BY <1>1, <1>2
  <2>2. 1 \in Int /\ p - 1 \in Int /\ p - 1 >= 0
    BY <1>2
  <2>3. /\ lower \in Seq(Node)
        /\ Len(lower) = IF 1 <= p - 1 THEN (p - 1) - 1 + 1 ELSE 0
        /\ \A i \in 1 .. (p - 1) - 1 + 1 : lower[i] = stack[1 + i - 1]
    BY <2>1, <2>2, SubSeqProperties
  <2>4. Len(lower) = p - 1
    BY <2>2, <2>3
  <2>5. \A i \in 1 .. p - 1 : lower[i] = stack[i]
    BY <2>2, <2>3
  <2> HIDE DEF lower
  <2> QED
    BY <2>3, <2>4, <2>5
<1>6. /\ DOMAIN upper = 1 .. m - p + 1
      /\ \A i \in 1 .. m - p + 1 : upper[i] = stack[p + i - 1]
  <2>1. \A i \in p .. m : stack[i] \in Node
    BY <1>1, <1>2
  <2>2. p \in Int /\ m \in Int /\ p <= m
    BY <1>1, <1>2
  <2>3. /\ upper \in Seq(Node)
        /\ Len(upper) = IF p <= m THEN m - p + 1 ELSE 0
        /\ \A i \in 1 .. m - p + 1 : upper[i] = stack[p + i - 1]
    BY <2>1, <2>2, SubSeqProperties
  <2> HIDE DEF upper
  <2> QED
    BY <2>2, <2>3
<1> HIDE DEF lower, upper
<1>7. \A i, j \in DOMAIN lower : i < j => indexOf[lower[i]] < indexOf[lower[j]]
  <2>1. \A i \in 1 .. p - 1 : i \in 1 .. m
    BY <1>1, <1>2
  <2> QED
    BY <1>3, <1>5, <2>1
<1>8. ToSet(lower) = {x \in onStack : indexOf[x] < indexOf[v]}
  <2>1. ToSet(lower) = {lower[i] : i \in 1 .. p - 1}
    BY <1>5 DEF ToSet
  <2>2. ASSUME NEW i \in 1 .. p - 1
        PROVE  lower[i] \in onStack /\ indexOf[lower[i]] < indexOf[v]
    <3>1. i \in 1 .. m /\ i < p
      BY <1>1, <1>2
    <3> QED
      BY <1>1, <1>4, <1>5, <3>1
  <2>3. ASSUME NEW x \in onStack, indexOf[x] < indexOf[v]
        PROVE  \E i \in 1 .. p - 1 : lower[i] = x
    <3>1. PICK i \in 1 .. m : x = stack[i]
      BY <1>1
    <3>2. i \in 1 .. p - 1
      BY <1>2, <1>4, <2>3, <3>1
    <3> QED
      BY <1>5, <3>1, <3>2
  <2> QED
    BY <2>1, <2>2, <2>3
<1>9. ToSet(upper) = {x \in onStack : indexOf[v] <= indexOf[x]}
  <2>1. ToSet(upper) = {upper[i] : i \in 1 .. m - p + 1}
    BY <1>6 DEF ToSet
  <2>2. ASSUME NEW i \in 1 .. m
        PROVE  indexOf[v] <= indexOf[stack[i]] <=> p <= i
    <3>1. indexOf[stack[i]] \in Int /\ indexOf[v] \in Int /\ p \in Int
      BY <1>1, <1>2
    <3>2. indexOf[stack[i]] < indexOf[v] <=> i < p
      BY <1>4
    <3> QED
      BY <3>1, <3>2
  <2>3. ASSUME NEW i \in 1 .. m - p + 1
        PROVE  upper[i] \in onStack /\ indexOf[v] <= indexOf[upper[i]]
    <3>1. p + i - 1 \in 1 .. m /\ p <= p + i - 1
      BY <1>1, <1>2
    <3> QED
      BY <1>1, <1>6, <2>2, <3>1
  <2>4. ASSUME NEW x \in onStack, indexOf[v] <= indexOf[x]
        PROVE  \E i \in 1 .. m - p + 1 : upper[i] = x
    <3>1. PICK i \in 1 .. m : x = stack[i]
      BY <1>1
    <3>2. p <= i
      BY <2>2, <2>4, <3>1
    <3>3. i - p + 1 \in 1 .. m - p + 1 /\ p + (i - p + 1) - 1 = i
      BY <1>1, <1>2, <3>1, <3>2
    <3> QED
      BY <1>6, <3>1, <3>3
  <2> QED
    BY <2>1, <2>3, <2>4
<1> QED
  BY <1>5, <1>7, <1>8, <1>9 DEF lower, upper, p, m

(* What goes with the top frame when it has no edge left.                  *)
LEMMA FrameLeft ==
    ASSUME Types, FrameInv, frames # <<>>, ~ HasEdge, frames' = Front(frames)
    PROVE  LET n == Len(frames)
           IN /\ n \in Nat /\ n > 0 /\ DOMAIN frames = 1 .. n /\ n \in 1 .. n
              /\ Frame = frames[n] /\ Frame.node \in onStack
              /\ frames' \in Seq(FrameType) /\ Len(frames') = n - 1
              /\ DOMAIN frames' = 1 .. n - 1
              /\ \A i \in 1 .. n - 1 :
                   /\ i \in 1 .. n /\ i < n /\ frames'[i] = frames[i]
                   /\ frames[i].node \in onStack
                   /\ indexOf[frames[i].node] < indexOf[Frame.node]
              /\ \A x, t \in Node : <<x, t>> \in edges /\ Passed(x, t)' => Passed(x, t)
<1> DEFINE n == Len(frames)
<1>1. /\ frames \in Seq(FrameType) /\ n \in Nat /\ n > 0 /\ DOMAIN frames = 1 .. n
      /\ n \in 1 .. n /\ edges \subseteq Node \X Node
  BY DEF Types
<1>2. Frame = frames[n] /\ Frame \in FrameType /\ Frame.node \in onStack
  BY <1>1 DEF Frame, FrameInv
<1>3. /\ frames' \in Seq(FrameType) /\ Len(frames') = n - 1 /\ DOMAIN frames' = 1 .. n - 1
      /\ \A i \in 1 .. n - 1 : frames'[i] = frames[i]
  <2>1. frames' = SubSeq(frames, 1, n - 1)
    BY DEF Front
  <2>2. \A i \in 1 .. n - 1 : frames[i] \in FrameType
    BY <1>1
  <2>3. 1 \in Int /\ n - 1 \in Int /\ n - 1 >= 0
    BY <1>1
  <2> HIDE DEF n
  <2>4. /\ frames' \in Seq(FrameType)
        /\ Len(frames') = IF 1 <= n - 1 THEN (n - 1) - 1 + 1 ELSE 0
        /\ \A i \in 1 .. (n - 1) - 1 + 1 : frames'[i] = frames[1 + i - 1]
    BY <2>1, <2>2, <2>3, SubSeqProperties
  <2>5. Len(frames') = n - 1
    BY <2>3, <2>4
  <2>6. \A i \in 1 .. n - 1 : frames'[i] = frames[i]
    BY <2>3, <2>4
  <2> QED
    BY <2>4, <2>5, <2>6
<1>4. \A i \in 1 .. n - 1 : i \in 1 .. n /\ i < n
  BY <1>1
<1>5. \A i \in 1 .. n - 1 :
        frames[i].node \in onStack /\ indexOf[frames[i].node] < indexOf[Frame.node]
  BY <1>1, <1>2, <1>4 DEF FrameInv
<1>6. \A t \in Node : <<Frame.node, t>> \in edges => t <= Frame.cursor
  <2> SUFFICES ASSUME NEW t \in Node, <<Frame.node, t>> \in edges PROVE t <= Frame.cursor
    OBVIOUS
  <2>1. t \notin Ahead
    BY DEF HasEdge
  <2>2. t \in Successors(edges, {Frame.node})
    <3>1. <<Frame.node, t>> \in {e \in edges : e[1] \in {Frame.node}} /\ <<Frame.node, t>>[2] = t
      OBVIOUS
    <3> QED
      BY <3>1 DEF Successors
  <2>3. t \in Nat /\ Frame.cursor \in Nat
    BY <1>2 DEF Node, FrameType
  <2> QED
    BY <2>1, <2>2, <2>3 DEF Ahead
<1>7. ASSUME NEW x \in Node, NEW t \in Node, <<x, t>> \in edges, Passed(x, t)'
      PROVE  Passed(x, t)
  <2> SUFFICES ASSUME NEW i \in 1 .. n, frames[i].node = x PROVE t <= frames[i].cursor
    BY <1>1 DEF Passed
  <2>1. CASE i = n
    BY <1>2, <1>6, <1>7, <2>1
  <2>2. CASE i # n
    <3>1. i \in 1 .. n - 1
      <4>1. n \in Nat
        BY <1>1
      <4> HIDE DEF n
      <4> QED
        BY <2>2, <4>1
    <3> QED
      BY <1>3, <1>7, <3>1 DEF Passed
  <2> QED
    BY <2>1, <2>2
<1> QED
  BY <1>1, <1>2, <1>3, <1>4, <1>5, <1>7

(* A node whose low is its own number is a component, with all above it.   *)
LEMMA AboveIsComponent ==
    ASSUME SearchInv, frames # <<>>, ~ HasEdge, frames' = Front(frames),
           low[Frame.node] = indexOf[Frame.node]
    PROVE  /\ Keeps(edges, Above \cup ClosedNodes)
           /\ \A x \in Above : Above = ComponentOf(edges, x)
<1> DEFINE n == Len(frames)
           f == Frame.node
<1>1. /\ Types /\ StackInv /\ FrameInv /\ EdgeInv /\ ReachInv /\ LowInv
  BY DEF SearchInv
<1>2. /\ n \in Nat /\ n > 0 /\ DOMAIN frames = 1 .. n /\ n \in 1 .. n
      /\ f = frames[n].node /\ f \in onStack
      /\ \A i \in 1 .. n - 1 : indexOf[frames[i].node] < indexOf[f]
      /\ \A x, t \in Node : <<x, t>> \in edges /\ Passed(x, t)' => Passed(x, t)
      /\ DOMAIN frames' = 1 .. n - 1 /\ \A i \in 1 .. n - 1 : frames'[i] = frames[i]
  BY <1>1, FrameLeft
<1>3. /\ indexOf \in [Node -> Int] /\ edges \subseteq Node \X Node
      /\ \A x \in onStack : x \in Node /\ indexOf[x] \in Int
      /\ ClosedNodes \subseteq Node /\ onStack \cap ClosedNodes = {}
  BY <1>1 DEF Types, StackInv, ToSet, ClosedNodes
<1>4. \A i \in 1 .. n : i = n \/ i \in 1 .. n - 1
  <2>1. n \in Nat
    BY <1>2
  <2> HIDE DEF n
  <2> QED
    BY <2>1
<1>5. ASSUME NEW x \in Above, NEW t \in Node, <<x, t>> \in edges
      PROVE  t \in Above \cup ClosedNodes
  <2>1. x \in onStack /\ x \in Node /\ indexOf[f] <= indexOf[x] /\ indexOf[x] \in Int
    BY <1>3 DEF Above
  <2>2. \A i \in 1 .. n - 1 : frames[i].node # x
    <3> SUFFICES ASSUME NEW i \in 1 .. n - 1, frames[i].node = x PROVE FALSE
      OBVIOUS
    <3>1. indexOf[x] < indexOf[f] /\ indexOf[f] \in Int
      BY <1>2, <1>3
    <3> QED
      BY <2>1, <3>1
  <2>3. Passed(x, t)
    <3>1. Passed(x, t)'
      BY <1>2, <2>2 DEF Passed
    <3> QED
      BY <1>2, <1>5, <2>1, <3>1
  <2>4. t \in onStack \cup ClosedNodes
    BY <1>1, <1>5, <2>1, <2>3 DEF EdgeInv, StackInv
  <2>5. CASE t \in onStack
    <3>1. Owns(n, x)
      BY <1>2, <2>1 DEF Owns
    <3>2. low[f] <= indexOf[t]
      BY <1>1, <1>2, <1>5, <2>1, <2>3, <2>5, <3>1 DEF LowInv
    <3> QED
      BY <2>5, <3>2 DEF Above
  <2> QED
    BY <2>4, <2>5
<1>6. Keeps(edges, Above \cup ClosedNodes)
  BY <1>1, <1>5 DEF Keeps, EdgeInv
<1>7. ASSUME NEW x \in Above, NEW y, Reach(edges, x, y)
      PROVE  y \in Above \cup ClosedNodes
  <2>1. Above \cup ClosedNodes \in SUBSET Node
    BY <1>3 DEF Above
  <2> QED
    BY <1>6, <1>7, <2>1 DEF Reach
<1>8. \A x \in Above : Reach(edges, f, x)
  BY <1>1, <1>2 DEF ReachInv, Above
<1>9. ASSUME NEW x \in Above
      PROVE  Reach(edges, x, f)
  <2>1. PICK i \in 1 .. n :
          indexOf[frames[i].node] <= indexOf[x] /\ Reach(edges, x, frames[i].node)
    BY <1>1, <1>2 DEF ReachInv, Above
  <2>2. frames[i].node \in Above
    <3>1. frames[i].node \in onStack
      BY <1>1, <1>2 DEF FrameInv
    <3> QED
      BY <1>3, <1>7, <2>1, <3>1
  <2>3. i \notin 1 .. n - 1
    <3>1. indexOf[f] <= indexOf[frames[i].node] /\ frames[i].node \in onStack
      BY <2>2 DEF Above
    <3>2. indexOf[f] \in Int /\ indexOf[frames[i].node] \in Int
      BY <1>2, <1>3, <3>1
    <3> QED
      BY <1>2, <3>1, <3>2
  <2>4. i = n
    BY <1>4, <2>3
  <2> QED
    BY <1>2, <2>1, <2>4
<1>10. ASSUME NEW x \in Above
       PROVE  Above = ComponentOf(edges, x)
  <2>1. ASSUME NEW y \in Above
        PROVE  y \in ComponentOf(edges, x)
    <3>1. Reach(edges, x, y) /\ Reach(edges, y, x)
      BY <1>8, <1>9, ReachFurther
    <3>2. y \in Node
      BY <1>3 DEF Above
    <3> QED
      BY <3>1, <3>2 DEF ComponentOf
  <2>2. ASSUME NEW y \in ComponentOf(edges, x)
        PROVE  y \in Above
    <3>1. Reach(edges, x, y) /\ Reach(edges, y, x)
      BY DEF ComponentOf
    <3>2. y \notin ClosedNodes
      <4>1. x \notin ClosedNodes /\ ClosedNodes \in SUBSET Node /\ Keeps(edges, ClosedNodes)
        BY <1>1, <1>3 DEF Above, EdgeInv
      <4> QED
        BY <3>1, <4>1 DEF Reach
    <3> QED
      BY <1>7, <3>1, <3>2
  <2> QED
    BY <2>1, <2>2
<1> QED
  BY <1>6, <1>10

(* The node stays open: its frame goes, and low tells the frame below.     *)
LEMMA LeaveKeeps ==
    ASSUME SearchInv, Return, low[Frame.node] # indexOf[Frame.node]
    PROVE  SearchInv'
<1> DEFINE n == Len(frames)
           f == Frame.node
           g == frames[n - 1].node
<1>1. /\ Types /\ StackInv /\ FrameInv /\ EdgeInv /\ ReachInv /\ LowInv
      /\ ComponentInv /\ RootInv
  BY DEF SearchInv
<1>2. /\ frames # <<>> /\ ~ HasEdge /\ frames' = Front(frames)
      /\ UNCHANGED <<edges, root, indexOf, nextIndex, stack, onStack, components>>
      /\ low' = IF n = 1 THEN low
                ELSE [low EXCEPT ![Last(frames').node] = Lesser(low[Last(frames').node], low[f])]
  BY DEF Return, Close
<1>3. /\ n \in Nat /\ n > 0 /\ DOMAIN frames = 1 .. n /\ n \in 1 .. n
      /\ f = frames[n].node /\ f \in onStack
      /\ frames' \in Seq(FrameType) /\ Len(frames') = n - 1 /\ DOMAIN frames' = 1 .. n - 1
      /\ \A i \in 1 .. n - 1 :
           /\ i \in 1 .. n /\ i < n /\ frames'[i] = frames[i]
           /\ frames[i].node \in onStack
           /\ indexOf[frames[i].node] < indexOf[f]
      /\ \A x, t \in Node : <<x, t>> \in edges /\ Passed(x, t)' => Passed(x, t)
  BY <1>1, <1>2, FrameLeft
<1>4. /\ indexOf \in [Node -> Int] /\ low \in [Node -> Nat] /\ edges \subseteq Node \X Node
      /\ \A x \in onStack : x \in Node /\ indexOf[x] \in Int
  BY <1>1 DEF Types, StackInv, ToSet
<1>5. low[f] \in Nat /\ indexOf[f] \in Int /\ low[f] < indexOf[f]
  <2>1. low[f] <= indexOf[f]
    BY <1>1, <1>3 DEF LowInv
  <2>2. low[f] \in Nat /\ indexOf[f] \in Int
    BY <1>3, <1>4
  <2> HIDE DEF f
  <2> QED
    BY <2>1, <2>2 DEF f
<1>6. PICK u \in onStack : indexOf[u] = low[f] /\ Reach(edges, f, u)
  BY <1>1, <1>3 DEF LowInv
<1>7. \A i \in 1 .. n : i = n \/ i \in 1 .. n - 1
  <2>1. n \in Nat
    BY <1>3
  <2> HIDE DEF n
  <2> QED
    BY <2>1
<1>8. PICK k \in 1 .. n - 1 :
        indexOf[frames[k].node] <= indexOf[u] /\ Reach(edges, u, frames[k].node)
  <2>1. PICK k \in 1 .. n :
          indexOf[frames[k].node] <= indexOf[u] /\ Reach(edges, u, frames[k].node)
    BY <1>1, <1>3 DEF ReachInv
  <2>2. k # n
    <3>1. k = n => indexOf[f] <= low[f]
      BY <1>3, <1>6, <2>1
    <3> HIDE DEF f
    <3> QED
      BY <1>5, <3>1
  <2> QED
    BY <1>7, <2>1, <2>2
<1>9. n - 1 \in 1 .. n - 1 /\ n # 1
  BY <1>3, <1>8
<1>10. /\ g \in onStack /\ g \in Node /\ indexOf[g] < indexOf[f] /\ low[g] \in Nat
       /\ frames'[n - 1].node = g
  BY <1>3, <1>4, <1>9
<1>11. /\ low' = [low EXCEPT ![g] = Lesser(low[g], low[f])]
       /\ low' \in [Node -> Nat]
       /\ low'[g] <= low[g] /\ low'[g] <= low[f]
       /\ low'[g] \in {low[g], low[f]}
       /\ \A x \in Node : x # g => low'[x] = low[x]
  <2>1. low' = [low EXCEPT ![g] = Lesser(low[g], low[f])]
    BY <1>2, <1>3, <1>9 DEF Last
  <2>2. /\ Lesser(low[g], low[f]) \in Nat
        /\ Lesser(low[g], low[f]) <= low[g] /\ Lesser(low[g], low[f]) <= low[f]
        /\ Lesser(low[g], low[f]) \in {low[g], low[f]}
    BY <1>5, <1>10 DEF Lesser
  <2> HIDE DEF f, g
  <2> QED
    BY <1>4, <1>10, <2>1, <2>2
<1>12. Types'
  BY <1>1, <1>2, <1>3, <1>11 DEF Types
<1>13. StackInv' /\ ComponentInv'
  BY <1>1, <1>2 DEF StackInv, ComponentInv, Visited, ClosedNodes
<1>14. FrameInv'
  BY <1>1, <1>2, <1>3 DEF FrameInv
<1>15. EdgeInv'
  BY <1>1, <1>2, <1>3, <1>4 DEF EdgeInv, Visited, ClosedNodes
<1>16. RootInv'
  BY <1>1, <1>2 DEF RootInv, Visited
<1>17. ReachInv'
  <2>1. \A i \in 1 .. n - 1 : \A x \in onStack :
          indexOf[frames[i].node] <= indexOf[x] => Reach(edges, frames[i].node, x)
    BY <1>1, <1>3 DEF ReachInv
  <2>2. ASSUME NEW x \in onStack
        PROVE  \E i \in 1 .. n - 1 :
                 indexOf[frames[i].node] <= indexOf[x] /\ Reach(edges, x, frames[i].node)
    <3>1. PICK i \in 1 .. n :
            indexOf[frames[i].node] <= indexOf[x] /\ Reach(edges, x, frames[i].node)
      BY <1>1, <1>3 DEF ReachInv
    <3>2. CASE i \in 1 .. n - 1
      BY <3>1, <3>2
    <3>3. CASE i = n
      <4>1. Reach(edges, x, frames[k].node)
        BY <1>3, <1>6, <1>8, <3>1, <3>3, ReachFurther
      <4>2. indexOf[frames[k].node] <= indexOf[x]
        <5>1. /\ indexOf[frames[k].node] < indexOf[f] /\ indexOf[f] <= indexOf[x]
              /\ indexOf[frames[k].node] \in Int /\ indexOf[x] \in Int /\ indexOf[f] \in Int
          BY <1>3, <1>4, <3>1, <3>3
        <5> QED
          BY <5>1
      <4> QED
        BY <4>1, <4>2
    <3> QED
      BY <1>7, <3>2, <3>3
  <2> QED
    BY <1>2, <1>3, <2>1, <2>2 DEF ReachInv
<1>18. LowInv'
  <2>1. ASSUME NEW i \in 1 .. n - 1
        PROVE  LET h == frames'[i].node
               IN /\ low'[h] <= indexOf'[h]
                  /\ \E w \in onStack' : indexOf'[w] = low'[h] /\ Reach(edges', h, w)
                  /\ \A x, t \in onStack' :
                       Owns(i, x)' /\ <<x, t>> \in edges' /\ Passed(x, t)' => low'[h] <= indexOf'[t]
    <3> DEFINE h == frames[i].node
    <3>1. /\ h = frames'[i].node /\ h \in onStack /\ h \in Node /\ i \in 1 .. n
          /\ low[h] \in Nat /\ low'[h] \in Nat /\ indexOf[h] \in Int
          /\ indexOf[h] < indexOf[f]
      BY <1>3, <1>4, <1>11
    <3>2. low'[h] <= low[h]
      <4> HIDE DEF h, g
      <4>1. CASE h = g
        BY <1>11, <4>1
      <4>2. CASE h # g
        BY <1>11, <3>1, <4>2
      <4> QED
        BY <4>1, <4>2
    <3>3. low[h] <= indexOf[h]
      BY <1>1, <1>3, <3>1 DEF LowInv
    <3>4. PICK w \in onStack : indexOf[w] = low[h] /\ Reach(edges, h, w)
      BY <1>1, <1>3, <3>1 DEF LowInv
    <3>5. \E y \in onStack : indexOf[y] = low'[h] /\ Reach(edges, h, y)
      <4>1. CASE low'[h] = low[h]
        BY <3>4, <4>1
      <4>2. CASE low'[h] = low[f]
        <5>1. Reach(edges, h, f)
          <6>1. indexOf[h] <= indexOf[f]
            BY <1>5, <3>1
          <6> QED
            BY <1>1, <1>3, <3>1, <6>1 DEF ReachInv
        <5> QED
          BY <1>6, <4>2, <5>1, ReachFurther
      <4>3. low'[h] = low[h] \/ low'[h] = low[f]
        <5> HIDE DEF h, g, f
        <5> QED
          BY <1>11, <3>1
      <4> QED
        BY <4>1, <4>2, <4>3
    <3>6. ASSUME NEW x \in onStack, NEW t \in onStack, Owns(i, x)', <<x, t>> \in edges,
                 Passed(x, t)'
          PROVE  low'[h] <= indexOf[t]
      <4>1. /\ x \in Node /\ t \in Node /\ indexOf[x] \in Int /\ indexOf[t] \in Int
            /\ indexOf[h] <= indexOf[x] /\ Passed(x, t)
        BY <1>2, <1>3, <1>4, <3>1, <3>6 DEF Owns
      <4>2. \A j \in 1 .. n - 1 : i < j => indexOf[x] < indexOf[frames[j].node]
        BY <1>2, <1>3, <3>6 DEF Owns
      <4>3. CASE indexOf[x] < indexOf[f]
        <5>1. \A j \in 1 .. n : i < j => indexOf[x] < indexOf[frames[j].node]
          BY <1>3, <1>7, <4>2, <4>3
        <5>2. Owns(i, x)
          BY <1>3, <4>1, <5>1 DEF Owns
        <5>3. low[h] <= indexOf[t]
          BY <1>1, <1>3, <3>1, <3>6, <4>1, <5>2 DEF LowInv
        <5> QED
          BY <3>1, <3>2, <4>1, <5>3
      <4>4. CASE indexOf[f] <= indexOf[x]
        <5>1. Owns(n, x)
          BY <1>3, <4>4 DEF Owns
        <5>2. low[f] <= indexOf[t]
          BY <1>1, <1>3, <3>6, <4>1, <5>1 DEF LowInv
        <5>3. i = n - 1
          <6>1. i < n - 1 => indexOf[x] < indexOf[g]
            BY <1>9, <4>2
          <6>2. ~ (i < n - 1)
            <7>1. indexOf[f] \in Int /\ indexOf[g] \in Int
              BY <1>4, <1>5, <1>10
            <7>2. indexOf[g] < indexOf[f] /\ indexOf[f] <= indexOf[x] /\ indexOf[x] \in Int
              BY <1>10, <4>1, <4>4
            <7>3. ~ (indexOf[x] < indexOf[g])
              <8> HIDE DEF f, g
              <8> QED
                BY <7>1, <7>2
            <7> HIDE DEF f, g, n
            <7> QED
              BY <6>1, <7>3
          <6>3. n \in Nat
            BY <1>3
          <6> HIDE DEF n
          <6> QED
            BY <6>2, <6>3
        <5>4. h = g
          BY <5>3
        <5>5. low'[h] <= low[f]
          BY <1>11, <5>4
        <5> QED
          BY <1>5, <3>1, <4>1, <5>2, <5>5
      <4> QED
        BY <1>5, <4>1, <4>3, <4>4
    <3> HIDE DEF h
    <3>7. low'[h] <= indexOf[h]
      BY <3>1, <3>2, <3>3
    <3> QED
      BY <1>2, <3>1, <3>5, <3>6, <3>7
  <2> QED
    BY <1>3, <2>1 DEF LowInv
<1> QED
  BY <1>12, <1>13, <1>14, <1>15, <1>16, <1>17, <1>18 DEF SearchInv

(* The component is closed: its nodes leave the stack with the frame.      *)
LEMMA CloseKeeps ==
    ASSUME SearchInv, Return, low[Frame.node] = indexOf[Frame.node]
    PROVE  SearchInv'
<1> DEFINE n == Len(frames)
           f == Frame.node
<1>1. /\ Types /\ StackInv /\ FrameInv /\ EdgeInv /\ ReachInv /\ LowInv
      /\ ComponentInv /\ RootInv
  BY DEF SearchInv
<1>2. /\ frames # <<>> /\ ~ HasEdge /\ frames' = Front(frames)
      /\ UNCHANGED <<edges, root, indexOf, nextIndex>>
      /\ stack' = SubSeq(stack, 1, Position(f) - 1)
      /\ onStack' = onStack \ ToSet(SubSeq(stack, Position(f), Len(stack)))
      /\ components' = components \cup {ToSet(SubSeq(stack, Position(f), Len(stack)))}
      /\ low' = IF n = 1 THEN low
                ELSE [low EXCEPT ![Last(frames').node] = Lesser(low[Last(frames').node], low[f])]
  BY DEF Return, Close
<1>3. /\ n \in Nat /\ n > 0 /\ DOMAIN frames = 1 .. n /\ n \in 1 .. n
      /\ f = frames[n].node /\ f \in onStack
      /\ frames' \in Seq(FrameType) /\ Len(frames') = n - 1 /\ DOMAIN frames' = 1 .. n - 1
      /\ \A i \in 1 .. n - 1 :
           /\ i \in 1 .. n /\ i < n /\ frames'[i] = frames[i]
           /\ frames[i].node \in onStack
           /\ indexOf[frames[i].node] < indexOf[f]
      /\ \A x, t \in Node : <<x, t>> \in edges /\ Passed(x, t)' => Passed(x, t)
  BY <1>1, <1>2, FrameLeft
<1>4. /\ indexOf \in [Node -> Int] /\ low \in [Node -> Nat] /\ edges \subseteq Node \X Node
      /\ \A x \in onStack : x \in Node /\ indexOf[x] \in Int
      /\ f \in Node /\ indexOf[f] \in Int
  BY <1>1, <1>3 DEF Types, StackInv, ToSet
<1>5. /\ stack' \in Seq(Node) /\ ToSet(stack') = Below
      /\ \A i, j \in DOMAIN stack' : i < j => indexOf[stack'[i]] < indexOf[stack'[j]]
      /\ ToSet(SubSeq(stack, Position(f), Len(stack))) = Above
  BY <1>1, <1>2, <1>3, StackSplits DEF Below, Above
<1>6. /\ onStack' = Below /\ components' = components \cup {Above}
      /\ ClosedNodes' = ClosedNodes \cup Above
      /\ onStack = Below \cup Above /\ Below \cap Above = {}
  <2>1. onStack = Below \cup Above /\ Below \cap Above = {}
    BY <1>4 DEF Below, Above
  <2>2. onStack' = Below /\ components' = components \cup {Above}
    BY <1>2, <1>5, <2>1
  <2>3. ClosedNodes' = ClosedNodes \cup Above
    BY <2>2 DEF ClosedNodes
  <2> QED
    BY <2>1, <2>2, <2>3
<1>7. /\ Keeps(edges, Above \cup ClosedNodes)
      /\ \A x \in Above : Above = ComponentOf(edges, x)
  BY <1>2, AboveIsComponent
<1>8. \A x \in Below : x \in onStack /\ x \in Node /\ indexOf[x] < indexOf[f]
  BY <1>4 DEF Below
<1>9. \A i \in 1 .. n - 1 : frames[i].node \in Below
  BY <1>3 DEF Below
<1>10. \A i \in 1 .. n : i = n \/ i \in 1 .. n - 1
  <2>1. n \in Nat
    BY <1>3
  <2> HIDE DEF n
  <2> QED
    BY <2>1
<1>11. low' = low
  <2>1. CASE n = 1
    BY <1>2, <2>1
  <2>2. CASE n # 1
    <3> DEFINE g == frames[n - 1].node
    <3>1. n - 1 \in 1 .. n - 1
      BY <1>3, <2>2
    <3>2. Last(frames').node = g
      BY <1>3, <3>1 DEF Last
    <3>3. g \in Node /\ low[g] <= indexOf[g] /\ indexOf[g] < indexOf[f]
      BY <1>1, <1>3, <1>4, <3>1 DEF LowInv
    <3>4. low[g] \in Nat /\ indexOf[g] \in Int /\ low[g] < low[f]
      <4>1. low[g] \in Nat /\ indexOf[g] \in Int
        BY <1>4, <3>3
      <4>2. low[f] = indexOf[f] /\ indexOf[f] \in Int
        BY <1>4
      <4> HIDE DEF f, g
      <4> QED
        BY <3>3, <4>1, <4>2
    <3>5. Lesser(low[g], low[f]) = low[g]
      BY <3>4 DEF Lesser
    <3>6. low' = [low EXCEPT ![g] = low[g]]
      BY <1>2, <2>2, <3>2, <3>5
    <3> HIDE DEF g
    <3> QED
      BY <1>4, <3>3, <3>6
  <2> QED
    BY <2>1, <2>2
<1>12. Types'
  <2>1. Above \in SUBSET Node
    BY <1>4 DEF Above
  <2> QED
    BY <1>1, <1>2, <1>3, <1>5, <1>6, <1>11, <2>1 DEF Types
<1>13. StackInv'
  <2>1. \A x \in Node : Visited(x)' <=> x \in onStack' \cup ClosedNodes'
    BY <1>1, <1>2, <1>6 DEF StackInv, Visited
  <2>2. onStack' \cap ClosedNodes' = {}
    BY <1>1, <1>6 DEF StackInv
  <2> QED
    BY <1>2, <1>5, <1>6, <2>1, <2>2 DEF StackInv
<1>14. FrameInv'
  BY <1>1, <1>2, <1>3, <1>6, <1>9 DEF FrameInv
<1>15. EdgeInv'
  <2>1. Keeps(edges, ClosedNodes)'
    <3>1. ClosedNodes' = Above \cup ClosedNodes
      BY <1>6
    <3> QED
      BY <1>2, <1>7, <3>1 DEF Keeps
  <2>2. \A x \in onStack', t \in Node : <<x, t>> \in edges /\ Passed(x, t)' => Visited(t)'
    BY <1>1, <1>2, <1>3, <1>6, <1>8 DEF EdgeInv, Visited
  <2> QED
    BY <1>2, <2>1, <2>2 DEF EdgeInv
<1>16. RootInv'
  BY <1>1, <1>2 DEF RootInv, Visited
<1>17. ReachInv'
  <2>1. \A i \in 1 .. n - 1 : \A x \in Below :
          indexOf[frames[i].node] <= indexOf[x] => Reach(edges, frames[i].node, x)
    BY <1>1, <1>3, <1>8 DEF ReachInv
  <2>2. ASSUME NEW x \in Below
        PROVE  \E i \in 1 .. n - 1 :
                 indexOf[frames[i].node] <= indexOf[x] /\ Reach(edges, x, frames[i].node)
    <3>1. PICK i \in 1 .. n :
            indexOf[frames[i].node] <= indexOf[x] /\ Reach(edges, x, frames[i].node)
      BY <1>1, <1>3, <1>8 DEF ReachInv
    <3>2. i # n
      <4>1. i = n => indexOf[f] <= indexOf[x]
        BY <1>3, <3>1
      <4>2. indexOf[x] < indexOf[f] /\ indexOf[x] \in Int /\ indexOf[f] \in Int
        BY <1>4, <1>8
      <4> QED
        BY <4>1, <4>2
    <3> QED
      BY <1>10, <3>1, <3>2
  <2> QED
    BY <1>2, <1>3, <1>6, <2>1, <2>2 DEF ReachInv
<1>18. LowInv'
  <2>1. ASSUME NEW i \in 1 .. n - 1
        PROVE  LET h == frames'[i].node
               IN /\ low'[h] <= indexOf'[h]
                  /\ \E w \in onStack' : indexOf'[w] = low'[h] /\ Reach(edges', h, w)
                  /\ \A x, t \in onStack' :
                       Owns(i, x)' /\ <<x, t>> \in edges' /\ Passed(x, t)' => low'[h] <= indexOf'[t]
    <3> DEFINE h == frames[i].node
    <3>1. h = frames'[i].node /\ i \in 1 .. n /\ indexOf[h] < indexOf[f] /\ h \in onStack
      BY <1>3
    <3>2. low[h] <= indexOf[h]
      BY <1>1, <1>3, <3>1 DEF LowInv
    <3>3. PICK w \in onStack : indexOf[w] = low[h] /\ Reach(edges, h, w)
      BY <1>1, <1>3, <3>1 DEF LowInv
    <3>4. w \in Below
      <4>1. indexOf[w] \in Int /\ indexOf[h] \in Int /\ indexOf[f] \in Int
        BY <1>4, <3>1
      <4>2. indexOf[w] < indexOf[f]
        BY <3>1, <3>2, <3>3, <4>1
      <4> QED
        BY <4>2 DEF Below
    <3>5. ASSUME NEW x \in Below, NEW t \in Below, Owns(i, x)', <<x, t>> \in edges,
                 Passed(x, t)'
          PROVE  low[h] <= indexOf[t]
      <4>1. /\ x \in onStack /\ t \in onStack /\ Passed(x, t) /\ indexOf[x] < indexOf[f]
            /\ indexOf[h] <= indexOf[x]
        BY <1>2, <1>3, <1>8, <3>1, <3>5 DEF Owns
      <4>2. \A j \in 1 .. n - 1 : i < j => indexOf[x] < indexOf[frames[j].node]
        BY <1>2, <1>3, <3>5 DEF Owns
      <4>3. \A j \in 1 .. n : i < j => indexOf[x] < indexOf[frames[j].node]
        BY <1>3, <1>10, <4>1, <4>2
      <4>4. Owns(i, x)
        BY <1>3, <4>1, <4>3 DEF Owns
      <4> QED
        BY <1>1, <1>3, <3>1, <3>5, <4>1, <4>4 DEF LowInv
    <3> HIDE DEF h
    <3> QED
      BY <1>2, <1>6, <1>11, <3>1, <3>2, <3>3, <3>4, <3>5
  <2> QED
    BY <1>3, <2>1 DEF LowInv
<1>19. ComponentInv'
  BY <1>1, <1>2, <1>6, <1>7 DEF ComponentInv
<1> QED
  BY <1>12, <1>13, <1>14, <1>15, <1>16, <1>17, <1>18, <1>19 DEF SearchInv

LEMMA NextKeeps == SearchInv /\ [Next]_vars => SearchInv'
<1> SUFFICES ASSUME SearchInv, [Next]_vars PROVE SearchInv'
  OBVIOUS
<1>1. CASE StartRoot
  BY <1>1, StartKeeps
<1>2. CASE SkipRoot
  BY <1>2, SkipKeeps
<1>3. CASE Descend
  BY <1>3, DescendKeeps
<1>4. CASE PassEdge
  BY <1>4, PassKeeps
<1>5. CASE Return
  BY <1>5, CloseKeeps, LeaveKeeps
<1>6. CASE UNCHANGED vars
  <2>1. UNCHANGED <<edges, root, indexOf, low, stack, onStack, nextIndex, frames, components>>
    BY <1>6 DEF vars
  <2>2. Types' /\ StackInv' /\ FrameInv' /\ ComponentInv' /\ RootInv'
    BY <2>1 DEF SearchInv, Types, StackInv, FrameInv, ComponentInv, RootInv, Visited,
       ClosedNodes
  <2>3. EdgeInv' /\ ReachInv' /\ LowInv'
    BY <2>1 DEF SearchInv, EdgeInv, ReachInv, LowInv, Visited, ClosedNodes, Passed, Owns
  <2> QED
    BY <2>2, <2>3 DEF SearchInv
<1> QED
  BY <1>1, <1>2, <1>3, <1>4, <1>5, <1>6 DEF Next

-----------------------------------------------------------------------------
(* Components and cycles *)

(* What paths of at least one edge lead to.                                *)
LEMMA BeyondIsReached ==
    ASSUME NEW E, E \subseteq Node \X Node, NEW v, NEW w
    PROVE  w \in Beyond(E, v) <=> \E s \in Node : <<v, s>> \in E /\ w \in Node /\ Reach(E, s, w)
<1>1. \A e \in E : e[1] \in Node /\ e[2] \in Node /\ e = <<e[1], e[2]>>
  OBVIOUS
<1>2. /\ \A s, t \in Node : <<s, t>> \in E => s \in Nodes(E) /\ t \in Nodes(E)
      /\ Nodes(E) \subseteq Node
  <2>1. \A s, t \in Node : <<s, t>> \in E => s \in {e[1] : e \in E} /\ t \in {e[2] : e \in E}
    <3> SUFFICES ASSUME NEW s \in Node, NEW t \in Node, <<s, t>> \in E
                 PROVE  s \in {e[1] : e \in E} /\ t \in {e[2] : e \in E}
      OBVIOUS
    <3>1. <<s, t>>[1] = s /\ <<s, t>>[2] = t
      OBVIOUS
    <3> QED
      BY <3>1
  <2> QED
    BY <1>1, <2>1 DEF Nodes
<1>3. \A X, t : t \in Successors(E, X) <=> t \in Node /\ \E x \in X : <<x, t>> \in E
  <2> SUFFICES ASSUME NEW X, NEW t
               PROVE  t \in Successors(E, X) <=> t \in Node /\ \E x \in X : <<x, t>> \in E
    OBVIOUS
  <2>1. ASSUME t \in Successors(E, X)
        PROVE  t \in Node /\ \E x \in X : <<x, t>> \in E
    <3>1. PICK e \in E : e[1] \in X /\ e[2] = t
      BY <2>1 DEF Successors
    <3> QED
      BY <1>1, <3>1
  <2>2. ASSUME NEW x \in X, <<x, t>> \in E
        PROVE  t \in Successors(E, X)
    <3>1. <<x, t>>[1] = x /\ <<x, t>>[2] = t
      OBVIOUS
    <3> QED
      BY <2>2, <3>1 DEF Successors
  <2> QED
    BY <2>1, <2>2
<1>4. ASSUME NEW s \in Node, <<v, s>> \in E, w \in Node, Reach(E, s, w)
      PROVE  w \in Beyond(E, v)
  <2>1. ASSUME NEW X \in SUBSET Nodes(E), Successors(E, {v}) \subseteq X, Closed(E, X)
        PROVE  w \in X
    <3>1. s \in X
      BY <1>3, <1>4, <2>1
    <3>2. Keeps(E, X)
      BY <1>3, <2>1 DEF Keeps, Closed
    <3> QED
      BY <1>2, <1>4, <3>1, <3>2 DEF Reach
  <2>2. w \in Nodes(E)
    <3>1. v \in Node
      BY <1>1, <1>4
    <3>2. s \in Nodes(E) /\ Keeps(E, Nodes(E))
      BY <1>2, <1>4, <3>1 DEF Keeps
    <3> QED
      BY <1>2, <1>4, <3>2 DEF Reach
  <2> QED
    BY <2>1, <2>2 DEF Beyond
<1>5. ASSUME w \in Beyond(E, v)
      PROVE  \E s \in Node : <<v, s>> \in E /\ w \in Node /\ Reach(E, s, w)
  <2> DEFINE X == {y \in Nodes(E) : \E s \in Node : <<v, s>> \in E /\ Reach(E, s, y)}
  <2>1. Successors(E, {v}) \subseteq X
    <3> SUFFICES ASSUME NEW t \in Successors(E, {v}) PROVE t \in X
      OBVIOUS
    <3>0. t \in Successors(E, {v})
      OBVIOUS
    <3> HIDE DEF X
    <3>a. PICK V : V = {v}
      OBVIOUS
    <3>b. t \in Node /\ \E x \in V : <<x, t>> \in E
      <4>1. t \in Successors(E, V)
        BY <3>0, <3>a
      <4> QED
        BY <1>3, <4>1
    <3>1. t \in Node /\ <<v, t>> \in E
      BY <3>a, <3>b
    <3> USE DEF X
    <3>2. v \in Node
      BY <1>1, <3>1
    <3> QED
      BY <1>2, <3>1, <3>2, ReachSelf
  <2>2. Closed(E, X)
    <3> SUFFICES ASSUME NEW t \in Successors(E, X) PROVE t \in X
      BY DEF Closed
    <3>1. PICK y \in X : <<y, t>> \in E
      BY <1>3
    <3>2. t \in Node /\ y \in Node
      BY <1>2, <1>3
    <3>3. PICK s \in Node : <<v, s>> \in E /\ Reach(E, s, y)
      OBVIOUS
    <3>4. Reach(E, s, t)
      BY <3>1, <3>2, <3>3, ReachEdge, ReachFurther
    <3> QED
      BY <1>2, <3>1, <3>2, <3>3, <3>4
  <2>3. X \in SUBSET Nodes(E)
    OBVIOUS
  <2>4. w \in X
    <3> HIDE DEF X
    <3> QED
      BY <1>5, <2>1, <2>2, <2>3 DEF Beyond
  <2> QED
    BY <1>2, <2>4
<1> QED
  BY <1>4, <1>5

(* A path to another node has an edge.                                     *)
LEMMA OthersAreBeyond ==
    ASSUME NEW E, E \subseteq Node \X Node, NEW v \in Node, NEW w \in Node, w # v,
           Reach(E, v, w)
    PROVE  w \in Beyond(E, v)
<1> DEFINE X == {v} \cup {y \in Node : \E s \in Node : <<v, s>> \in E /\ Reach(E, s, y)}
<1>1. Keeps(E, X)
  <2> SUFFICES ASSUME NEW x \in X, NEW t \in Node, <<x, t>> \in E PROVE t \in X
    BY DEF Keeps
  <2>1. CASE x = v
    BY <2>1, ReachSelf
  <2>2. CASE x # v
    <3>1. PICK s \in Node : <<v, s>> \in E /\ Reach(E, s, x)
      BY <2>2
    <3> QED
      BY <3>1, ReachEdge, ReachFurther
  <2> QED
    BY <2>1, <2>2
<1>2. X \in SUBSET Node /\ v \in X
  OBVIOUS
<1>3. w \in X
  <2> HIDE DEF X
  <2> QED
    BY <1>1, <1>2 DEF Reach
<1> QED
  BY <1>3, BeyondIsReached

(* A node is on a cycle if its component has another, or an edge leads to  *)
(* itself; the cycle is the component.                                     *)
LEMMA OnCycle ==
    ASSUME NEW E, E \subseteq Node \X Node, NEW v \in Node
    PROVE  /\ v \in Beyond(E, v)
              <=> <<v, v>> \in E \/ \E w \in ComponentOf(E, v) : w # v
           /\ v \in Beyond(E, v)
              => {w \in Beyond(E, v) : v \in Beyond(E, w)} = ComponentOf(E, v)
           /\ v \notin Beyond(E, v)
              => {w \in Beyond(E, v) : v \in Beyond(E, w)} = {}
<1>1. \A x, y : y \in Beyond(E, x) => y \in Node /\ Reach(E, x, y)
  <2> SUFFICES ASSUME NEW x, NEW y, y \in Beyond(E, x) PROVE y \in Node /\ Reach(E, x, y)
    OBVIOUS
  <2>1. PICK s \in Node : <<x, s>> \in E /\ y \in Node /\ Reach(E, s, y)
    BY BeyondIsReached
  <2> QED
    BY <2>1, ReachEdge, ReachFurther
<1>2. \A x, y, z : y \in Beyond(E, x) /\ z \in Node /\ Reach(E, y, z) => z \in Beyond(E, x)
  <2> SUFFICES ASSUME NEW x, NEW y, NEW z, y \in Beyond(E, x), z \in Node, Reach(E, y, z)
               PROVE  z \in Beyond(E, x)
    OBVIOUS
  <2>1. PICK s \in Node : <<x, s>> \in E /\ Reach(E, s, y)
    BY BeyondIsReached
  <2> QED
    BY <2>1, BeyondIsReached, ReachFurther
<1>3. ASSUME v \in Beyond(E, v)
      PROVE  <<v, v>> \in E \/ \E w \in ComponentOf(E, v) : w # v
  <2>1. PICK s \in Node : <<v, s>> \in E /\ Reach(E, s, v)
    BY <1>3, BeyondIsReached
  <2>2. Reach(E, v, s)
    BY <2>1, ReachEdge
  <2> QED
    BY <2>1, <2>2 DEF ComponentOf
<1>4. ASSUME <<v, v>> \in E
      PROVE  v \in Beyond(E, v)
  BY <1>4, BeyondIsReached, ReachSelf
<1>5. ASSUME NEW w \in ComponentOf(E, v), w # v
      PROVE  v \in Beyond(E, v)
  <2>1. w \in Node /\ Reach(E, v, w) /\ Reach(E, w, v)
    BY DEF ComponentOf
  <2> QED
    BY <1>2, <1>5, <2>1, OthersAreBeyond
<1>6. ASSUME NEW w \in Beyond(E, v), v \in Beyond(E, w)
      PROVE  v \in Beyond(E, v) /\ w \in ComponentOf(E, v)
  BY <1>1, <1>2, <1>6 DEF ComponentOf
<1>7. ASSUME v \in Beyond(E, v), NEW w \in ComponentOf(E, v)
      PROVE  w \in Beyond(E, v) /\ v \in Beyond(E, w)
  <2>1. w \in Node /\ Reach(E, v, w) /\ Reach(E, w, v)
    BY DEF ComponentOf
  <2>2. CASE w = v
    BY <1>7, <2>2
  <2>3. CASE w # v
    BY <2>1, <2>3, OthersAreBeyond
  <2> QED
    BY <2>2, <2>3
<1> QED
  BY <1>3, <1>4, <1>5, <1>6, <1>7

LEMMA SeveralNodes ==
    ASSUME NEW c \in SUBSET Node
    PROVE  Cardinality(c) > 1 <=> \E x, y \in c : x # y
<1>1. IsFiniteSet(c) /\ Cardinality(c) \in Nat
  <2>1. N \in Int /\ 1 \in Int
    BY CyclesAssumption
  <2>2. IsFiniteSet(1 .. N)
    BY <2>1, FS_Interval
  <2>3. IsFiniteSet(c)
    BY <2>2, FS_Subset DEF Node
  <2> QED
    BY <2>3, FS_CardinalityType
<1>2. ASSUME NEW x \in c, NEW y \in c, x # y
      PROVE  Cardinality(c) > 1
  <2>1. IsFiniteSet({x}) /\ Cardinality({x}) = 1 /\ {x} \subseteq c
    BY FS_Singleton
  <2>2. Cardinality({x}) <= Cardinality(c) /\ (Cardinality({x}) = Cardinality(c) => {x} = c)
    BY <1>1, <2>1, FS_Subset
  <2>3. {x} # c
    BY <1>2
  <2> QED
    BY <1>1, <2>1, <2>2, <2>3
<1>3. ASSUME \A x, y \in c : x = y
      PROVE  ~ (Cardinality(c) > 1)
  <2>1. CASE c = {}
    BY <2>1, FS_EmptySet
  <2>2. CASE c # {}
    <3>1. PICK x \in c : TRUE
      BY <2>2
    <3>2. c = {x}
      BY <1>3
    <3> QED
      BY <3>2, FS_Singleton
  <2> QED
    BY <2>1, <2>2
<1> QED
  BY <1>2, <1>3

LEMMA DoneIsFound ==
    ASSUME SearchInv, Done
    PROVE  Reported = Cycles(edges)
<1>1. /\ Types /\ StackInv /\ ReachInv /\ ComponentInv /\ RootInv
      /\ edges \subseteq Node \X Node /\ components \in SUBSET SUBSET Node
  BY DEF SearchInv, Types
<1>2. \A v \in Node : v \in ClosedNodes
  <2>1. frames = <<>> /\ \A v \in Node : Visited(v)
    BY <1>1, CyclesAssumption DEF Done, RootInv, Types, Node
  <2>2. onStack = {}
    BY <1>1, <2>1 DEF ReachInv
  <2> QED
    BY <1>1, <2>1, <2>2 DEF StackInv
<1>3. \A c \in components : c \in SUBSET Node /\ \A v \in c : c = ComponentOf(edges, v)
  BY <1>1 DEF ComponentInv
<1>4. ASSUME NEW c \in Reported
      PROVE  c \in Cycles(edges)
  <2>1. c \in components /\ (Cardinality(c) > 1 \/ \E v \in c : <<v, v>> \in edges)
    BY DEF Reported
  <2>2. (\E x, y \in c : x # y) \/ \E v \in c : <<v, v>> \in edges
    BY <1>3, <2>1, SeveralNodes
  <2>3. PICK v \in c : <<v, v>> \in edges \/ \E y \in c : v # y
    BY <2>2
  <2>4. v \in Node /\ c = ComponentOf(edges, v)
    BY <1>3, <2>1
  <2>5. v \in Beyond(edges, v) /\ {w \in Beyond(edges, v) : v \in Beyond(edges, w)} = c
    BY <1>1, <2>3, <2>4, OnCycle
  <2>6. v \in Nodes(edges)
    BY <2>5 DEF Beyond
  <2> QED
    BY <2>5, <2>6 DEF Cycles
<1>5. ASSUME NEW c \in Cycles(edges)
      PROVE  c \in Reported
  <2>1. PICK v \in Nodes(edges) : c = {w \in Beyond(edges, v) : v \in Beyond(edges, w)}
    BY DEF Cycles
  <2>2. c # {}
    BY DEF Cycles
  <2>3. v \in Node
    BY <1>1 DEF Nodes
  <2>4. v \in Beyond(edges, v) /\ c = ComponentOf(edges, v)
    BY <1>1, <2>1, <2>2, <2>3, OnCycle
  <2>5. PICK d \in components : v \in d
    BY <1>2, <2>3 DEF ClosedNodes
  <2>6. d = c
    BY <1>3, <2>4, <2>5
  <2>7. <<v, v>> \in edges \/ \E w \in c : w # v
    BY <1>1, <2>3, <2>4, OnCycle
  <2>8. CASE <<v, v>> \in edges
    BY <2>5, <2>6, <2>8 DEF Reported
  <2>9. CASE \E w \in c : w # v
    <3>1. Cardinality(c) > 1
      BY <1>3, <2>5, <2>6, <2>9, SeveralNodes
    <3> QED
      BY <2>5, <2>6, <3>1 DEF Reported
  <2> QED
    BY <2>7, <2>8, <2>9
<1> QED
  BY <1>4, <1>5

-----------------------------------------------------------------------------
(* The theorems *)

(* The inductive invariant: what the stack, the frames and the low numbers *)
(* of detect_reference_cycles (src/index.cpp) say of the graph.            *)
THEOREM SearchInvariant == Spec => []SearchInv
BY InitInv, NextKeeps, PTL DEF Spec

(* When the search has ended, it has reported the cycles of the graph, all *)
(* of them and nothing else, for every graph.                              *)
THEOREM CyclesAreFound == Spec => []FindsCycles
<1>1. SearchInv => FindsCycles
  BY DoneIsFound DEF FindsCycles
<1> QED
  BY <1>1, SearchInvariant, PTL
=============================================================================
