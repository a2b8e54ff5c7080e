------------------------- MODULE IntentServer_proofs -------------------------
(***************************************************************************)
(* Proofs about IntentServer for every number of connections and workers,  *)
(* every limit and both ways sockets behave: no wakeup is lost, every open *)
(* connection is tracked and within the limits, and run returns last.      *)
(***************************************************************************)
EXTENDS IntentServer, FiniteSetTheorems, SequenceTheorems, TLAPS

WorkerPlace ==
    {"awake", "asleep", "serve", "receive", "reading", "answer", "close", "retire", "ended"}

WorkerState ==
    [at : WorkerPlace, conn : Conn \cup {None}, frame : MessageType \cup {None}]

(* What the other invariants need of the types.                            *)
Types ==
    /\ inbox \in [Conn -> Seq(MessageType)]
    /\ socket \in [Conn -> {"none", "open", "closed"}]
    /\ closed \in [Conn -> BOOLEAN]
    /\ queue \in Seq(Conn)
    /\ active \subseteq Conn
    /\ IsFiniteSet(active)
    /\ run \in [at : {"check", "accept", "admit", "notify", "finish", "returned"},
                conn : Conn \cup {None}]
    /\ worker \in [Worker -> WorkerState]
    /\ finisher \in [Finisher -> {"away", "enter", "close", "notify", "join", "returned"}]
    /\ target \in Conn \cup {None}

(* A worker that holds a connection.                                       *)
Busy(w) == worker[w].at \notin {"awake", "asleep", "ended"}

(* What is marked closed is closed, and no list names a socket that was    *)
(* never opened.                                                           *)
SocketInv ==
    /\ \A c \in Conn : closed[c] => socket[c] = "closed"
    /\ \A c \in Conn : c \in active \cup todo \cup {run.conn, target} => socket[c] # "none"

(* The accept loop holds a connection only to admit it, a worker until it  *)
(* has retired it; what it retires is closed.                              *)
HoldInv ==
    /\ run.at = "admit" <=> run.conn # None
    /\ \A w \in Worker : Busy(w) => worker[w].conn # None
    /\ \A w \in Worker : worker[w].at = "retire" => socket[worker[w].conn] = "closed"

ConnInv == SocketInv /\ HoldInv

-----------------------------------------------------------------------------
(* Types *)

LEMMA InitTypes == Init => Types
<1> SUFFICES ASSUME Init PROVE Types
  OBVIOUS
<1>1. IsFiniteSet(active)
  BY FS_EmptySet DEF Init
<1> QED
  BY <1>1 DEF Init, Types, WorkerState, WorkerPlace, Finisher

(* A worker moves to another well-formed state.                            *)
LEMMA WorkerMoves ==
    ASSUME Types, NEW w \in Worker, NEW s \in WorkerState,
           worker' = [worker EXCEPT ![w] = s]
    PROVE  /\ worker' \in [Worker -> WorkerState]
           /\ worker'[w] = s
           /\ \A v \in Worker \ {w} : worker'[v] = worker[v]
BY DEF Types

LEMMA GoesTo ==
    ASSUME Types, NEW w \in Worker, NEW at \in WorkerPlace, Goes(w, at)
    PROVE  /\ worker' \in [Worker -> WorkerState]
           /\ worker'[w].at = at
           /\ worker'[w].conn = worker[w].conn
           /\ \A v \in Worker \ {w} : worker'[v] = worker[v]
<1> DEFINE s == [worker[w] EXCEPT !.at = at]
<1>1. worker[w] \in WorkerState
  BY DEF Types
<1>2. s \in WorkerState /\ s.at = at /\ s.conn = worker[w].conn
  BY <1>1 DEF WorkerState
<1>3. worker' = [worker EXCEPT ![w] = s]
  BY DEF Goes
<1> QED
  BY <1>2, <1>3, WorkerMoves

-----------------------------------------------------------------------------
(* What each step does to the workers, without EXCEPT *)

Alone(w) ==
    /\ worker' \in [Worker -> WorkerState]
    /\ \A v \in Worker \ {w} : worker'[v] = worker[v]

TakesOne(w) ==
    /\ worker[w].at = "awake"
    /\ MutexFree
    /\ Alone(w)
    /\ \/ /\ queue # <<>>
          /\ queue' = Tail(queue)
          /\ worker'[w].at = "serve"
          /\ worker'[w].conn = Head(queue)
       \/ /\ queue = <<>>
          /\ queue' = queue
          /\ worker'[w].at \in {"ended", "asleep"}
          /\ worker'[w].conn = worker[w].conn
    /\ UNCHANGED <<conns, active, run, stop>>

WorksOn(w) ==
    /\ worker[w].at \in {"serve", "receive", "reading", "answer"}
    /\ Alone(w)
    /\ worker'[w].at \in {"serve", "receive", "reading", "answer", "close"}
    /\ worker'[w].conn = worker[w].conn
    /\ UNCHANGED <<conns, pool, run, stop>>

ClosesOne(w) ==
    /\ worker[w].at = "close"
    /\ Alone(w)
    /\ worker'[w].at = "retire"
    /\ worker'[w].conn = worker[w].conn
    /\ closed' = [closed EXCEPT ![worker[w].conn] = TRUE]
    /\ socket' = [socket EXCEPT ![worker[w].conn] = "closed"]
    /\ UNCHANGED <<pool, run, stop>>

RetiresOne(w) ==
    /\ worker[w].at = "retire"
    /\ MutexFree
    /\ Alone(w)
    /\ worker'[w].at = "awake"
    /\ worker'[w].conn = None
    /\ active' = active \ {worker[w].conn}
    /\ UNCHANGED <<conns, queue, run, stop>>

LEMMA WorkerActs ==
    ASSUME Types, ConnInv, NEW w \in Worker, WorkerStep(w)
    PROVE  /\ TakesOne(w) \/ WorksOn(w) \/ ClosesOne(w) \/ RetiresOne(w)
           /\ inbox' \in [Conn -> Seq(MessageType)]
<1>t. worker[w] \in WorkerState /\ inbox \in [Conn -> Seq(MessageType)]
  BY DEF Types
<1>1. CASE Takes(w)
  <2>1. CASE queue # <<>>
    <3> DEFINE s == [at |-> "serve", conn |-> Head(queue), frame |-> None]
    <3>1. Head(queue) \in Conn
      BY <2>1 DEF Types
    <3>2. s \in WorkerState
      BY <3>1 DEF WorkerState, WorkerPlace
    <3>3. worker' = [worker EXCEPT ![w] = s] /\ queue' = Tail(queue)
      BY <1>1, <2>1 DEF Takes
    <3>4. Alone(w) /\ worker'[w] = s
      BY <3>2, <3>3, WorkerMoves DEF Alone
    <3> QED
      BY <1>1, <1>t, <2>1, <3>3, <3>4 DEF Takes, TakesOne, clients
  <2>2. CASE queue = <<>>
    <3>1. PICK at \in {"ended", "asleep"} : Goes(w, at)
      BY <1>1, <2>2 DEF Takes
    <3>2. at \in WorkerPlace
      BY <3>1 DEF WorkerPlace
    <3>3. Alone(w) /\ worker'[w].at = at /\ worker'[w].conn = worker[w].conn
      BY <3>1, <3>2, GoesTo DEF Alone
    <3> QED
      BY <1>1, <1>t, <2>2, <3>1, <3>3 DEF Takes, TakesOne, clients
  <2> QED
    BY <2>1, <2>2
<1>2. CASE Serves(w) \/ Receives(w) \/ Answers(w)
  <2>1. PICK at \in {"serve", "receive", "reading", "close"} : Goes(w, at)
    BY <1>2 DEF Serves, Receives, Answers
  <2>2. at \in WorkerPlace
    BY <2>1 DEF WorkerPlace
  <2>3. Alone(w) /\ worker'[w].at = at /\ worker'[w].conn = worker[w].conn
    BY <2>1, <2>2, GoesTo DEF Alone
  <2> QED
    BY <1>2, <1>t, <2>1, <2>3 DEF Serves, Receives, Answers, WorksOn, clients
<1>3. CASE Reads(w)
  <2> DEFINE c == worker[w].conn
  <2>c. c \in Conn
    BY <1>3, <1>t DEF ConnInv, HoldInv, Reads, Busy, WorkerState
  <2>1. CASE Goes(w, "close") /\ UNCHANGED inbox
    <3>1. Alone(w) /\ worker'[w].at = "close" /\ worker'[w].conn = worker[w].conn
      BY <2>1, GoesTo DEF Alone, WorkerPlace
    <3> QED
      BY <1>3, <1>t, <2>1, <3>1 DEF Reads, WorksOn
  <2>2. CASE /\ inbox[c] # <<>>
             /\ inbox' = [inbox EXCEPT ![c] = Tail(@)]
             /\ worker' = [worker EXCEPT ![w] =
                           [@ EXCEPT !.frame = Head(inbox[c]),
                                     !.at = IF Head(inbox[c]) = "garbled"
                                            THEN "close" ELSE "answer"]]
    <3> DEFINE s == [worker[w] EXCEPT !.frame = Head(inbox[c]),
                                      !.at = IF Head(inbox[c]) = "garbled"
                                             THEN "close" ELSE "answer"]
    <3>1. Head(inbox[c]) \in MessageType /\ Tail(inbox[c]) \in Seq(MessageType)
      BY <1>t, <2>2, <2>c
    <3>2. /\ s \in WorkerState
          /\ s.at \in {"close", "answer"}
          /\ s.conn = worker[w].conn
      BY <1>t, <3>1 DEF WorkerState, WorkerPlace
    <3>3. Alone(w) /\ worker'[w] = s
      BY <2>2, <3>2, WorkerMoves DEF Alone
    <3>4. inbox' \in [Conn -> Seq(MessageType)]
      BY <1>t, <2>2, <2>c, <3>1
    <3> HIDE DEF s
    <3> QED
      BY <1>3, <3>2, <3>3, <3>4 DEF Reads, WorksOn
  <2> QED
    BY <1>3, <2>1, <2>2 DEF Reads
<1>4. CASE Closes(w)
  <2> DEFINE c == worker[w].conn
  <2>c. c \in Conn
    BY <1>4, <1>t DEF ConnInv, HoldInv, Closes, Busy, WorkerState
  <2>1. Alone(w) /\ worker'[w].at = "retire" /\ worker'[w].conn = c
    BY <1>4, GoesTo DEF Alone, WorkerPlace, Closes
  <2>2. socket' = [socket EXCEPT ![c] = "closed"]
    <3>1. CASE closed[c]
      BY <1>4, <2>c, <3>1 DEF Closes, Types, ConnInv, SocketInv
    <3>2. CASE ~ closed[c]
      BY <1>4, <3>2 DEF Closes
    <3> QED
      BY <3>1, <3>2
  <2> QED
    BY <1>4, <1>t, <2>1, <2>2 DEF Closes, ClosesOne, clients
<1>5. CASE Retires(w)
  <2> DEFINE s == [at |-> "awake", conn |-> None, frame |-> None]
  <2>1. s \in WorkerState
    BY DEF WorkerState, WorkerPlace
  <2>2. Alone(w) /\ worker'[w] = s
    BY <1>5, <2>1, WorkerMoves DEF Alone, Retires
  <2> QED
    BY <1>5, <1>t, <2>2 DEF Retires, RetiresOne, clients
<1> QED
  BY <1>1, <1>2, <1>3, <1>4, <1>5 DEF WorkerStep

(* The accept loop wakes one worker, finish all of them.                   *)
WakesOne(w) ==
    /\ worker[w].at = "asleep"
    /\ Alone(w)
    /\ worker'[w].at = "awake"
    /\ worker'[w].conn = worker[w].conn

LEMMA RunWakes ==
    ASSUME Types, RunNotifies
    PROVE  \/ Asleep = {} /\ UNCHANGED worker
           \/ \E w \in Worker : WakesOne(w)
<1>1. CASE Asleep = {}
  BY <1>1 DEF RunNotifies
<1>2. CASE Asleep # {}
  <2>1. PICK w \in Asleep : worker' = [worker EXCEPT ![w].at = "awake"]
    BY <1>2 DEF RunNotifies
  <2>2. w \in Worker /\ Goes(w, "awake")
    BY <2>1 DEF Asleep, Goes
  <2>3. Alone(w) /\ worker'[w].at = "awake" /\ worker'[w].conn = worker[w].conn
    BY <2>2, GoesTo DEF Alone, WorkerPlace
  <2> QED
    BY <2>1, <2>2, <2>3 DEF WakesOne, Asleep
<1> QED
  BY <1>1, <1>2

LEMMA FinishWakes ==
    ASSUME Types, NEW t \in Finisher, NotifiesAll(t)
    PROVE  /\ worker' \in [Worker -> WorkerState]
           /\ \A w \in Worker : /\ worker'[w].conn = worker[w].conn
                                /\ worker[w].at = "asleep" => worker'[w].at = "awake"
                                /\ worker[w].at # "asleep" => worker'[w] = worker[w]
<1>1. \A w \in Worker : worker[w] \in WorkerState
  BY DEF Types
<1>2. ASSUME NEW w \in Worker
      PROVE  /\ [worker[w] EXCEPT !.at = "awake"] \in WorkerState
             /\ [worker[w] EXCEPT !.at = "awake"].conn = worker[w].conn
             /\ [worker[w] EXCEPT !.at = "awake"].at = "awake"
  BY <1>1 DEF WorkerState, WorkerPlace
<1> QED
  BY <1>1, <1>2 DEF NotifiesAll, Asleep

-----------------------------------------------------------------------------
(* Types and connections, one induction *)

LEMMA InitConn == Init => ConnInv
BY ServerAssumption DEF Init, ConnInv, SocketInv, HoldInv, Busy

(* Closing a connection that is no longer held keeps the invariant.        *)
LEMMA ClosingKeeps ==
    ASSUME Types, ConnInv, NEW c \in Conn,
           socket' = [socket EXCEPT ![c] = "closed"],
           closed' = [closed EXCEPT ![c] = TRUE],
           run' = run \/ run' = [at |-> "check", conn |-> None],
           target' \in {target, None},
           UNCHANGED <<active, worker, todo>>
    PROVE  ConnInv'
<1>1. \A d \in Conn : socket'[d] = socket[d] \/ socket'[d] = "closed"
  BY DEF Types
<1>2. \A d \in Conn : closed'[d] => closed[d] \/ socket'[d] = "closed"
  BY DEF Types
<1>3. SocketInv'
  BY <1>1, <1>2, ServerAssumption DEF ConnInv, SocketInv
<1>4. \A w \in Worker : worker[w].at = "retire" => worker[w].conn \in Conn
  BY DEF Types, ConnInv, HoldInv, Busy, WorkerState
<1>5. HoldInv'
  BY <1>1, <1>4 DEF ConnInv, HoldInv, Busy
<1> QED
  BY <1>3, <1>5 DEF ConnInv

LEMMA StepTypes ==
    ASSUME Types, ConnInv, [Next]_vars
    PROVE  Types'
<1> USE DEF clients, conns, pool, stop
<1>0. CASE UNCHANGED vars
  BY <1>0 DEF vars, Types
<1>1. CASE Environment
  <2>1. ASSUME NEW c \in Conn, Connect(c) \/ HangUp(c)
        PROVE  Types'
    BY <2>1 DEF Connect, HangUp, Types
  <2>2. ASSUME NEW c \in Conn, NEW f \in MessageType, Send(c, f)
        PROVE  Types'
    BY <2>2 DEF Send, Types
  <2>3. CASE RequestStop
    BY <2>3 DEF RequestStop, Types
  <2>4. CASE Shutdown
    BY <2>4 DEF Shutdown, Types, Finisher
  <2> QED
    BY <1>1, <2>1, <2>2, <2>3, <2>4 DEF Environment
<1>2. CASE RunStep
  <2>1. CASE RunChecks
    BY <2>1 DEF RunChecks, Types, Finisher
  <2>2. ASSUME NEW c \in Conn, RunAccepts(c)
        PROVE  Types'
    BY <2>2 DEF RunAccepts, Types
  <2>3. CASE RunAcceptsNone
    BY <2>3 DEF RunAcceptsNone, Types
  <2>4. CASE RunRejects
    BY <2>4 DEF RunRejects, Types
  <2>5. CASE RunQueues
    <3>1. run.conn \in Conn
      BY <2>5 DEF RunQueues, Types, ConnInv, HoldInv
    <3>2. IsFiniteSet(active \cup {run.conn})
      BY FS_AddElement DEF Types
    <3>3. Append(queue, run.conn) \in Seq(Conn)
      BY <3>1 DEF Types
    <3> QED
      BY <2>5, <3>1, <3>2, <3>3 DEF RunQueues, Types
  <2>6. CASE RunNotifies
    <3>1. worker' \in [Worker -> WorkerState]
      BY <2>6, RunWakes DEF WakesOne, Alone, Types
    <3> QED
      BY <2>6, <3>1 DEF RunNotifies, Types
  <2>7. CASE RunReturns
    BY <2>7 DEF RunReturns, Types
  <2> QED
    BY <1>2, <2>1, <2>2, <2>3, <2>4, <2>5, <2>6, <2>7 DEF RunStep
<1>3. ASSUME NEW w \in Worker, WorkerStep(w)
      PROVE  Types'
  <2>0. inbox' \in [Conn -> Seq(MessageType)]
    BY <1>3, WorkerActs
  <2>1. CASE TakesOne(w)
    <3>1. queue' \in Seq(Conn)
      <4>1. CASE queue = <<>>
        BY <2>1, <4>1 DEF TakesOne, Types
      <4>2. CASE queue # <<>>
        <5>1. Tail(queue) \in Seq(Conn)
          BY <4>2, HeadTailProperties DEF Types
        <5>2. queue' = Tail(queue)
          BY <2>1, <4>2 DEF TakesOne
        <5> QED
          BY <5>1, <5>2
      <4> QED
        BY <4>1, <4>2
    <3> QED
      BY <2>0, <2>1, <3>1 DEF TakesOne, Alone, Types
  <2>2. CASE WorksOn(w)
    BY <2>0, <2>2 DEF WorksOn, Alone, Types
  <2>3. CASE ClosesOne(w)
    BY <2>0, <2>3 DEF ClosesOne, Alone, Types
  <2>4. CASE RetiresOne(w)
    <3>1. IsFiniteSet(active')
      BY <2>4, FS_RemoveElement DEF RetiresOne, Types
    <3> QED
      BY <2>0, <2>4, <3>1 DEF RetiresOne, Alone, Types
  <2> QED
    BY <1>3, <2>1, <2>2, <2>3, <2>4, WorkerActs
<1>4. ASSUME NEW t \in Finisher, FinishStep(t)
      PROVE  Types'
  <2>1. CASE Enters(t)
    BY <2>1 DEF Enters, Types
  <2>2. ASSUME NEW c \in Conn, LooksAt(t, c)
        PROVE  Types'
    BY <2>2 DEF LooksAt, Types
  <2>3. CASE ClosesTarget(t)
    BY <2>3 DEF ClosesTarget, Types
  <2>4. CASE ClearsQueue(t)
    BY <2>4 DEF ClearsQueue, Types
  <2>5. CASE NotifiesAll(t)
    BY <2>5, FinishWakes DEF NotifiesAll, Types
  <2>6. CASE Joins(t)
    BY <2>6 DEF Joins, Types
  <2> QED
    BY <1>4, <2>1, <2>2, <2>3, <2>4, <2>5, <2>6 DEF FinishStep
<1> QED
  BY <1>0, <1>1, <1>2, <1>3, <1>4 DEF Next

LEMMA StepConn ==
    ASSUME Types, ConnInv, [Next]_vars
    PROVE  ConnInv'
<1> USE DEF clients, conns, pool, stop
<1>0. CASE UNCHANGED vars
  BY <1>0 DEF vars, ConnInv, SocketInv, HoldInv, Busy
<1>1. CASE Environment
  BY <1>1 DEF Environment, Connect, HangUp, Send, RequestStop, Shutdown, ConnInv, SocketInv, HoldInv, Busy
<1>2. CASE RunStep
  <2>1. CASE RunChecks \/ RunAcceptsNone \/ RunReturns
    BY <2>1 DEF RunChecks, RunAcceptsNone, RunReturns, Types, ConnInv, SocketInv, HoldInv, Busy
  <2>2. ASSUME NEW c \in Conn, RunAccepts(c)
        PROVE  ConnInv'
    <3>1. /\ socket[c] = "none"
          /\ socket' = [socket EXCEPT ![c] = "open"]
          /\ run' = [at |-> "admit", conn |-> c]
          /\ UNCHANGED <<closed, active, worker, todo, target>>
      BY <2>2 DEF RunAccepts, Waiting
    <3>2. SocketInv'
      BY <3>1 DEF Types, ConnInv, SocketInv
    <3>3. \A w \in Worker : worker[w].at = "retire" => worker[w].conn \in Conn \ {c}
      BY <3>1 DEF Types, ConnInv, HoldInv, Busy, WorkerState
    <3>4. HoldInv'
      BY <3>1, <3>3, ServerAssumption DEF Types, ConnInv, HoldInv, Busy
    <3> QED
      BY <3>2, <3>4 DEF ConnInv
  <2>3. CASE RunRejects
    <3> DEFINE c == run.conn
    <3>1. c \in Conn /\ run' = [at |-> "check", conn |-> None]
      BY <2>3 DEF RunRejects, Types, ConnInv, HoldInv
    <3>2. /\ socket' = [socket EXCEPT ![c] = "closed"]
          /\ closed' = [closed EXCEPT ![c] = TRUE]
          /\ UNCHANGED <<active, worker, todo, target>>
      BY <2>3 DEF RunRejects
    <3> QED
      BY <3>1, <3>2, ClosingKeeps, ServerAssumption
  <2>4. CASE RunQueues
    <3>1. /\ run.conn \in Conn
          /\ run' = [at |-> "notify", conn |-> None]
          /\ active' = active \cup {run.conn}
          /\ UNCHANGED <<socket, closed, worker, todo, target>>
      BY <2>4 DEF RunQueues, Types, ConnInv, HoldInv
    <3>2. SocketInv'
      BY <3>1, ServerAssumption DEF Types, ConnInv, SocketInv
    <3>3. HoldInv'
      BY <3>1 DEF ConnInv, HoldInv, Busy
    <3> QED
      BY <3>2, <3>3 DEF ConnInv
  <2>5. CASE RunNotifies
    <3>1. \A w \in Worker : worker'[w] = worker[w] \/ worker'[w].at = "awake"
      BY <2>5, RunWakes DEF WakesOne, Alone
    <3> QED
      BY <2>5, <3>1 DEF RunNotifies, Types, ConnInv, SocketInv, HoldInv, Busy
  <2> QED
    BY <1>2, <2>1, <2>2, <2>3, <2>4, <2>5 DEF RunStep
<1>3. ASSUME NEW w \in Worker, WorkerStep(w)
      PROVE  ConnInv'
  <2>1. CASE TakesOne(w)
    <3>1. queue # <<>> => Head(queue) \in Conn
      BY DEF Types
    <3> QED
      BY <2>1, <3>1, ServerAssumption DEF TakesOne, Alone, ConnInv, SocketInv, HoldInv, Busy
  <2>2. CASE WorksOn(w)
    BY <2>2 DEF WorksOn, Alone, ConnInv, SocketInv, HoldInv, Busy
  <2>3. CASE ClosesOne(w)
    <3> DEFINE c == worker[w].conn
    <3>1. c \in Conn
      BY <2>3 DEF ClosesOne, Types, ConnInv, HoldInv, Busy, WorkerState
    <3>2. SocketInv'
      BY <2>3, <3>1 DEF ClosesOne, Types, ConnInv, SocketInv
    <3>3. \A d \in Conn : socket'[d] = socket[d] \/ socket'[d] = "closed"
      BY <2>3 DEF ClosesOne, Types
    <3>4. socket'[c] = "closed"
      BY <2>3, <3>1 DEF ClosesOne, Types
    <3>5. \A v \in Worker : worker[v].at = "retire" => worker[v].conn \in Conn
      BY DEF Types, ConnInv, HoldInv, Busy, WorkerState
    <3>6. HoldInv'
      BY <2>3, <3>3, <3>4, <3>5 DEF ClosesOne, Alone, ConnInv, HoldInv, Busy
    <3> QED
      BY <3>2, <3>6 DEF ConnInv
  <2>4. CASE RetiresOne(w)
    <3>1. SocketInv'
      BY <2>4 DEF RetiresOne, ConnInv, SocketInv
    <3>2. HoldInv'
      BY <2>4 DEF RetiresOne, Alone, ConnInv, HoldInv, Busy
    <3> QED
      BY <3>1, <3>2 DEF ConnInv
  <2> QED
    BY <1>3, <2>1, <2>2, <2>3, <2>4, WorkerActs
<1>4. ASSUME NEW t \in Finisher, FinishStep(t)
      PROVE  ConnInv'
  <2>1. CASE Enters(t) \/ ClearsQueue(t) \/ Joins(t)
    BY <2>1 DEF Enters, ClearsQueue, Joins, ConnInv, SocketInv, HoldInv, Busy
  <2>2. ASSUME NEW c \in Conn, LooksAt(t, c)
        PROVE  ConnInv'
    BY <2>2 DEF LooksAt, Types, ConnInv, SocketInv, HoldInv, Busy
  <2>3. CASE ClosesTarget(t)
    <3>1. target \in Conn /\ target' = None
      BY <2>3 DEF ClosesTarget, Types
    <3>2. /\ socket' = [socket EXCEPT ![target] = "closed"]
          /\ closed' = [closed EXCEPT ![target] = TRUE]
          /\ UNCHANGED <<active, run, worker, todo>>
      BY <2>3 DEF ClosesTarget
    <3> QED
      BY <3>1, <3>2, ClosingKeeps, ServerAssumption
  <2>4. CASE NotifiesAll(t)
    BY <2>4, FinishWakes DEF NotifiesAll, ConnInv, SocketInv, HoldInv, Busy
  <2> QED
    BY <1>4, <2>1, <2>2, <2>3, <2>4 DEF FinishStep
<1> QED
  BY <1>0, <1>1, <1>2, <1>3, <1>4 DEF Next

-----------------------------------------------------------------------------
(* OpenTracked *)

(* Every open socket is in active_ or held by the accept loop.             *)
Tracked == \A c \in Conn : socket[c] = "open" => c \in active \cup {run.conn}

Limited == Cardinality(active) <= MaxConnections /\ Len(queue) <= MaxPending

LEMMA InitTracked == Init => Tracked /\ Limited
<1>1. Init => Cardinality(active) = 0 /\ Len(queue) = 0
  BY FS_EmptySet DEF Init
<1> QED
  BY <1>1, ServerAssumption DEF Init, Tracked, Limited

LEMMA StepTracked ==
    ASSUME Types, ConnInv, Tracked, [Next]_vars
    PROVE  Tracked'
<1> USE DEF clients, conns, pool, stop
<1>0. CASE UNCHANGED vars
  BY <1>0 DEF vars, Tracked
<1>1. CASE Environment
  BY <1>1 DEF Environment, Connect, HangUp, Send, RequestStop, Shutdown, Tracked
<1>2. CASE RunStep
  <2>1. CASE RunChecks \/ RunAcceptsNone \/ RunReturns
    BY <2>1 DEF RunChecks, RunAcceptsNone, RunReturns, Types, Tracked
  <2>2. ASSUME NEW c \in Conn, RunAccepts(c)
        PROVE  Tracked'
    <3>1. run.conn = None
      BY <2>2 DEF RunAccepts, ConnInv, HoldInv
    <3> QED
      BY <2>2, <3>1, ServerAssumption DEF RunAccepts, Types, Tracked
  <2>3. CASE RunRejects
    <3>1. \A d \in Conn : socket'[d] = "open" => socket[d] = "open" /\ d # run.conn
      BY <2>3 DEF RunRejects, Types
    <3>2. active' = active
      BY <2>3 DEF RunRejects
    <3> QED
      BY <3>1, <3>2 DEF Tracked
  <2>4. CASE RunQueues
    BY <2>4 DEF RunQueues, Tracked
  <2>5. CASE RunNotifies
    BY <2>5 DEF RunNotifies, Types, Tracked
  <2> QED
    BY <1>2, <2>1, <2>2, <2>3, <2>4, <2>5 DEF RunStep
<1>3. ASSUME NEW w \in Worker, WorkerStep(w)
      PROVE  Tracked'
  <2>1. CASE TakesOne(w) \/ WorksOn(w)
    BY <2>1 DEF TakesOne, WorksOn, Tracked
  <2>2. CASE ClosesOne(w)
    <3>1. \A d \in Conn : socket'[d] = "open" => socket[d] = "open"
      BY <2>2 DEF ClosesOne, Types
    <3> QED
      BY <2>2, <3>1 DEF ClosesOne, Tracked
  <2>3. CASE RetiresOne(w)
    BY <2>3 DEF RetiresOne, ConnInv, HoldInv, Tracked
  <2> QED
    BY <1>3, <2>1, <2>2, <2>3, WorkerActs
<1>4. ASSUME NEW t \in Finisher, FinishStep(t)
      PROVE  Tracked'
  <2>1. CASE ClosesTarget(t)
    <3>1. \A d \in Conn : socket'[d] = "open" => socket[d] = "open"
      BY <2>1 DEF ClosesTarget, Types
    <3> QED
      BY <2>1, <3>1 DEF ClosesTarget, Tracked
  <2>2. CASE ~ ClosesTarget(t)
    BY <1>4, <2>2 DEF FinishStep, Enters, LooksAt, ClearsQueue, NotifiesAll, Joins, Tracked
  <2> QED
    BY <2>1, <2>2
<1> QED
  BY <1>0, <1>1, <1>2, <1>3, <1>4 DEF Next

LEMMA StepLimited ==
    ASSUME Types, ConnInv, Limited, [Next]_vars
    PROVE  Limited'
<1> USE DEF clients, conns, pool, stop
<1>c. Cardinality(active) \in Nat /\ Len(queue) \in Nat
  BY FS_CardinalityType DEF Types
<1>1. CASE UNCHANGED pool
  BY <1>1 DEF Limited
<1>2. CASE RunQueues
  <2> DEFINE more == active \cup {run.conn}
  <2>0. IsFiniteSet(active) /\ active' = more
    BY <1>2 DEF RunQueues, Types
  <2>1. Cardinality(more) <= Cardinality(active) + 1
    <3>1. \/ Cardinality(more) = Cardinality(active)
          \/ Cardinality(more) = Cardinality(active) + 1
      BY <2>0, FS_AddElement
    <3> HIDE DEF more
    <3> QED
      BY <1>c, <3>1
  <2>2. Len(queue') = Len(queue) + 1
    BY <1>2 DEF RunQueues, Types
  <2>3. Cardinality(more) \in Nat
    BY <2>0, FS_AddElement, FS_CardinalityType
  <2>4. Cardinality(active) < MaxConnections /\ Len(queue) < MaxPending
    BY <1>2, <1>c, ServerAssumption DEF RunQueues, AtCapacity
  <2> QED
    BY <1>c, <2>0, <2>1, <2>2, <2>3, <2>4, ServerAssumption DEF Limited
<1>3. ASSUME NEW w \in Worker, TakesOne(w)
      PROVE  Limited'
  <2>1. active' = active /\ (queue' = queue \/ (queue # <<>> /\ queue' = Tail(queue)))
    BY <1>3 DEF TakesOne
  <2>2. queue # <<>> => Len(Tail(queue)) = Len(queue) - 1
    BY HeadTailProperties DEF Types
  <2>3. Len(queue') <= Len(queue) /\ Len(queue') \in Int
    BY <1>c, <2>1, <2>2
  <2> QED
    BY <1>c, <2>1, <2>3, ServerAssumption DEF Limited
<1>4. ASSUME NEW w \in Worker, RetiresOne(w)
      PROVE  Limited'
  <2>1. active' = active \ {worker[w].conn} /\ queue' = queue
    BY <1>4 DEF RetiresOne
  <2> DEFINE fewer == active \ {worker[w].conn}
  <2>2. Cardinality(fewer) <= Cardinality(active) /\ Cardinality(fewer) \in Nat
    <3>1. IsFiniteSet(active) /\ fewer \in SUBSET active
      BY DEF Types
    <3> QED
      BY <3>1, FS_Subset, FS_CardinalityType
  <2> QED
    BY <1>c, <2>1, <2>2, ServerAssumption DEF Limited
<1>5. ASSUME NEW t \in Finisher, ClearsQueue(t)
      PROVE  Limited'
  <2>1. active' = active /\ Len(queue') = 0
    BY <1>5 DEF ClearsQueue
  <2> QED
    BY <1>c, <2>1, ServerAssumption DEF Limited
<1>6. CASE Environment
  <2>1. UNCHANGED pool
    BY <1>6 DEF Environment, Connect, HangUp, Send, RequestStop, Shutdown
  <2> QED
    BY <1>1, <2>1
<1>7. CASE RunStep
  <2>1. RunQueues \/ UNCHANGED pool
    BY <1>7 DEF RunStep, RunChecks, RunAccepts, RunAcceptsNone, RunRejects, RunNotifies,
                RunReturns
  <2> QED
    BY <1>1, <1>2, <2>1
<1>8. ASSUME NEW w \in Worker, WorkerStep(w)
      PROVE  Limited'
  <2>1. TakesOne(w) \/ RetiresOne(w) \/ UNCHANGED pool
    BY <1>8, WorkerActs DEF WorksOn, ClosesOne
  <2> QED
    BY <1>1, <1>3, <1>4, <2>1
<1>9. ASSUME NEW t \in Finisher, FinishStep(t)
      PROVE  Limited'
  <2>1. ClearsQueue(t) \/ UNCHANGED pool
    BY <1>9 DEF FinishStep, Enters, LooksAt, ClosesTarget, NotifiesAll, Joins
  <2> QED
    BY <1>1, <1>5, <2>1
<1> QED
  BY <1>1, <1>6, <1>7, <1>8, <1>9 DEF Next, vars

-----------------------------------------------------------------------------
(* Who is in finish, and how far it is *)

Inside(t) == finisher[t] \in {"close", "notify", "join"}

(* At most one thread is inside; finish is done when one returned, and     *)
(* then the listener is closed and every worker has ended.                 *)
FinishInv ==
    /\ \A t, u \in Finisher : Inside(t) /\ Inside(u) => t = u
    /\ finished => \E t \in Finisher : Inside(t) \/ finisher[t] = "returned"
    /\ \A t \in Finisher : Inside(t) \/ finisher[t] = "returned" => finished
    /\ \A t \in Finisher : finisher[t] = "returned" =>
          /\ \A u \in Finisher : ~ Inside(u)
          /\ ~ listening
          /\ \A w \in Worker : worker[w].at = "ended"

(* The accept loop calls finish when it has left its loop, and returns     *)
(* after it.                                                               *)
RunInv ==
    /\ run.at \notin {"finish", "returned"} => finisher["run"] = "away"
    /\ run.at = "returned" => finisher["run"] = "returned"

StopInv == FinishInv /\ RunInv

LEMMA InitStop == Init => StopInv
BY DEF Init, StopInv, FinishInv, RunInv, Inside, Finisher

(* A worker that has ended does nothing more.                              *)
LEMMA EndedStays ==
    ASSUME Types, ConnInv, [Next]_vars, NEW w \in Worker, worker[w].at = "ended"
    PROVE  worker'[w].at = "ended"
<1>0. CASE UNCHANGED worker
  BY <1>0
<1>1. CASE RunNotifies
  BY <1>1, RunWakes DEF WakesOne, Alone
<1>2. ASSUME NEW v \in Worker, WorkerStep(v)
      PROVE  worker'[w].at = "ended"
  BY <1>2, WorkerActs DEF TakesOne, WorksOn, ClosesOne, RetiresOne, Alone
<1>3. ASSUME NEW t \in Finisher, NotifiesAll(t)
      PROVE  worker'[w].at = "ended"
  BY <1>3, FinishWakes
<1>4. CASE Environment
  BY <1>0, <1>4 DEF Environment, Connect, HangUp, Send, RequestStop, Shutdown
<1>5. CASE RunStep
  BY <1>0, <1>1, <1>5 DEF RunStep, RunChecks, RunAccepts, RunAcceptsNone, RunRejects,
                          RunQueues, RunReturns
<1>6. ASSUME NEW t \in Finisher, FinishStep(t)
      PROVE  worker'[w].at = "ended"
  BY <1>0, <1>3, <1>6 DEF FinishStep, Enters, LooksAt, ClosesTarget, ClearsQueue, Joins
<1> QED
  BY <1>0, <1>2, <1>4, <1>5, <1>6 DEF Next, vars

(* A step that moves no thread within finish keeps the invariant.          *)
LEMMA OutsideKeeps ==
    ASSUME Types, ConnInv, FinishInv, [Next]_vars, UNCHANGED <<finished, listening>>,
           \A t \in Finisher : \/ finisher'[t] = finisher[t]
                               \/ Inside(t) /\ Inside(t)'
                               \/ /\ finisher[t] = "away"
                                  /\ finisher'[t] = "enter"
    PROVE  FinishInv'
<1>1. \A t \in Finisher : /\ Inside(t)' <=> Inside(t)
                          /\ finisher'[t] = "returned" <=> finisher[t] = "returned"
  BY DEF Inside
<1>2. (\A w \in Worker : worker[w].at = "ended") => \A w \in Worker : worker'[w].at = "ended"
  BY EndedStays
<1> QED
  BY <1>1, <1>2 DEF FinishInv

LEMMA StepStop ==
    ASSUME Types, ConnInv, StopInv, [Next]_vars
    PROVE  StopInv'
<1> USE DEF clients, conns, pool, stop
<1>t. finisher \in [Finisher -> {"away", "enter", "close", "notify", "join", "returned"}]
  BY DEF Types
<1>r. "run" \in Finisher /\ "shutdown" \in Finisher
  BY DEF Finisher
<1>0. CASE UNCHANGED <<run, stop>>
  BY <1>0, OutsideKeeps DEF StopInv, RunInv
<1>1. CASE Environment
  <2>1. CASE Shutdown
    <3>1. FinishInv'
      BY <1>t, <2>1, OutsideKeeps DEF Shutdown, StopInv
    <3>2. RunInv'
      BY <1>t, <1>r, <2>1 DEF Shutdown, StopInv, RunInv
    <3> QED
      BY <3>1, <3>2 DEF StopInv
  <2>2. CASE ~ Shutdown
    BY <1>0, <1>1, <2>2 DEF Environment, Connect, HangUp, Send, RequestStop
  <2> QED
    BY <2>1, <2>2
<1>2. CASE RunStep
  <2>1. CASE RunChecks
    <3>1. finisher["run"] = "away"
      BY <2>1 DEF RunChecks, StopInv, RunInv
    <3>2. FinishInv'
      BY <1>t, <2>1, <3>1, OutsideKeeps DEF RunChecks, StopInv
    <3>3. RunInv'
      BY <1>t, <1>r, <2>1, <3>1 DEF RunChecks, RunInv, Types
    <3> QED
      BY <3>2, <3>3 DEF StopInv
  <2>2. CASE ~ RunChecks
    <3>1. UNCHANGED stop
      BY <1>2, <2>2 DEF RunStep, RunAccepts, RunAcceptsNone, RunRejects, RunQueues,
                        RunNotifies, RunReturns
    <3>2. FinishInv'
      BY <3>1, OutsideKeeps DEF StopInv
    <3>3. /\ run.at \in {"accept", "admit", "notify", "finish"}
          /\ \/ run'.at \in {"admit", "check", "notify"} /\ run.at # "finish"
             \/ run'.at = "returned" /\ finisher["run"] = "returned"
      BY <1>2, <2>2 DEF RunStep, RunAccepts, RunAcceptsNone, RunRejects, RunQueues,
                        RunNotifies, RunReturns, Types
    <3>4. RunInv'
      BY <3>1, <3>3 DEF StopInv, RunInv
    <3> QED
      BY <3>2, <3>4 DEF StopInv
  <2> QED
    BY <2>1, <2>2
<1>3. ASSUME NEW w \in Worker, WorkerStep(w)
      PROVE  StopInv'
  <2>1. UNCHANGED <<run, stop>>
    BY <1>3, WorkerActs DEF TakesOne, WorksOn, ClosesOne, RetiresOne
  <2> QED
    BY <1>0, <2>1
<1>4. ASSUME NEW t \in Finisher, FinishStep(t)
      PROVE  StopInv'
  <2>1. run' = run /\ finisher[t] \notin {"away", "returned"}
    BY <1>4 DEF FinishStep, Enters, LooksAt, ClosesTarget, ClearsQueue, NotifiesAll, Joins
  <2>2. \A u \in Finisher \ {t} : finisher'[u] = finisher[u]
    BY <1>4, <1>t DEF FinishStep, Enters, LooksAt, ClosesTarget, ClearsQueue, NotifiesAll,
                      Joins
  <2>3. RunInv'
    BY <1>r, <2>1, <2>2 DEF StopInv, RunInv
  <2>4. CASE Enters(t)
    <3>1. CASE finished
      <4>1. PICK u \in Finisher : finisher[u] = "returned"
        BY <2>4, <3>1 DEF Enters, StopInv, FinishInv, Inside
      <4>2. /\ ~ listening
            /\ \A w \in Worker : worker[w].at = "ended"
            /\ \A v \in Finisher : ~ Inside(v)
        BY <4>1 DEF StopInv, FinishInv
      <4>3. /\ finisher'[t] = "returned"
            /\ finished'
            /\ UNCHANGED <<worker, listening>>
        BY <1>t, <2>4, <3>1 DEF Enters
      <4>4. \A v \in Finisher : ~ Inside(v)'
        BY <2>2, <4>2, <4>3 DEF Inside
      <4> QED
        BY <2>3, <4>2, <4>3, <4>4 DEF StopInv, FinishInv
    <3>2. CASE ~ finished
      <4>1. \A u \in Finisher : finisher[u] # "returned" /\ ~ Inside(u)
        BY <3>2 DEF StopInv, FinishInv
      <4>2. finisher'[t] = "close" /\ finished'
        BY <1>t, <2>4, <3>2 DEF Enters
      <4>3. /\ Inside(t)'
            /\ \A u \in Finisher : finisher'[u] # "returned"
            /\ \A u \in Finisher \ {t} : ~ Inside(u)'
        BY <2>2, <4>1, <4>2 DEF Inside
      <4> QED
        BY <2>3, <4>2, <4>3 DEF StopInv, FinishInv
    <3> QED
      BY <3>1, <3>2
  <2>5. CASE Joins(t)
    <3>1. /\ Inside(t)
          /\ finisher'[t] = "returned"
          /\ ~ listening'
          /\ finished' = finished
          /\ worker' = worker
          /\ \A w \in Worker : worker[w].at = "ended"
      BY <1>t, <2>5 DEF Joins, Inside
    <3>2. \A u \in Finisher \ {t} : ~ Inside(u)
      BY <3>1 DEF StopInv, FinishInv
    <3>3. \A u \in Finisher : ~ Inside(u)'
      BY <2>2, <3>1, <3>2 DEF Inside
    <3> QED
      BY <2>3, <3>1, <3>3 DEF StopInv, FinishInv
  <2>6. CASE ~ Enters(t) /\ ~ Joins(t)
    <3>1. UNCHANGED <<finished, listening>>
      BY <1>4, <2>6 DEF FinishStep, LooksAt, ClosesTarget, ClearsQueue, NotifiesAll
    <3>2. finisher' = finisher \/ (Inside(t) /\ Inside(t)')
      BY <1>4, <1>t, <2>6 DEF FinishStep, LooksAt, ClosesTarget, ClearsQueue, NotifiesAll,
                              Inside
    <3>3. FinishInv'
      BY <2>2, <3>1, <3>2, OutsideKeeps DEF StopInv
    <3> QED
      BY <2>3, <3>3 DEF StopInv
  <2> QED
    BY <2>4, <2>5, <2>6
<1> QED
  BY <1>0, <1>1, <1>2, <1>3, <1>4 DEF Next, vars

-----------------------------------------------------------------------------
(* NoLostWakeup: workers that are awake, and a notification under way      *)

Awake == {w \in Worker : worker[w].at = "awake"}

Due == Cardinality(Awake) + IF run.at = "notify" THEN 1 ELSE 0

LEMMA AwakeFinite == IsFiniteSet(Awake) /\ Cardinality(Awake) \in Nat
<1>1. Awake \in SUBSET Worker
  BY DEF Awake
<1> QED
  BY <1>1, FS_Subset, FS_CardinalityType, ServerAssumption

LEMMA InitWakeup == Init => NoLostWakeup
BY DEF Init, NoLostWakeup, Asleep

(* One worker more, or less, that is awake.                                *)
LEMMA AwakeMore ==
    ASSUME NEW w \in Worker, w \notin Awake, Awake' = Awake \cup {w}
    PROVE  Cardinality(Awake') = Cardinality(Awake) + 1
BY AwakeFinite, FS_AddElement

LEMMA AwakeLess ==
    ASSUME NEW w \in Awake, Awake' = Awake \ {w}
    PROVE  Cardinality(Awake') = Cardinality(Awake) - 1
BY AwakeFinite, FS_RemoveElement

LEMMA WakeupKept ==
    ASSUME NoLostWakeup, UNCHANGED <<queue, Awake, Asleep>>, MutexFree' => MutexFree,
           run'.at = "notify" <=> run.at = "notify"
    PROVE  NoLostWakeup'
BY DEF NoLostWakeup, Awake

LEMMA StepWakeup ==
    ASSUME Types, ConnInv, StopInv, NoLostWakeup, [Next]_vars
    PROVE  NoLostWakeup'
<1> USE DEF clients, conns, pool, stop
<1>t. finisher \in [Finisher -> {"away", "enter", "close", "notify", "join", "returned"}]
  BY DEF Types
<1>c. Len(queue) \in Nat /\ Cardinality(Awake) \in Nat
  BY AwakeFinite DEF Types
<1>n. NoLostWakeup <=> (Asleep # {} /\ MutexFree => Len(queue) <= Due)
  BY DEF NoLostWakeup, Due, Awake
<1>p. NoLostWakeup' <=> (Asleep' # {} /\ MutexFree' => Len(queue') <= Due')
  BY DEF NoLostWakeup, Due, Awake
<1>0. CASE UNCHANGED <<queue, worker, run, finisher>>
  BY <1>0, WakeupKept DEF Awake, Asleep, MutexFree
<1>1. CASE Environment
  <2>1. CASE Shutdown
    <3>1. MutexFree' => MutexFree
      BY <1>t, <2>1 DEF Shutdown, MutexFree
    <3> QED
      BY <2>1, <3>1, WakeupKept DEF Shutdown, Awake, Asleep
  <2>2. CASE ~ Shutdown
    BY <1>0, <1>1, <2>2 DEF Environment, Connect, HangUp, Send, RequestStop
  <2> QED
    BY <2>1, <2>2
<1>2. CASE RunStep
  <2>1. CASE RunChecks
    <3>1. finisher["run"] = "away"
      BY <2>1 DEF RunChecks, StopInv, RunInv
    <3>2. MutexFree' => MutexFree
      BY <1>t, <2>1, <3>1 DEF RunChecks, MutexFree
    <3>3. run.at # "notify" /\ run'.at # "notify"
      BY <2>1 DEF RunChecks, Types
    <3> QED
      BY <2>1, <3>2, <3>3, WakeupKept DEF RunChecks, Awake, Asleep
  <2>2. CASE RunRejects \/ RunAcceptsNone \/ RunReturns \/ \E c \in Conn : RunAccepts(c)
    <3>1. run.at # "notify" /\ run'.at # "notify" /\ UNCHANGED <<queue, worker, finisher>>
      BY <2>2 DEF RunRejects, RunAcceptsNone, RunReturns, RunAccepts, Types
    <3> QED
      BY <3>1, WakeupKept DEF Awake, Asleep, MutexFree
  <2>3. CASE RunQueues
    <3>1. run.at # "notify" /\ run'.at = "notify" /\ UNCHANGED <<worker, finisher>>
      BY <2>3 DEF RunQueues
    <3>2. Len(queue') = Len(queue) + 1
      BY <2>3 DEF RunQueues, Types
    <3>3. Awake' = Awake /\ Asleep' = Asleep /\ MutexFree' = MutexFree
      BY <3>1 DEF Awake, Asleep, MutexFree
    <3>4. Due' = Due + 1
      BY <1>c, <3>1, <3>3 DEF Due
    <3>5. Due \in Nat
      BY <1>c DEF Due
    <3> QED
      BY <1>c, <1>n, <1>p, <3>2, <3>3, <3>4, <3>5
  <2>4. CASE RunNotifies
    <3>1. run.at = "notify" /\ run'.at # "notify" /\ UNCHANGED <<queue, finisher>>
      BY <2>4 DEF RunNotifies, Types
    <3>2. CASE Asleep = {} /\ UNCHANGED worker
      BY <1>p, <3>2 DEF Asleep
    <3>3. ASSUME NEW w \in Worker, WakesOne(w)
          PROVE  NoLostWakeup'
      <4>1. w \notin Awake /\ Awake' = Awake \cup {w}
        BY <3>3 DEF WakesOne, Alone, Awake
      <4>2. Asleep # {}
        BY <3>3 DEF WakesOne, Asleep
      <4>c. Cardinality(Awake') = Cardinality(Awake) + 1
        BY <4>1, AwakeMore
      <4>3. Due' = Due
        BY <1>c, <3>1, <4>c DEF Due
      <4> QED
        BY <1>n, <1>p, <3>1, <4>2, <4>3 DEF MutexFree
    <3> QED
      BY <2>4, <3>2, <3>3, RunWakes
  <2> QED
    BY <1>2, <2>1, <2>2, <2>3, <2>4 DEF RunStep
<1>3. ASSUME NEW w \in Worker, WorkerStep(w)
      PROVE  NoLostWakeup'
  <2>1. CASE TakesOne(w)
    <3>1. UNCHANGED <<run, finisher>> /\ MutexFree
      BY <2>1 DEF TakesOne
    <3>2. w \in Awake /\ Awake' = Awake \ {w}
      BY <2>1 DEF TakesOne, Alone, Awake
    <3>3. Due' = Due - 1 /\ Due \in Nat /\ Due' \in Nat
      <4>1. Cardinality(Awake') = Cardinality(Awake) - 1
        BY <3>2, AwakeLess
      <4>2. Cardinality(Awake') \in Nat
        BY <3>2, AwakeFinite, FS_RemoveElement, FS_CardinalityType
      <4> QED
        BY <1>c, <3>1, <4>1, <4>2 DEF Due
    <3>4. CASE queue # <<>>
      <4>1. queue' = Tail(queue) /\ Asleep' = Asleep
        BY <2>1, <3>4 DEF TakesOne, Alone, Asleep
      <4>2. Len(queue') = Len(queue) - 1
        BY <3>4, <4>1, HeadTailProperties DEF Types
      <4> QED
        BY <1>c, <1>n, <1>p, <3>1, <3>3, <4>1, <4>2
    <3>5. CASE queue = <<>>
      BY <1>p, <2>1, <3>3, <3>5 DEF TakesOne
    <3> QED
      BY <3>4, <3>5
  <2>2. CASE WorksOn(w) \/ ClosesOne(w)
    BY <2>2, WakeupKept DEF WorksOn, ClosesOne, Alone, Awake, Asleep, MutexFree
  <2>3. CASE RetiresOne(w)
    <3>1. UNCHANGED <<queue, run, finisher>> /\ MutexFree
      BY <2>3 DEF RetiresOne
    <3>2. w \notin Awake /\ Awake' = Awake \cup {w} /\ Asleep' = Asleep
      BY <2>3 DEF RetiresOne, Alone, Awake, Asleep
    <3>c. Cardinality(Awake') = Cardinality(Awake) + 1
      BY <3>2, AwakeMore
    <3>3. Due' = Due + 1 /\ Due \in Nat
      BY <1>c, <3>1, <3>c DEF Due
    <3> QED
      BY <1>c, <1>n, <1>p, <3>1, <3>2, <3>3
  <2> QED
    BY <1>3, <2>1, <2>2, <2>3, WorkerActs
<1>4. ASSUME NEW t \in Finisher, FinishStep(t)
      PROVE  NoLostWakeup'
  <2>1. CASE Enters(t) \/ (\E c \in Conn : LooksAt(t, c)) \/ ClosesTarget(t)
    <3>1. MutexFree' => MutexFree
      BY <1>t, <2>1 DEF Enters, LooksAt, ClosesTarget, MutexFree
    <3> QED
      BY <2>1, <3>1, WakeupKept DEF Enters, LooksAt, ClosesTarget, Awake, Asleep
  <2>2. CASE ClearsQueue(t)
    <3>1. Len(queue') = 0 /\ UNCHANGED <<run, worker>>
      BY <2>2 DEF ClearsQueue
    <3>2. Due' = Due /\ Due \in Nat
      BY <1>c, <3>1 DEF Due, Awake
    <3> QED
      BY <1>p, <3>1, <3>2
  <2>3. CASE NotifiesAll(t)
    <3>1. Asleep' = {}
      BY <2>3, FinishWakes DEF Asleep
    <3> QED
      BY <1>p, <3>1
  <2>4. CASE Joins(t)
    <3>1. Asleep' = {}
      BY <2>4 DEF Joins, Asleep
    <3> QED
      BY <1>p, <3>1
  <2> QED
    BY <1>4, <2>1, <2>2, <2>3, <2>4 DEF FinishStep
<1> QED
  BY <1>0, <1>1, <1>2, <1>3, <1>4 DEF Next, vars

-----------------------------------------------------------------------------
(* What finish leaves open *)

Queued(c) == \E i \in DOMAIN queue : queue[i] = c

Held(c) == c = run.conn \/ \E w \in Worker : Busy(w) /\ worker[w].conn = c

(* While finish closes sockets, an open one that it has not come to yet is *)
(* on its list; once it is past them, an open one was not in active_ when  *)
(* the list was made: the accept loop had it, and may have queued it.      *)
LeftInv ==
    /\ \A t \in Finisher : finisher[t] = "close" =>
          \A c \in active : socket[c] = "open" => c \in todo \cup {target}
    /\ \A t \in Finisher : finisher[t] \in {"notify", "join", "returned"} =>
          \A c \in Conn : socket[c] = "open" => Held(c) \/ Queued(c)

LEMMA InitLeft == Init => LeftInv
BY DEF Init, LeftInv, Finisher

(* A step that opens no socket, and lets go of no open one.                *)
LEMMA LeftKept ==
    ASSUME Types, LeftInv, UNCHANGED finisher, active' \subseteq active,
           UNCHANGED <<todo, target>>,
           \A c \in Conn : socket'[c] = "open" => socket[c] = "open",
           \A c \in Conn : (Held(c) \/ Queued(c)) /\ socket'[c] = "open"
                              => (Held(c) \/ Queued(c))'
    PROVE  LeftInv'
BY DEF LeftInv, Types

LEMMA StepLeft ==
    ASSUME Types, ConnInv, Tracked, StopInv, LeftInv, [Next]_vars
    PROVE  LeftInv'
<1> USE DEF clients, conns, pool, stop
<1>t. finisher \in [Finisher -> {"away", "enter", "close", "notify", "join", "returned"}]
  BY DEF Types
<1>r. "run" \in Finisher /\ "shutdown" \in Finisher
  BY DEF Finisher
<1>0. CASE UNCHANGED <<socket, queue, active, run, worker, finisher, todo, target>>
  BY <1>0, LeftKept DEF Held, Queued, Busy
<1>1. CASE Environment
  <2>1. CASE Shutdown
    <3>1. \A t \in Finisher : finisher'[t] \in {finisher[t], "enter"}
      BY <1>t, <2>1 DEF Shutdown
    <3> QED
      BY <2>1, <3>1 DEF Shutdown, LeftInv, Held, Queued, Busy
  <2>2. CASE ~ Shutdown
    BY <1>0, <1>1, <2>2 DEF Environment, Connect, HangUp, Send, RequestStop
  <2> QED
    BY <2>1, <2>2
<1>2. CASE RunStep
  <2>1. CASE RunChecks
    <3>1. \A t \in Finisher : finisher'[t] \in {finisher[t], "enter"}
      BY <1>t, <2>1 DEF RunChecks
    <3>2. run'.conn = run.conn
      BY <2>1 DEF RunChecks, Types
    <3> QED
      BY <2>1, <3>1, <3>2 DEF RunChecks, LeftInv, Held, Queued, Busy
  <2>2. CASE RunAcceptsNone \/ RunReturns
    <3>1. run'.conn = run.conn
      BY <2>2 DEF RunAcceptsNone, RunReturns, Types
    <3> QED
      BY <2>2, <3>1, LeftKept DEF RunAcceptsNone, RunReturns, Held, Queued, Busy
  <2>3. ASSUME NEW c \in Conn, RunAccepts(c)
        PROVE  LeftInv'
    <3>1. /\ socket[c] = "none"
          /\ run.conn = None
          /\ run'.conn = c
          /\ \A d \in Conn \ {c} : socket'[d] = socket[d]
          /\ UNCHANGED <<pool, worker, stop>>
      BY <2>3 DEF RunAccepts, Waiting, Types, ConnInv, HoldInv
    <3>2. c \notin active
      BY <3>1 DEF ConnInv, SocketInv
    <3>3. \A d \in Conn \ {c} : Held(d) \/ Queued(d) => (Held(d) \/ Queued(d))'
      BY <3>1, ServerAssumption DEF Held, Queued, Busy
    <3>4. Held(c)'
      BY <3>1 DEF Held
    <3> QED
      BY <3>1, <3>2, <3>3, <3>4 DEF LeftInv, Types
  <2>4. CASE RunRejects
    <3>1. \A d \in Conn : socket'[d] = "open" => socket[d] = "open" /\ d # run.conn
      BY <2>4 DEF RunRejects, Types
    <3>2. UNCHANGED <<pool, worker, stop>>
      BY <2>4 DEF RunRejects
    <3> QED
      BY <3>1, <3>2, LeftKept DEF Held, Queued, Busy
  <2>5. CASE RunQueues
    <3>1. \A t \in Finisher : finisher[t] # "close"
      BY <2>5 DEF RunQueues, MutexFree
    <3>2. UNCHANGED <<socket, worker, stop>>
      BY <2>5 DEF RunQueues
    <3>3. \A c \in Conn : c = run.conn => Queued(c)'
      <4>1. /\ queue' = Append(queue, run.conn)
            /\ run.conn \in Conn
        BY <2>5 DEF RunQueues, Types, ConnInv, HoldInv
      <4>2. Len(queue) + 1 \in DOMAIN queue' /\ queue'[Len(queue) + 1] = run.conn
        BY <4>1 DEF Types
      <4> QED
        BY <4>2 DEF Queued
    <3>4. \A c \in Conn : Queued(c) => Queued(c)'
      <4>1. /\ queue' = Append(queue, run.conn)
            /\ run.conn \in Conn
        BY <2>5 DEF RunQueues, Types, ConnInv, HoldInv
      <4>2. \A i \in DOMAIN queue : i \in DOMAIN queue' /\ queue'[i] = queue[i]
        BY <4>1 DEF Types
      <4> QED
        BY <4>2 DEF Queued
    <3>5. \A c \in Conn : Held(c) => c = run.conn \/ Held(c)'
      BY <3>2 DEF Held, Busy
    <3> QED
      BY <3>1, <3>2, <3>3, <3>4, <3>5 DEF LeftInv
  <2>6. CASE RunNotifies
    <3>1. \A w \in Worker : Busy(w) => worker'[w] = worker[w]
      BY <2>6, RunWakes DEF WakesOne, Alone, Busy
    <3>2. run'.conn = run.conn
      BY <2>6 DEF RunNotifies, Types
    <3>3. UNCHANGED <<conns, pool, stop>>
      BY <2>6 DEF RunNotifies
    <3> QED
      BY <3>1, <3>2, <3>3, LeftKept DEF Held, Queued, Busy
  <2> QED
    BY <1>2, <2>1, <2>2, <2>3, <2>4, <2>5, <2>6 DEF RunStep
<1>3. ASSUME NEW w \in Worker, WorkerStep(w)
      PROVE  LeftInv'
  <2>1. CASE TakesOne(w)
    <3>1. UNCHANGED <<conns, active, run, stop>> /\ ~ Busy(w)
      BY <2>1 DEF TakesOne, Busy
    <3>2. \A c \in Conn : Held(c) => Held(c)'
      BY <2>1, <3>1 DEF TakesOne, Alone, Held, Busy
    <3>3. CASE queue = <<>>
      <4>1. queue' = queue
        BY <2>1, <3>3 DEF TakesOne
      <4> QED
        BY <3>1, <3>2, <4>1, LeftKept DEF Queued
    <3>4. CASE queue # <<>>
      <4>1. queue' = Tail(queue) /\ \A c \in Conn : c = Head(queue) => Held(c)'
        BY <2>1, <3>4 DEF TakesOne, Held, Busy
      <4>2. ASSUME NEW i \in DOMAIN queue
            PROVE  \/ queue[i] = Head(queue)
                   \/ i - 1 \in DOMAIN Tail(queue) /\ Tail(queue)[i - 1] = queue[i]
        <5>1. /\ queue \in Seq(Conn)
              /\ i \in 1 .. Len(queue)
              /\ Len(queue) \in Nat
          BY DEF Types
        <5>2. /\ Tail(queue) \in Seq(Conn)
              /\ Len(Tail(queue)) = Len(queue) - 1
          BY <3>4, <5>1, HeadTailProperties
        <5>3. CASE i = 1
          BY <5>3
        <5>4. CASE i # 1
          <6>1. i - 1 \in 1 .. Len(Tail(queue))
            BY <5>1, <5>2, <5>4
          <6>2. Tail(queue)[i - 1] = queue[(i - 1) + 1]
            BY <3>4, <5>1, <6>1, HeadTailProperties
          <6> QED
            BY <5>1, <5>2, <6>1, <6>2
        <5> QED
          BY <5>3, <5>4
      <4>3. \A c \in Conn : Queued(c) => c = Head(queue) \/ Queued(c)'
        BY <4>1, <4>2 DEF Queued
      <4> QED
        BY <3>1, <3>2, <4>1, <4>3, LeftKept
    <3> QED
      BY <3>3, <3>4
  <2>2. CASE WorksOn(w)
    <3>1. \A c \in Conn : Held(c) => Held(c)'
      BY <2>2 DEF WorksOn, Alone, Held, Busy
    <3> QED
      BY <2>2, <3>1, LeftKept DEF WorksOn, Queued
  <2>3. CASE ClosesOne(w)
    <3>1. \A c \in Conn : Held(c) => Held(c)'
      BY <2>3 DEF ClosesOne, Alone, Held, Busy
    <3>2. \A c \in Conn : socket'[c] = "open" => socket[c] = "open"
      BY <2>3 DEF ClosesOne, Types
    <3> QED
      BY <2>3, <3>1, <3>2, LeftKept DEF ClosesOne, Queued
  <2>4. CASE RetiresOne(w)
    <3>1. socket[worker[w].conn] = "closed"
      BY <2>4 DEF RetiresOne, ConnInv, HoldInv
    <3>2. \A c \in Conn : Held(c) /\ c # worker[w].conn => Held(c)'
      BY <2>4 DEF RetiresOne, Alone, Held, Busy
    <3> QED
      BY <2>4, <3>1, <3>2, LeftKept DEF RetiresOne, Queued
  <2> QED
    BY <1>3, <2>1, <2>2, <2>3, <2>4, WorkerActs
<1>4. ASSUME NEW t \in Finisher, FinishStep(t)
      PROVE  LeftInv'
  <2>0. \A u \in Finisher \ {t} : finisher'[u] = finisher[u]
    BY <1>4, <1>t DEF FinishStep, Enters, LooksAt, ClosesTarget, ClearsQueue, NotifiesAll,
                      Joins
  <2>1. CASE Enters(t)
    <3>1. \A u \in Finisher : ~ Inside(u)
      BY <2>1 DEF Enters, Inside
    <3>2. UNCHANGED <<conns, pool, run, worker>>
      BY <2>1 DEF Enters
    <3>3. \A c \in Conn : Held(c) \/ Queued(c) => (Held(c) \/ Queued(c))'
      BY <3>2 DEF Held, Queued, Busy
    <3>4. CASE finished
      <4>1. PICK u \in Finisher : finisher[u] = "returned"
        BY <3>1, <3>4 DEF StopInv, FinishInv
      <4>2. \A c \in Conn : socket[c] = "open" => Held(c) \/ Queued(c)
        BY <4>1 DEF LeftInv
      <4>3. \A v \in Finisher : finisher'[v] # "close"
        BY <1>t, <2>0, <2>1, <3>1, <3>4 DEF Enters, Inside
      <4> QED
        BY <3>2, <3>3, <4>2, <4>3 DEF LeftInv
    <3>5. CASE ~ finished
      <4>1. todo' = active /\ finisher'[t] = "close"
        BY <1>t, <2>1, <3>5 DEF Enters
      <4>2. \A u \in Finisher : finisher'[u] \notin {"notify", "join", "returned"}
        BY <2>0, <3>1, <3>5, <4>1 DEF StopInv, FinishInv, Inside
      <4> QED
        BY <3>2, <4>1, <4>2 DEF LeftInv
    <3> QED
      BY <3>4, <3>5
  <2>2. CASE Inside(t)
    <3>1. \A u \in Finisher \ {t} : finisher'[u] \notin {"close", "notify", "join", "returned"}
      BY <2>0, <2>2 DEF StopInv, FinishInv, Inside
    <3>2. ASSUME NEW c \in Conn, LooksAt(t, c)
          PROVE  LeftInv'
      <4>1. /\ finisher'[t] = "close"
            /\ finisher[t] = "close"
            /\ \A d \in active : socket[d] = "open" => d \in todo \cup {target}
            /\ UNCHANGED <<socket, active>>
        BY <3>2 DEF LooksAt, LeftInv
      <4>2. todo' = todo \ {c} /\ target = None /\ (target' = c \/ socket[c] # "open")
        BY <3>2 DEF LooksAt, ConnInv, SocketInv
      <4>3. \A d \in active : socket[d] = "open" => d \in todo' \cup {target'}
        BY <4>1, <4>2, ServerAssumption DEF Types
      <4> QED
        BY <3>1, <4>1, <4>3 DEF LeftInv
    <3>3. CASE ClosesTarget(t)
      <4>1. /\ finisher'[t] = "close"
            /\ \A d \in active : socket[d] = "open" => d \in todo \cup {target}
            /\ UNCHANGED <<active, todo>>
        BY <3>3 DEF ClosesTarget, LeftInv
      <4>2. \A d \in Conn : socket'[d] = "open" => socket[d] = "open" /\ d # target
        BY <3>3 DEF ClosesTarget, Types
      <4>3. \A d \in active : socket'[d] = "open" => d \in todo
        BY <4>1, <4>2 DEF Types
      <4> QED
        BY <3>1, <4>1, <4>3 DEF LeftInv
    <3>4. CASE ClearsQueue(t)
      <4>1. /\ \A d \in active : socket[d] = "open" => d \in todo \cup {target}
            /\ todo = {}
            /\ target = None
            /\ UNCHANGED <<socket, run, worker>>
        BY <3>4 DEF ClearsQueue, LeftInv
      <4>2. \A d \in Conn : socket[d] = "open" => d = run.conn
        BY <4>1, ServerAssumption DEF Tracked
      <4>3. \A d \in Conn : socket'[d] = "open" => Held(d)'
        BY <4>1, <4>2 DEF Held
      <4>4. finisher'[t] = "notify"
        BY <1>t, <3>4 DEF ClearsQueue
      <4> QED
        BY <3>1, <4>3, <4>4 DEF LeftInv
    <3>5. CASE NotifiesAll(t) \/ Joins(t)
      <4>1. /\ \A d \in Conn : socket[d] = "open" => Held(d) \/ Queued(d)
            /\ finisher'[t] # "close"
            /\ UNCHANGED <<socket, queue, run>>
        BY <1>t, <3>5 DEF NotifiesAll, Joins, LeftInv
      <4>2. \A w \in Worker : Busy(w) => worker'[w] = worker[w]
        BY <3>5, FinishWakes DEF Joins, Busy
      <4>3. \A d \in Conn : Held(d) \/ Queued(d) => (Held(d) \/ Queued(d))'
        BY <4>1, <4>2 DEF Held, Queued, Busy
      <4> QED
        BY <3>1, <4>1, <4>3 DEF LeftInv
    <3>6. ~ Enters(t)
      BY <2>2 DEF Enters, Inside
    <3> QED
      BY <1>4, <3>2, <3>3, <3>4, <3>5, <3>6 DEF FinishStep
  <2> QED
    BY <1>4, <2>1, <2>2 DEF FinishStep, LooksAt, ClosesTarget, ClearsQueue, NotifiesAll,
                            Joins, Inside
<1> QED
  BY <1>0, <1>1, <1>2, <1>3, <1>4 DEF Next, vars

-----------------------------------------------------------------------------
(* The theorems.  IInv is inductive.                                       *)

IInv ==
    /\ Types
    /\ ConnInv
    /\ Tracked
    /\ Limited
    /\ StopInv
    /\ NoLostWakeup
    /\ LeftInv

(* Every step of the server keeps what the theorems rest on.               *)
THEOREM IInvHolds == Spec => []IInv
<1>1. Init => IInv
  BY InitTypes, InitConn, InitTracked, InitStop, InitWakeup, InitLeft DEF IInv
<1>2. IInv /\ [Next]_vars => IInv'
  BY StepTypes, StepConn, StepTracked, StepLimited, StepStop, StepWakeup, StepLeft DEF IInv
<1> QED
  BY <1>1, <1>2, PTL DEF Spec

(* finish finds every open client socket, or the accept loop holds it, and *)
(* both lists stay within the server's limits, whatever they are.          *)
THEOREM OpenTrackedHolds == Spec => []OpenTracked
<1>1. IInv => OpenTracked
  BY DEF IInv, Tracked, Limited, OpenTracked
<1> QED
  BY <1>1, IInvHolds, PTL

(* No notification of the condition variable is lost: while workers sleep, *)
(* as many are awake, or about to be woken, as connections are queued.     *)
THEOREM NoLostWakeupHolds == Spec => []NoLostWakeup
<1>1. IInv => NoLostWakeup
  BY DEF IInv
<1> QED
  BY <1>1, IInvHolds, PTL

(* run returns after every worker ended and the listener closed, and only  *)
(* a connection queued too late is open then.                              *)
THEOREM RunReturnsLastHolds == Spec => []RunReturnsLast
<1>1. ASSUME IInv, run.at = "returned"
      PROVE  /\ ~ listening
             /\ \A w \in Worker : worker[w].at = "ended"
             /\ \A c \in Conn : socket[c] = "open" => \E i \in DOMAIN queue : queue[i] = c
  <2>1. "run" \in Finisher /\ finisher["run"] = "returned"
    BY <1>1 DEF IInv, StopInv, RunInv, Finisher
  <2>2. ~ listening /\ \A w \in Worker : worker[w].at = "ended"
    BY <1>1, <2>1 DEF IInv, StopInv, FinishInv
  <2>3. \A c \in Conn : socket[c] = "open" => Held(c) \/ Queued(c)
    BY <1>1, <2>1 DEF IInv, LeftInv
  <2>4. run.conn = None /\ \A w \in Worker : ~ Busy(w)
    BY <1>1, <2>2 DEF IInv, ConnInv, HoldInv, Busy
  <2> QED
    BY <2>2, <2>3, <2>4, ServerAssumption DEF Held, Queued
<1>2. IInv => RunReturnsLast
  BY <1>1 DEF RunReturnsLast
<1> QED
  BY <1>2, IInvHolds, PTL
=============================================================================
