---------------------------- MODULE IntentServer ----------------------------
(***************************************************************************)
(* The server of one runtime (src/net.cpp): the thread that runs the       *)
(* accept loop, a fixed pool of workers that share a queue of connections  *)
(* behind a mutex and a condition variable, and the ways to stop: a        *)
(* shutdown frame, request_stop, and shutdown from another thread.         *)
(*                                                                         *)
(* A critical section of the mutex is one step, but for the one in finish  *)
(* that closes the sockets: a worker may close its own at the same time.   *)
(***************************************************************************)
EXTENDS Naturals, Sequences, FiniteSets

CONSTANTS
    Conn,            \* connections clients may make
    Worker,          \* ServerOptions::worker_threads threads
    None,
    MaxConnections,  \* ServerOptions::max_connections
    MaxPending,      \* ServerOptions::max_pending_connections
    CloseWakes,      \* closing a socket ends a read another thread is in:
                     \* TRUE of Windows sockets, FALSE of POSIX ones
    MaxFrames        \* bound: frames clients send in all

ASSUME ServerAssumption ==
    /\ None \notin Conn
    /\ IsFiniteSet(Worker)
    /\ {MaxConnections, MaxPending, MaxFrames} \subseteq Nat
    /\ CloseWakes \in BOOLEAN

(* A request stands for every frame that is answered and leaves the        *)
(* connection open: served, refused before the hello, or not JSON; a hello *)
(* too.  garbled is a frame that receive_frame refuses.  What a request    *)
(* does to the runtime is IntentRuntime's.                                 *)
MessageType == {"request", "shutdown", "garbled"}

Finisher == {"run", "shutdown"}     \* the threads that call finish

VARIABLES
    peer,      \* the client's end of each connection
    inbox,     \* frames sent and not yet received
    socket,    \* the server's end
    closed,    \* Connection::closed
    queue,     \* queue_
    active,    \* active_
    stopping,  \* stopping_
    run,       \* where the accept loop is, with the connection it holds
    worker,    \* where each worker is, with its connection and frame
    finisher,  \* where each call of finish is
    todo,      \* connections finish has still to look at
    target,    \* the one it found open
    finished,  \* finished_
    listening, \* the listening socket is open
    sent       \* frames sent so far

clients == <<peer, inbox, sent>>
conns   == <<socket, closed>>
pool    == <<queue, active>>
stop    == <<finisher, todo, target, finished, listening>>
vars    == <<clients, conns, pool, stopping, run, worker, stop>>

TypeOK ==
    /\ peer \in [Conn -> {"away", "open", "gone"}]
    /\ inbox \in [Conn -> Seq(MessageType)]
    /\ socket \in [Conn -> {"none", "open", "closed"}]
    /\ closed \in [Conn -> BOOLEAN]
    /\ queue \in Seq(Conn)
    /\ active \subseteq Conn
    /\ stopping \in BOOLEAN
    /\ run \in [at : {"check", "accept", "admit", "notify", "finish", "returned"},
                conn : Conn \cup {None}]
    /\ worker \in [Worker ->
         [at : {"awake", "asleep", "serve", "receive", "reading", "answer", "close",
                "retire", "ended"},
          conn : Conn \cup {None}, frame : MessageType \cup {None}]]
    /\ finisher \in [Finisher -> {"away", "enter", "close", "notify", "join", "returned"}]
    /\ todo \subseteq Conn
    /\ target \in Conn \cup {None}
    /\ finished \in BOOLEAN
    /\ listening \in BOOLEAN
    /\ sent \in 0 .. MaxFrames

(* IntentServer::start, and run called right after it.                     *)
Init ==
    /\ peer = [c \in Conn |-> "away"]
    /\ inbox = [c \in Conn |-> <<>>]
    /\ socket = [c \in Conn |-> "none"]
    /\ closed = [c \in Conn |-> FALSE]
    /\ queue = <<>>
    /\ active = {}
    /\ stopping = FALSE
    /\ run = [at |-> "check", conn |-> None]
    /\ worker = [w \in Worker |-> [at |-> "awake", conn |-> None, frame |-> None]]
    /\ finisher = [t \in Finisher |-> "away"]
    /\ todo = {}
    /\ target = None
    /\ finished = FALSE
    /\ listening = TRUE
    /\ sent = 0

-----------------------------------------------------------------------------
(* Clients and the owner of the server                                     *)

Connect(c) ==
    /\ peer[c] = "away"
    /\ listening
    /\ peer' = [peer EXCEPT ![c] = "open"]
    /\ UNCHANGED <<inbox, sent, conns, pool, stopping, run, worker, stop>>

Send(c, f) ==
    /\ peer[c] = "open"
    /\ sent < MaxFrames
    /\ inbox' = [inbox EXCEPT ![c] = Append(@, f)]
    /\ sent' = sent + 1
    /\ UNCHANGED <<peer, conns, pool, stopping, run, worker, stop>>

HangUp(c) ==
    /\ peer[c] = "open"
    /\ peer' = [peer EXCEPT ![c] = "gone"]
    /\ UNCHANGED <<inbox, sent, conns, pool, stopping, run, worker, stop>>

RequestStop ==
    /\ ~ stopping
    /\ stopping' = TRUE
    /\ UNCHANGED <<clients, conns, pool, run, worker, stop>>

Shutdown ==
    /\ finisher["shutdown"] = "away"
    /\ stopping' = TRUE
    /\ finisher' = [finisher EXCEPT !["shutdown"] = "enter"]
    /\ UNCHANGED <<clients, conns, pool, run, worker, todo, target, finished,
                   listening>>

-----------------------------------------------------------------------------
(* run: the accept loop                                                    *)

MutexFree == \A t \in Finisher : finisher[t] # "close"

Waiting == {c \in Conn : peer[c] # "away" /\ socket[c] = "none"}

RunChecks ==
    /\ run.at = "check"
    /\ run' = [run EXCEPT !.at = IF stopping THEN "finish" ELSE "accept"]
    /\ finisher' = IF stopping THEN [finisher EXCEPT !["run"] = "enter"] ELSE finisher
    /\ UNCHANGED <<clients, conns, pool, stopping, worker, todo, target, finished,
                   listening>>

RunAccepts(c) ==
    /\ run.at = "accept"
    /\ listening
    /\ c \in Waiting
    /\ socket' = [socket EXCEPT ![c] = "open"]
    /\ run' = [at |-> "admit", conn |-> c]
    /\ UNCHANGED <<clients, closed, pool, stopping, worker, stop>>

(* The poll times out, or fails because finish closed the listener.        *)
RunAcceptsNone ==
    /\ run.at = "accept"
    /\ Waiting = {} \/ ~ listening
    /\ run' = [run EXCEPT !.at = "check"]
    /\ UNCHANGED <<clients, conns, pool, stopping, worker, stop>>

AtCapacity == Cardinality(active) >= MaxConnections \/ Len(queue) >= MaxPending

RunRejects ==
    /\ run.at = "admit"
    /\ MutexFree
    /\ AtCapacity
    /\ socket' = [socket EXCEPT ![run.conn] = "closed"]
    /\ closed' = [closed EXCEPT ![run.conn] = TRUE]
    /\ run' = [at |-> "check", conn |-> None]
    /\ UNCHANGED <<clients, pool, stopping, worker, stop>>

(* Mutant: the connection is not entered in active_.                       *)
RunQueuesOnly ==
    /\ run.at = "admit"
    /\ MutexFree
    /\ ~ AtCapacity
    /\ queue' = Append(queue, run.conn)
    /\ run' = [at |-> "notify", conn |-> None]
    /\ UNCHANGED <<clients, conns, active, stopping, worker, stop>>

RunQueues ==
    /\ run.at = "admit"
    /\ MutexFree
    /\ ~ AtCapacity
    /\ active' = active \cup {run.conn}
    /\ queue' = Append(queue, run.conn)
    /\ run' = [at |-> "notify", conn |-> None]
    /\ UNCHANGED <<clients, conns, stopping, worker, stop>>

Asleep == {w \in Worker : worker[w].at = "asleep"}

(* Mutant: a connection is queued without a word to the workers.           *)
RunNotifiesNobody ==
    /\ run.at = "notify"
    /\ run' = [run EXCEPT !.at = "check"]
    /\ UNCHANGED <<clients, conns, pool, stopping, worker, stop>>

RunNotifies ==
    /\ run.at = "notify"
    /\ IF Asleep = {} THEN UNCHANGED worker
       ELSE \E w \in Asleep : worker' = [worker EXCEPT ![w].at = "awake"]
    /\ run' = [run EXCEPT !.at = "check"]
    /\ UNCHANGED <<clients, conns, pool, stopping, stop>>

RunReturns ==
    /\ run.at = "finish"
    /\ finisher["run"] = "returned"
    /\ run' = [run EXCEPT !.at = "returned"]
    /\ UNCHANGED <<clients, conns, pool, stopping, worker, stop>>

RunStep ==
    \/ RunChecks
    \/ \E c \in Conn : RunAccepts(c)
    \/ RunAcceptsNone
    \/ RunRejects
    \/ RunQueues
    \/ RunNotifies
    \/ RunReturns

-----------------------------------------------------------------------------
(* worker_loop and serve_connection                                        *)

Goes(w, at) == worker' = [worker EXCEPT ![w].at = at]

(* Mutant: the predicate of the wait is evaluated before the mutex is held.*)
TakesStale(w) ==
    /\ worker[w].at = "awake"
    /\ MutexFree
    /\ \/ /\ queue # <<>>
          /\ worker' = [worker EXCEPT ![w] =
                           [at |-> "serve", conn |-> Head(queue), frame |-> None]]
          /\ queue' = Tail(queue)
       \/ queue = <<>> /\ stopping /\ Goes(w, "ended") /\ UNCHANGED queue
       \/ ~ stopping /\ Goes(w, "asleep") /\ UNCHANGED queue
    /\ UNCHANGED <<clients, conns, active, stopping, run, stop>>

(* The wait: its predicate is evaluated, and the first connection taken,   *)
(* under the mutex.                                                        *)
Takes(w) ==
    /\ worker[w].at = "awake"
    /\ MutexFree
    /\ \/ /\ queue # <<>>
          /\ worker' = [worker EXCEPT ![w] =
                           [at |-> "serve", conn |-> Head(queue), frame |-> None]]
          /\ queue' = Tail(queue)
       \/ queue = <<>> /\ stopping /\ Goes(w, "ended") /\ UNCHANGED queue
       \/ queue = <<>> /\ ~ stopping /\ Goes(w, "asleep") /\ UNCHANGED queue
    /\ UNCHANGED <<clients, conns, active, stopping, run, stop>>

Serves(w) ==
    /\ worker[w].at = "serve"
    /\ Goes(w, IF stopping THEN "close" ELSE "receive")
    /\ UNCHANGED <<clients, conns, pool, stopping, run, stop>>

(* A read of a socket that is closed already fails at once.                *)
Receives(w) ==
    /\ worker[w].at = "receive"
    /\ Goes(w, IF socket[worker[w].conn] = "open" THEN "reading" ELSE "close")
    /\ UNCHANGED <<clients, conns, pool, stopping, run, stop>>

(* A read under way ends with a frame, with the end of the client, or with *)
(* the socket: at once or, unless CloseWakes, when the next bytes arrive.  *)
Reads(w) ==
    LET c == worker[w].conn IN
    /\ worker[w].at = "reading"
    /\ \/ /\ socket[c] = "open" /\ inbox[c] # <<>>
          /\ inbox' = [inbox EXCEPT ![c] = Tail(@)]
          /\ worker' = [worker EXCEPT ![w] =
                           [@ EXCEPT !.frame = Head(inbox[c]),
                                     !.at = IF Head(inbox[c]) = "garbled"
                                            THEN "close" ELSE "answer"]]
       \/ /\ socket[c] = "open" /\ inbox[c] = <<>> /\ peer[c] = "gone"
          /\ Goes(w, "close") /\ UNCHANGED inbox
       \/ /\ socket[c] = "closed"
          /\ CloseWakes \/ inbox[c] # <<>> \/ peer[c] = "gone"
          /\ Goes(w, "close") /\ UNCHANGED inbox
    /\ UNCHANGED <<peer, sent, conns, pool, stopping, run, stop>>

(* The request is carried out, then answered; whether the answer to one    *)
(* that is not JSON left is ignored.  A shutdown that was answered stops   *)
(* the server, also when the answer was a refusal; one whose answer was    *)
(* lost does not.                                                          *)
Answers(w) ==
    LET c == worker[w].conn
        f == worker[w].frame IN
    /\ worker[w].at = "answer"
    /\ \/ /\ socket[c] = "open"
          /\ stopping' = (stopping \/ f = "shutdown")
          /\ Goes(w, IF f = "shutdown" THEN "close" ELSE "serve")
       \/ /\ socket[c] = "closed" \/ peer[c] = "gone"
          /\ \/ Goes(w, "close")
             \/ f = "request" /\ Goes(w, "serve")
          /\ UNCHANGED stopping
    /\ UNCHANGED <<clients, conns, pool, run, stop>>

Closes(w) ==
    LET c == worker[w].conn IN
    /\ worker[w].at = "close"
    /\ closed' = [closed EXCEPT ![c] = TRUE]
    /\ socket' = IF closed[c] THEN socket ELSE [socket EXCEPT ![c] = "closed"]
    /\ Goes(w, "retire")
    /\ UNCHANGED <<clients, pool, stopping, run, stop>>

Retires(w) ==
    /\ worker[w].at = "retire"
    /\ MutexFree
    /\ active' = active \ {worker[w].conn}
    /\ worker' = [worker EXCEPT ![w] = [at |-> "awake", conn |-> None, frame |-> None]]
    /\ UNCHANGED <<clients, conns, queue, stopping, run, stop>>

WorkerStep(w) ==
    \/ Takes(w)
    \/ Serves(w)
    \/ Receives(w)
    \/ Reads(w)
    \/ Answers(w)
    \/ Closes(w)
    \/ Retires(w)

-----------------------------------------------------------------------------
(* finish, called by run at its end and by shutdown                        *)

(* Mutant: the second caller does not wait for the first.                  *)
EntersUnlocked(t) ==
    /\ finisher[t] = "enter"
    /\ finisher' = [finisher EXCEPT ![t] = IF finished THEN "returned" ELSE "close"]
    /\ todo' = IF finished THEN todo ELSE active
    /\ stopping' = TRUE
    /\ finished' = TRUE
    /\ UNCHANGED <<clients, conns, pool, run, worker, target, listening>>

(* The shutdown mutex is held to the end of finish: the second caller      *)
(* waits for the first, and then has nothing to do.                        *)
Enters(t) ==
    /\ finisher[t] = "enter"
    /\ \A u \in Finisher : finisher[u] \notin {"close", "notify", "join"}
    /\ finisher' = [finisher EXCEPT ![t] = IF finished THEN "returned" ELSE "close"]
    /\ todo' = IF finished THEN todo ELSE active
    /\ stopping' = TRUE
    /\ finished' = TRUE
    /\ UNCHANGED <<clients, conns, pool, run, worker, target, listening>>

LooksAt(t, c) ==
    /\ finisher[t] = "close"
    /\ target = None
    /\ c \in todo
    /\ todo' = todo \ {c}
    /\ target' = IF closed[c] THEN None ELSE c
    /\ UNCHANGED <<clients, conns, pool, stopping, run, worker, finisher, finished,
                   listening>>

(* Its worker may have closed it since.                                    *)
ClosesTarget(t) ==
    /\ finisher[t] = "close"
    /\ target # None
    /\ socket' = [socket EXCEPT ![target] = "closed"]
    /\ closed' = [closed EXCEPT ![target] = TRUE]
    /\ target' = None
    /\ UNCHANGED <<clients, pool, stopping, run, worker, finisher, todo,
                   finished, listening>>

ClearsQueue(t) ==
    /\ finisher[t] = "close"
    /\ target = None
    /\ todo = {}
    /\ queue' = <<>>
    /\ finisher' = [finisher EXCEPT ![t] = "notify"]
    /\ UNCHANGED <<clients, conns, active, stopping, run, worker, todo, target,
                   finished, listening>>

(* Mutant: one worker is told to stop, not all.                            *)
NotifiesOne(t) ==
    /\ finisher[t] = "notify"
    /\ IF Asleep = {} THEN UNCHANGED worker
       ELSE \E w \in Asleep : worker' = [worker EXCEPT ![w].at = "awake"]
    /\ finisher' = [finisher EXCEPT ![t] = "join"]
    /\ UNCHANGED <<clients, conns, pool, stopping, run, todo, target, finished,
                   listening>>

NotifiesAll(t) ==
    /\ finisher[t] = "notify"
    /\ worker' = [w \in Worker |->
                     IF w \in Asleep THEN [worker[w] EXCEPT !.at = "awake"]
                     ELSE worker[w]]
    /\ finisher' = [finisher EXCEPT ![t] = "join"]
    /\ UNCHANGED <<clients, conns, pool, stopping, run, todo, target, finished,
                   listening>>

Joins(t) ==
    /\ finisher[t] = "join"
    /\ \A w \in Worker : worker[w].at = "ended"
    /\ listening' = FALSE
    /\ finisher' = [finisher EXCEPT ![t] = "returned"]
    /\ UNCHANGED <<clients, conns, pool, stopping, run, worker, todo, target, finished>>

FinishStep(t) ==
    \/ Enters(t)
    \/ \E c \in Conn : LooksAt(t, c)
    \/ ClosesTarget(t)
    \/ ClearsQueue(t)
    \/ NotifiesAll(t)
    \/ Joins(t)

-----------------------------------------------------------------------------
Environment ==
    \/ \E c \in Conn : Connect(c) \/ HangUp(c) \/ \E f \in MessageType : Send(c, f)
    \/ RequestStop
    \/ Shutdown

Next ==
    \/ Environment
    \/ RunStep
    \/ \E w \in Worker : WorkerStep(w)
    \/ \E t \in Finisher : FinishStep(t)

(* Every thread of the server runs on.  Clients need do nothing.           *)
Fairness ==
    /\ WF_vars(RunStep)
    /\ \A w \in Worker : WF_vars(WorkerStep(w))
    /\ \A t \in Finisher : WF_vars(FinishStep(t))

Spec == Init /\ [][Next]_vars /\ Fairness

-----------------------------------------------------------------------------
(* Properties                                                              *)

(* No lost wakeup: while workers sleep, each queued connection has a       *)
(* worker that was woken for it or is about to be.                         *)
NoLostWakeup ==
    Asleep # {} /\ MutexFree =>
        Len(queue) <= Cardinality({w \in Worker : worker[w].at = "awake"})
                        + IF run.at = "notify" THEN 1 ELSE 0

(* A client socket that is open can be found by finish, or is in the hands *)
(* of the accept loop; both lists of connections stay within their limits, *)
(* although they are left at different times.                              *)
OpenTracked ==
    /\ \A c \in Conn : socket[c] = "open" => c \in active \cup {run.conn}
    /\ Cardinality(active) <= MaxConnections
    /\ Len(queue) <= MaxPending

(* run returns only when every worker has ended and the listener is        *)
(* closed, also when another thread was first to stop the server.  What is *)
(* left open then is what the accept loop still held when finish closed    *)
(* the others, and has queued for workers that will not come.              *)
RunReturnsLast ==
    run.at = "returned" =>
        /\ ~ listening
        /\ \A w \in Worker : worker[w].at = "ended"
        /\ \A c \in Conn : socket[c] = "open" => \E i \in DOMAIN queue : queue[i] = c

(* A stop is carried through, whoever asked for it and whatever the        *)
(* clients do or omit.                                                     *)
StopCompletes == stopping ~> run.at = "returned"

(* A queued connection is held up only by clients: if each of them hangs   *)
(* up some time, the queue becomes empty, or the server stops.             *)
QueueDrains ==
    (\A c \in Conn : socket[c] = "open" ~> peer[c] = "gone") =>
        (queue # <<>> ~> queue = <<>> \/ stopping)

-----------------------------------------------------------------------------
(* Claims of the documentation that the code does not keep.                *)

(* A call of shutdown ends with every worker joined (checked without       *)
(* CloseWakes).                                                            *)
ShutdownJoins ==
    finisher["shutdown"] = "enter" ~> \A w \in Worker : worker[w].at = "ended"
=============================================================================
