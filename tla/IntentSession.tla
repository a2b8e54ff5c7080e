---------------------------- MODULE IntentSession ----------------------------
(***************************************************************************)
(* The protocol between clients and a served runtime (src/net.cpp): a      *)
(* connection with its session, the handshake, the dispatch of each kind   *)
(* of request to the runtime, answers that get lost, the shutdown request, *)
(* and clients that try again with what they remember.                     *)
(*                                                                         *)
(* A client waits for the answer before it sends the next request, so a    *)
(* request takes effect when the worker reads it and it does not matter    *)
(* when it was sent; an answer is known to the client when it is sent, or  *)
(* it is lost with the connection.  The mutex of the runtime makes each of *)
(* its operations one step; between them, and before the answer is sent,   *)
(* anything may happen.  The pool of workers is IntentServer's: here every *)
(* connection has one.                                                     *)
(***************************************************************************)
EXTENDS IntentRuntime

CONSTANTS
    Conn,        \* connections open at one time
    Foreign,     \* a document of another domain
    NoAnswer

ASSUME SessionAssumption ==
    /\ Foreign \notin Doc
    /\ MaxSubscriptions > 0
    /\ MaxIncarnation > 0

VARIABLES
    worker,    \* where the worker of each connection is
    session,   \* serve_connection's Session
    answer,    \* response_payload, until it is sent
    memory,    \* what the client knows, also after the connection is gone
    stopping,  \* IntentServer::stopping_
    farewell   \* history: this process has answered a shutdown request

wire == <<worker, session, answer>>
sessionVars == <<vars, wire, memory, stopping, farewell>>

(* What no request changes.                                                *)
around == <<up, epoch, incarnation, calls, memory, stopping, farewell>>

(* The runtime, but for what is in around.                                 *)
runtime == <<log, shutting, table, feed, cancelled>>

-----------------------------------------------------------------------------
(* The fence a client holds.  saw, the generations it stands for, and      *)
(* incarnation are history: a commit request carries only the number, and  *)
(* the server puts the epoch and incarnation of the session to it.         *)
Fence == [generation : 0 .. MaxGeneration, incarnation : 0 .. MaxIncarnation,
          saw : Seq(Doc)]

FenceOn(n) == [generation |-> n, incarnation |-> incarnation,
               saw |-> Docs(SubSeq(log, 1, n))]

NoSession == [hello |-> FALSE, actor |-> NoActor, epoch |-> 0, incarnation |-> 0]

Answer(t) == [type |-> t]
Failed == Answer("error")

(* Identities and fences told to any client: clients may share them.       *)
KnownIds    == {memory[c].id : c \in Conn} \ {NoId}
KnownFences == {memory[c].fence : c \in Conn}

(* Types; a worker that answers has an answer, and one that has read       *)
(* nothing has none.                                                       *)
SessionTypeOK ==
    /\ worker \in [Conn -> {"none", "receive", "validate", "answer", "part", "stop"}]
    /\ session \in [Conn -> [hello : BOOLEAN, actor : Actor \cup {NoActor},
                             epoch : Nat, incarnation : Nat]]
    /\ memory \in [Conn -> [fence : Fence, id : 0 .. MaxProposals]]
    /\ stopping \in BOOLEAN
    /\ farewell \in BOOLEAN
    /\ \A c \in Conn :
        answer[c] # NoAnswer <=> worker[c] \in {"validate", "answer", "part"}

SessionInit ==
    /\ Init
    /\ worker = [c \in Conn |-> "none"]
    /\ session = [c \in Conn |-> NoSession]
    /\ answer = [c \in Conn |-> NoAnswer]
    /\ memory = [c \in Conn |->
                    [fence |-> [generation |-> 0, incarnation |-> 0, saw |-> <<>>],
                     id |-> NoId]]
    /\ stopping = FALSE
    /\ farewell = FALSE

Connect(c) ==
    /\ up /\ ~ stopping
    /\ worker[c] = "none"
    /\ worker' = [worker EXCEPT ![c] = "receive"]
    /\ UNCHANGED <<vars, session, answer, memory, stopping, farewell>>

-----------------------------------------------------------------------------
(* A frame is read and dispatched                                          *)

AnswersWith(c, a) ==
    /\ worker' = [worker EXCEPT ![c] = "answer"]
    /\ answer' = [answer EXCEPT ![c] = a]

Ready(c) == up /\ worker[c] = "receive"
Bound(c) == Ready(c) /\ session[c].hello

(* Requests that only read, and those that are refused before the runtime  *)
(* is called: no JSON, incomplete, of an unknown type, before the hello,   *)
(* without a session block that matches, or for an actor other than the    *)
(* session's.                                                              *)
ServeOther(c) ==
    /\ Ready(c)
    /\ AnswersWith(c, IF session[c].hello THEN Answer("read") ELSE Failed)
    /\ UNCHANGED <<around, runtime, session>>

ServeHello(c) ==
    /\ Ready(c)
    /\ \E a \in Actor :
        session' = [session EXCEPT ![c] =
                       [hello |-> TRUE, actor |-> a, epoch |-> epoch,
                        incarnation |-> incarnation]]
    /\ AnswersWith(c, [type |-> "hello", fence |-> FenceOn(HeadGeneration)])
    /\ UNCHANGED <<around, runtime>>

(* Propose: the runtime is called twice, to admit the proposal and then to *)
(* validate it.                                                            *)
ProposeAdmits(c) ==
    /\ Bound(c)
    /\ \E d \in Doc, oversized \in BOOLEAN : Admit(session[c].actor, d, oversized)
    /\ worker' = [worker EXCEPT ![c] = "validate"]
    /\ answer' = [answer EXCEPT ![c] = [type |-> "proposed", id |-> drawn + 1]]
    /\ UNCHANGED <<around, log, shutting, feed, cancelled, session>>

ProposeRefused(c) ==
    /\ Bound(c)
    /\ \/ ~ Admitting /\ UNCHANGED table
       \/ RefuseAtLimit
       \/ RefuseDomain
    /\ AnswersWith(c, Failed)
    /\ UNCHANGED <<around, log, shutting, feed, cancelled, session>>

(* validate_proposal of the runtime: the report it gives, or an error.     *)
Reports(id) == ValidateFound(id) /\ ~ Stale(Find(id))

ReportsAgain(id) ==
    /\ id \in DOMAIN index
    /\ Find(id).state = "Committed"
    /\ UNCHANGED runtime

(* The proposal is stale, unknown or cancelled, or the head's record       *)
(* cannot be read for the diff.                                            *)
GivesNoReport(id) ==
    \/ ValidateFound(id) /\ Stale(Find(id))
    \/ /\ id \in DOMAIN index =>
            \/ Find(id).state = "Cancelled"
            \/ log # <<>> /\ Find(id).state # "Committed" /\ ~ Stale(Find(id))
       /\ UNCHANGED runtime

(* Without a report the answer is an error, which does not name the        *)
(* proposal that was admitted.                                             *)
ProposeValidates(c) ==
    /\ up
    /\ worker[c] = "validate"
    /\ LET id == answer[c].id IN
        \/ (Reports(id) \/ ReportsAgain(id)) /\ AnswersWith(c, answer[c])
        \/ GivesNoReport(id) /\ AnswersWith(c, Failed)
    /\ UNCHANGED <<around, session>>

ServeValidate(c, id) ==
    /\ Bound(c)
    /\ \/ (Reports(id) \/ ReportsAgain(id)) /\ AnswersWith(c, Answer("report"))
       \/ GivesNoReport(id) /\ AnswersWith(c, Failed)
    /\ UNCHANGED <<around, session>>

(* Commit: the number and the writer come with the request, the epoch and  *)
(* the incarnation from the session.                                       *)
TokenOnHead(c, f, a) ==           \* mutant: the head stands for the number
    [generation |-> HeadGeneration, epoch |-> session[c].epoch,
     incarnation |-> session[c].incarnation, writer |-> a]
TokenOf(c, f, a) ==
    [generation |-> f.generation, epoch |-> session[c].epoch,
     incarnation |-> session[c].incarnation, writer |-> a]

(* The answer names the head the commit made.  id and used are history.    *)
Committed(id, f) ==
    [type |-> "committed", id |-> id, fence |-> FenceOn(HeadGeneration)', used |-> f]

(* Mutant: a commit that is sent again is answered with the head.          *)
ServeCommitAgain(c, id, f) ==
    /\ Bound(c)
    /\ UNCHANGED <<around, session>>
    /\ \/ /\ \E a \in Actor : CommitSucceeds(id, TokenOf(c, f, a))
          /\ AnswersWith(c, Committed(id, f))
       \/ ReportsAgain(id) /\ AnswersWith(c, Committed(id, f))
       \/ CommitRejects(id) /\ AnswersWith(c, Failed)
       \/ ~ FoundStale(id) /\ UNCHANGED runtime /\ AnswersWith(c, Failed)

(* The commit is carried out, finds the proposal stale, or is refused: by  *)
(* a check, or because the store failed.                                   *)
ServeCommit(c, id, f) ==
    /\ Bound(c)
    /\ \/ /\ \E a \in Actor : CommitSucceeds(id, TokenOf(c, f, a))
          /\ AnswersWith(c, Committed(id, f))
       \/ CommitRejects(id) /\ AnswersWith(c, Failed)
       \/ ~ FoundStale(id) /\ UNCHANGED runtime /\ AnswersWith(c, Failed)
    /\ UNCHANGED <<around, session>>

ServeCancel(c, id) ==
    /\ Bound(c)
    /\ IF id \in DOMAIN index /\ Find(id).state # "Committed"
       THEN Cancel(id) /\ AnswersWith(c, Answer("cancelled"))
       ELSE UNCHANGED runtime /\ AnswersWith(c, Failed)
    /\ UNCHANGED <<around, session>>

(* A subscription belongs to the runtime and outlives the connection: no   *)
(* request ends one.                                                       *)
ServeSubscribe(c) ==
    /\ Bound(c)
    /\ IF Admitting /\ Cardinality(DOMAIN subscribers) < MaxSubscribers
       THEN Subscribe /\ AnswersWith(c, Answer("subscribed"))
       ELSE UNCHANGED runtime /\ AnswersWith(c, Failed)
    /\ UNCHANGED <<around, session>>

(* The publication leaves the queue before the answer is sent.             *)
ServePoll(c, s) ==
    /\ Bound(c)
    /\ IF s \in DOMAIN subscribers
       THEN /\ AnswersWith(c, Answer("polled"))
            /\ \/ Poll(s)
               \/ subscribers[s].queue = <<>> /\ UNCHANGED runtime
       ELSE UNCHANGED runtime /\ AnswersWith(c, Failed)
    /\ UNCHANGED <<around, session>>

(* Parting: how a shutdown request is answered.                            *)
Parts(c, a) ==
    /\ worker' = [worker EXCEPT ![c] = "part"]
    /\ answer' = [answer EXCEPT ![c] = a]

(* Mutant: admission ends only when the server stops.                      *)
ServeShutdownLate(c) ==
    /\ Ready(c)
    /\ Parts(c, IF session[c].hello THEN Answer("stopping") ELSE Failed)
    /\ UNCHANGED <<around, runtime, session>>

(* A shutdown request before the hello is refused, and yet the worker goes *)
(* on to stop the server.                                                  *)
ServeShutdown(c) ==
    /\ Ready(c)
    /\ shutting' = (shutting \/ session[c].hello)
    /\ Parts(c, IF session[c].hello THEN Answer("stopping") ELSE Failed)
    /\ UNCHANGED <<around, log, table, feed, cancelled, session>>

-----------------------------------------------------------------------------
(* The answer is sent                                                      *)

(* A hello or a commit tells the client the head, a propose the identity   *)
(* of the proposal.                                                        *)
Learns(m, a) ==
    [fence |-> IF a.type \in {"hello", "committed"} THEN a.fence ELSE m.fence,
     id |-> IF a.type = "proposed" THEN a.id ELSE m.id]

NextFor(c) == IF worker[c] = "part" THEN "stop" ELSE "receive"

Send(c) ==
    /\ up
    /\ worker[c] \in {"answer", "part"}
    /\ memory' = [memory EXCEPT ![c] = Learns(@, answer[c])]
    /\ worker' = [worker EXCEPT ![c] = NextFor(c)]
    /\ answer' = [answer EXCEPT ![c] = NoAnswer]
    /\ farewell' = (farewell \/ answer[c].type = "stopping")
    /\ UNCHANGED <<vars, session, stopping>>

(* The worker closes the connection and forgets the session.               *)
Ends(c) ==
    /\ worker' = [worker EXCEPT ![c] = "none"]
    /\ answer' = [answer EXCEPT ![c] = NoAnswer]
    /\ session' = [session EXCEPT ![c] = NoSession]

(* The client is gone, or the answer is larger than a frame.  (An answer   *)
(* that leaves the server and is lost is no different, except to a         *)
(* shutdown request, whose answer tells the client nothing it will use.)   *)
SendFails(c) ==
    /\ up
    /\ worker[c] \in {"answer", "part"}
    /\ Ends(c)
    /\ UNCHANGED <<vars, memory, stopping, farewell>>

(* receive_frame fails, as the client is gone or the frame does not        *)
(* verify, or the worker sees that the server stops.                       *)
ReceiveEnds(c) ==
    /\ Ready(c)
    /\ Ends(c)
    /\ UNCHANGED <<vars, memory, stopping, farewell>>

RequestStop(c) ==
    /\ up
    /\ worker[c] = "stop"
    /\ stopping' = TRUE
    /\ Ends(c)
    /\ UNCHANGED <<vars, memory, farewell>>

-----------------------------------------------------------------------------
Dispatch(c) ==
    \/ ServeOther(c)
    \/ ServeHello(c)
    \/ ProposeAdmits(c)
    \/ ProposeRefused(c)
    \/ \E id \in KnownIds :
        \/ ServeValidate(c, id)
        \/ \E f \in KnownFences : ServeCommit(c, id, f)
        \/ ServeCancel(c, id)
    \/ ServeSubscribe(c)
    \/ \E s \in 1 .. MaxSubscriptions : ServePoll(c, s)
    \/ ServeShutdown(c)

(* A worker with a request at hand goes on by itself.                      *)
GoOn(c) ==
    \/ ProposeValidates(c)
    \/ Send(c)
    \/ SendFails(c)
    \/ RequestStop(c)

(* The process is killed, or ends because the server stopped; clients keep *)
(* what they know.                                                         *)
ProcessEnds ==
    /\ Crash
    /\ worker' = [c \in Conn |-> "none"]
    /\ session' = [c \in Conn |-> NoSession]
    /\ answer' = [c \in Conn |-> NoAnswer]
    /\ stopping' = FALSE
    /\ farewell' = FALSE
    /\ UNCHANGED memory

ProcessStarts == Reopen /\ UNCHANGED <<wire, memory, stopping, farewell>>

SessionNext ==
    \/ \E c \in Conn : Connect(c) \/ Dispatch(c) \/ GoOn(c) \/ ReceiveEnds(c)
    \/ ProcessEnds
    \/ ProcessStarts

SessionSpec == SessionInit /\ [][SessionNext]_sessionVars

-----------------------------------------------------------------------------
(* Properties                                                              *)

Acked(c) == answer[c] # NoAnswer /\ answer[c].type = "committed"

(* A commit that is acknowledged is in the log, under the number and for   *)
(* the proposal it is acknowledged for, whoever else commits before the    *)
(* answer is sent.                                                         *)
AckedIsCommitted ==
    \A c \in Conn : Acked(c) =>
        LET n == answer[c].fence.generation IN
        /\ n \in DOMAIN log
        /\ log[n].by = answer[c].id
        /\ answer[c].fence.saw = Docs(SubSeq(log, 1, n))

(* A commit builds on the generations its fence stands for: over the wire, *)
(* and retried on other connections, as long as the process lives that     *)
(* gave out the fence.  So a fence carries one commit at most, since the   *)
(* next one would build on more.  (After a restart a fence is not held to  *)
(* its process: IntentClient sends only the number of it.)                 *)
BuildsOnWhatItSaw ==
    \A c \in Conn : Acked(c) =>
        LET f == answer[c].used IN
        f.incarnation = incarnation =>
            f.saw = Docs(SubSeq(log, 1, answer[c].fence.generation - 1))

(* Once a client was told that the server is stopping nothing is committed *)
(* any more, and nothing proposed.                                         *)
NothingAfterFarewell ==
    [][farewell /\ farewell' => UNCHANGED <<log, drawn>>]_sessionVars
=============================================================================
