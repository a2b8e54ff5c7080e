------------------------ MODULE IntentSession_proofs ------------------------
(***************************************************************************)
(* Proofs about IntentSession for any number of connections, actors and    *)
(* documents: what an acknowledged commit says of the log, and that        *)
(* nothing follows the answer to a shutdown request.  Each step of a       *)
(* session is a step of the runtime, whose invariant it keeps              *)
(* (IntentRuntime_proofs); what is added here is the invariant of the      *)
(* answers that wait to be sent and of the fences that clients hold.       *)
(***************************************************************************)
EXTENDS IntentSession, IntentRuntime_proofs

-----------------------------------------------------------------------------
(* The invariant *)

Place == {"none", "receive", "validate", "answer", "part", "stop"}

(* Places where a worker holds an answer.                                  *)
Answering == {"validate", "answer", "part"}

AnyFence == [generation : Nat, incarnation : Nat, saw : Seq(Doc)]

Memories(ids) == [Conn -> [fence : AnyFence, id : 0 .. ids]]

WireTypes ==
    /\ worker \in [Conn -> Place]
    /\ session \in [Conn -> [hello : BOOLEAN, actor : Actor \cup {NoActor},
                             epoch : Nat, incarnation : Nat]]
    /\ answer = [x \in Conn |-> answer[x]]
    /\ memory \in Memories(drawn)

(* As long as the process lives that gave it out, a fence stands for the   *)
(* generations it names.                                                   *)
Stands(f, past, inc) ==
    /\ f.incarnation <= inc
    /\ f.incarnation = inc =>
         f.generation <= Len(past) /\ f.saw = Docs(SubSeq(past, 1, f.generation))

(* Generation n was committed for this proposal, on top of what this fence *)
(* stands for.                                                             *)
Acknowledges(a, past, inc) ==
    LET n == a.fence.generation IN
    /\ n \in DOMAIN past
    /\ past[n].by = a.id
    /\ a.fence.saw = Docs(SubSeq(past, 1, n))
    /\ a.used.incarnation = inc => a.used.saw = Docs(SubSeq(past, 1, n - 1))

(* What a worker at place w may hold as its answer, when the log is past,  *)
(* over says whether admission has ended, and ids proposals were drawn.    *)
Fits(w, a, past, inc, over, ids) ==
    /\ w \notin Answering => a = NoAnswer
    /\ w = "validate" => a.type = "proposed"
    /\ w \in Answering =>
         /\ a.type = "proposed" => a.id \in 1 .. ids
         /\ a.type \in {"hello", "committed"} =>
              a.fence \in AnyFence /\ Stands(a.fence, past, inc)
         /\ a.type = "committed" => Acknowledges(a, past, inc)
         /\ a.type = "stopping" => over

WireInv ==
    /\ WireTypes
    /\ ~ up => ~ farewell /\ \A c \in Conn : worker[c] = "none"
    /\ \A c \in Conn : Fits(worker[c], answer[c], log, incarnation, shutting, drawn)
    /\ \A c \in Conn : Stands(memory[c].fence, log, incarnation)
    /\ farewell => shutting

(* The process numbers and the epochs stay within their bounds.            *)
ClockInv ==
    /\ incarnation \in 1 .. MaxIncarnation
    /\ up => epoch \in 1 .. incarnation
    /\ \A i \in DOMAIN log : log[i].epoch <= incarnation

SessionInv == CoreInv /\ FeedInv /\ ClockInv /\ WireInv

-----------------------------------------------------------------------------
(* Each step of a session is a step of the runtime *)

LEMMA KnownToClients ==
    ASSUME CoreInv, WireInv
    PROVE  /\ \A id \in KnownIds : id \in 1 .. drawn /\ id \in 1 .. MaxProposals
           /\ \A f \in KnownFences : f \in AnyFence /\ Stands(f, log, incarnation)
<1>1. \A x \in Conn : memory[x] \in [fence : AnyFence, id : 0 .. drawn]
  BY DEF WireInv, WireTypes, Memories
<1>2. \A x \in Conn : memory[x].fence \in AnyFence /\ memory[x].id \in 0 .. drawn
  BY <1>1
<1>3. \A id \in KnownIds : id \in 0 .. drawn /\ id # 0
  BY <1>2 DEF KnownIds, NoId
<1>4. MaxProposals \in Nat /\ drawn \in Nat /\ drawn <= MaxProposals
  BY RuntimeAssumption DEF CoreInv, CoreTypes
<1> QED
  BY <1>2, <1>3, <1>4 DEF KnownFences, WireInv

(* A step that leaves the runtime as it is.                                *)
LEMMA RuntimeStays ==
    ASSUME CoreTypes, UNCHANGED <<runtime, up, epoch, incarnation>>
    PROVE  CoreStep /\ FeedStep
BY DEF CoreTypes, CoreStep, FeedStep, runtime

LEMMA ReportSteps ==
    ASSUME CoreTypes, NEW id \in 1 .. MaxProposals, UNCHANGED <<up, epoch, incarnation>>,
           Reports(id) \/ ReportsAgain(id) \/ GivesNoReport(id)
    PROVE  CoreStep /\ FeedStep
<1>1. CASE ValidateFound(id)
  BY <1>1 DEF ValidateFound, CoreStep, FeedStep, store
<1>2. CASE UNCHANGED runtime
  BY <1>2, RuntimeStays
<1> QED
  BY <1>1, <1>2 DEF Reports, ReportsAgain, GivesNoReport

LEMMA DispatchSteps ==
    ASSUME SessionInv, NEW c \in Conn, Dispatch(c)
    PROVE  /\ CoreStep /\ FeedStep
           /\ up /\ UNCHANGED <<up, incarnation, memory, stopping, farewell>>
           /\ worker[c] = "receive"
           /\ shutting => shutting'
<1>1. CoreInv /\ CoreTypes /\ WireInv /\ shutting \in BOOLEAN
  BY DEF SessionInv, CoreInv, CoreTypes
<1>2. CASE ServeOther(c) \/ ServeHello(c)
  BY <1>1, <1>2, RuntimeStays DEF ServeOther, ServeHello, around, runtime, Ready
<1>3. CASE ProposeAdmits(c)
  <2>1. PICK d \in Doc, oversized \in BOOLEAN : Admit(session[c].actor, d, oversized)
    BY <1>3 DEF ProposeAdmits
  <2>2. session[c].actor \in Actor
    BY <1>1, <2>1 DEF Admit, WireInv, WireTypes
  <2>3. UNCHANGED <<log, up, epoch, incarnation, shutting, feed, cancelled>>
    BY <1>3 DEF ProposeAdmits, around
  <2> QED
    BY <1>3, <2>1, <2>2, <2>3
    DEF ProposeAdmits, Bound, Ready, around, CoreStep, CoreRest, FeedStep, store
<1>4. CASE ProposeRefused(c)
  <2>1. /\ UNCHANGED <<log, up, epoch, incarnation, shutting, feed, cancelled>>
        /\ UNCHANGED <<memory, stopping, farewell>>
        /\ up /\ worker[c] = "receive"
    BY <1>4 DEF ProposeRefused, Bound, Ready, around
  <2>2. CASE UNCHANGED table
    BY <1>1, <2>1, <2>2, RuntimeStays DEF runtime
  <2>3. CASE RefuseAtLimit \/ RefuseDomain
    BY <2>1, <2>3 DEF CoreStep, CoreRest, FeedStep, store
  <2> QED
    BY <1>4, <2>1, <2>2, <2>3 DEF ProposeRefused
<1>5. ASSUME NEW id \in KnownIds, ServeValidate(c, id)
      PROVE  CoreStep /\ FeedStep /\ (shutting => shutting')
  <2>1. id \in 1 .. MaxProposals
    BY <1>1, KnownToClients
  <2>2. /\ UNCHANGED <<up, epoch, incarnation>>
        /\ Reports(id) \/ ReportsAgain(id) \/ GivesNoReport(id)
    BY <1>5 DEF ServeValidate, around
  <2>3. shutting' = shutting
    BY <2>2 DEF Reports, ReportsAgain, GivesNoReport, ValidateFound, runtime, store
  <2> QED
    BY <1>1, <2>1, <2>2, <2>3, ReportSteps
<1>6. ASSUME NEW id \in KnownIds, NEW f \in KnownFences, ServeCommit(c, id, f)
      PROVE  CoreStep /\ FeedStep /\ (shutting => shutting')
  <2>1. id \in 1 .. MaxProposals /\ UNCHANGED <<up, epoch, incarnation>>
    BY <1>1, <1>6, KnownToClients DEF ServeCommit, around
  <2>2. CASE \E a \in Actor : CommitSucceeds(id, TokenOf(c, f, a))
    <3>1. PICK t : CommitSucceeds(id, t)
      BY <2>2
    <3>2. shutting' = shutting
      BY <3>1 DEF CommitSucceeds
    <3> QED
      BY <2>1, <3>1, <3>2 DEF CoreStep, FeedStep
  <2>3. CASE CommitRejects(id)
    BY <2>1, <2>3 DEF CommitRejects, CoreStep, FeedStep, store
  <2>4. CASE UNCHANGED runtime
    BY <1>1, <2>1, <2>4, RuntimeStays DEF runtime
  <2> QED
    BY <1>6, <2>2, <2>3, <2>4 DEF ServeCommit
<1>7. ASSUME NEW id \in KnownIds, ServeCancel(c, id)
      PROVE  CoreStep /\ FeedStep /\ (shutting => shutting')
  <2>1. id \in 1 .. MaxProposals /\ UNCHANGED <<up, epoch, incarnation>>
    BY <1>1, <1>7, KnownToClients DEF ServeCancel, around
  <2>2. CASE Cancel(id)
    BY <2>1, <2>2 DEF Cancel, CoreStep, FeedStep, store
  <2>3. CASE UNCHANGED runtime
    BY <1>1, <2>1, <2>3, RuntimeStays DEF runtime
  <2> QED
    BY <1>7, <2>2, <2>3 DEF ServeCancel
<1>8. ASSUME ServeSubscribe(c) \/ \E s \in 1 .. MaxSubscriptions : ServePoll(c, s)
      PROVE  CoreStep /\ FeedStep /\ (shutting => shutting')
  <2>1. UNCHANGED <<up, epoch, incarnation>>
    BY <1>8 DEF ServeSubscribe, ServePoll, around
  <2>2. CASE UNCHANGED runtime
    BY <1>1, <2>1, <2>2, RuntimeStays DEF runtime
  <2>3. CASE Subscribe \/ \E s \in DOMAIN subscribers : Poll(s)
    BY <1>1, <2>3 DEF Subscribe, Poll, CoreStep, FeedStep, store
  <2> QED
    BY <1>8, <2>2, <2>3 DEF ServeSubscribe, ServePoll
<1>9. CASE ServeShutdown(c)
  <2>1. /\ UNCHANGED <<log, up, epoch, incarnation, table, feed, cancelled>>
        /\ shutting' = (shutting \/ session[c].hello)
        /\ UNCHANGED <<memory, stopping, farewell>>
        /\ up /\ worker[c] = "receive"
    BY <1>9 DEF ServeShutdown, Ready, around
  <2>2. session[c].hello \in BOOLEAN
    BY <1>1 DEF WireInv, WireTypes
  <2>3. shutting' \in BOOLEAN /\ (shutting => shutting')
    BY <1>1, <2>1, <2>2
  <2> QED
    BY <2>1, <2>3 DEF CoreStep, FeedStep
<1>10. up /\ UNCHANGED <<up, incarnation, memory, stopping, farewell>> /\ worker[c] = "receive"
  BY DEF Dispatch, ServeOther, ServeHello, ProposeAdmits, ProposeRefused, ServeValidate,
         ServeCommit, ServeCancel, ServeSubscribe, ServePoll, ServeShutdown, around, Bound, Ready
<1> QED
  BY <1>2, <1>3, <1>4, <1>5, <1>6, <1>7, <1>8, <1>9, <1>10 DEF Dispatch

-----------------------------------------------------------------------------
(* While a process lives its log only grows *)

Grows(past, next) ==
    /\ past \in Seq(Generation) /\ next \in Seq(Generation)
    /\ Len(past) <= Len(next)
    /\ \A i \in 1 .. Len(past) : past[i] = next[i]

LEMMA CoreStepGrows ==
    ASSUME CoreInv, CoreStep
    PROVE  (Grows(log, log') /\ incarnation' = incarnation) \/ Reopen
<1>1. log \in Seq(Generation) /\ Len(log) \in Nat
  BY DEF CoreInv, CoreTypes
<1>2. CASE UNCHANGED <<log, incarnation>>
  BY <1>1, <1>2 DEF Grows
<1>3. ASSUME NEW id \in 1 .. MaxProposals, NEW t, CommitSucceeds(id, t)
      PROVE  Grows(log, log') /\ incarnation' = incarnation
  <2>1. CommitsTo(id)
    BY <1>3, CommitShape
  <2>2. incarnation' = incarnation
    BY <1>3 DEF CommitSucceeds
  <2> QED
    BY <1>1, <2>1, <2>2 DEF CommitsTo, Grows
<1>4. CASE (RefuseAtLimit \/ RefuseDomain) /\ CoreRest
  BY <1>2, <1>4 DEF CoreRest, store
<1>5. CASE \E a \in Actor, d \in Doc, oversized \in BOOLEAN : Admit(a, d, oversized) /\ CoreRest
  BY <1>2, <1>5 DEF CoreRest, store
<1>6. CASE \E id \in 1 .. MaxProposals : ValidateFound(id) \/ CommitRejects(id) \/ Cancel(id)
  BY <1>2, <1>6 DEF ValidateFound, CommitRejects, Cancel, store
<1>7. CASE Crash
  BY <1>2, <1>7 DEF Crash
<1> QED
  BY <1>2, <1>3, <1>4, <1>5, <1>6, <1>7 DEF CoreStep

LEMMA DrawnGrows ==
    ASSUME CoreInv, CoreStep
    PROVE  drawn \in Nat /\ drawn' \in Nat /\ drawn <= drawn'
<1>1. drawn \in Nat
  BY RuntimeAssumption DEF CoreInv, CoreTypes
<1>2. CASE UNCHANGED drawn
  BY <1>1, <1>2
<1>3. CASE drawn' = drawn + 1
  BY <1>1, <1>3
<1> QED
  BY <1>2, <1>3
  DEF CoreStep, RefuseAtLimit, RefuseDomain, Admit, ValidateFound, CommitRejects,
      CommitSucceeds, Cancel, Crash, Reopen, table

LEMMA PrefixStays ==
    ASSUME NEW past, NEW next, Grows(past, next), NEW n \in 0 .. Len(past)
    PROVE  Docs(SubSeq(next, 1, n)) = Docs(SubSeq(past, 1, n))
<1>1. n <= Len(next) /\ \A i \in 1 .. n : past[i] = next[i]
  BY DEF Grows
<1> QED
  BY <1>1, SamePast DEF Grows

LEMMA StandsStays ==
    ASSUME NEW past, NEW next, Grows(past, next), NEW inc,
           NEW f \in AnyFence, Stands(f, past, inc)
    PROVE  Stands(f, next, inc)
<1>1. CASE f.incarnation = inc
  <2>1. /\ f.generation \in Nat /\ f.generation <= Len(past) /\ f.incarnation <= inc
        /\ f.saw = Docs(SubSeq(past, 1, f.generation))
    BY <1>1 DEF Stands, AnyFence
  <2>2. Len(past) \in Nat /\ Len(next) \in Nat /\ Len(past) <= Len(next)
    BY DEF Grows
  <2>3. f.generation \in 0 .. Len(past) /\ f.generation <= Len(next)
    BY <2>1, <2>2
  <2>4. Docs(SubSeq(next, 1, f.generation)) = Docs(SubSeq(past, 1, f.generation))
    BY <2>3, PrefixStays
  <2> QED
    BY <2>1, <2>3, <2>4 DEF Stands
<1>2. CASE f.incarnation # inc
  BY <1>2 DEF Stands
<1> QED
  BY <1>1, <1>2

LEMMA AcknowledgesStays ==
    ASSUME NEW past, NEW next, Grows(past, next), NEW inc, NEW a, Acknowledges(a, past, inc)
    PROVE  Acknowledges(a, next, inc)
<1> DEFINE n == a.fence.generation
<1>1. /\ n \in DOMAIN past
      /\ past[n].by = a.id /\ a.fence.saw = Docs(SubSeq(past, 1, n))
      /\ a.used.incarnation = inc => a.used.saw = Docs(SubSeq(past, 1, n - 1))
  BY DEF Acknowledges
<1>2. /\ DOMAIN past = 1 .. Len(past) /\ DOMAIN next = 1 .. Len(next)
      /\ Len(past) \in Nat /\ Len(next) \in Nat /\ Len(past) <= Len(next)
  BY DEF Grows
<1>3. n \in 1 .. Len(past) /\ n \in DOMAIN next /\ n \in 0 .. Len(past) /\ n - 1 \in 0 .. Len(past)
  BY <1>1, <1>2
<1>4. next[n] = past[n]
  BY <1>3 DEF Grows
<1>5. Docs(SubSeq(next, 1, n)) = Docs(SubSeq(past, 1, n))
  BY <1>3, PrefixStays
<1>6. Docs(SubSeq(next, 1, n - 1)) = Docs(SubSeq(past, 1, n - 1))
  BY <1>3, PrefixStays
<1> HIDE DEF n
<1>7. a.fence.generation = n
  BY DEF n
<1> QED
  BY <1>1, <1>3, <1>4, <1>5, <1>6, <1>7 DEF Acknowledges

LEMMA FitsStays ==
    ASSUME NEW past, NEW next, Grows(past, next), NEW inc, NEW over, NEW over2,
           over => over2, NEW ids \in Nat, NEW ids2 \in Nat, ids <= ids2,
           NEW w, NEW a, Fits(w, a, past, inc, over, ids)
    PROVE  Fits(w, a, next, inc, over2, ids2)
<1>1. ASSUME w \in Answering, a.type \in {"hello", "committed"}
      PROVE  a.fence \in AnyFence /\ Stands(a.fence, next, inc)
  <2>1. a.fence \in AnyFence /\ Stands(a.fence, past, inc)
    BY <1>1 DEF Fits
  <2> QED
    BY <2>1, StandsStays
<1>2. ASSUME w \in Answering, a.type = "committed"
      PROVE  Acknowledges(a, next, inc)
  <2>1. Acknowledges(a, past, inc)
    BY <1>2 DEF Fits
  <2> QED
    BY <2>1, AcknowledgesStays
<1>3. \A id \in 1 .. ids : id \in 1 .. ids2
  OBVIOUS
<1> QED
  BY <1>1, <1>2, <1>3 DEF Fits

-----------------------------------------------------------------------------
(* What a worker answers *)

(* The worker of c goes to a place with an answer that fits it.            *)
Answers(c) ==
    \E w \in Place : \E a :
        /\ worker' = [worker EXCEPT ![c] = w]
        /\ answer' = [answer EXCEPT ![c] = a]
        /\ Fits(w, a, log', incarnation', shutting', drawn')

Plain == {"read", "error", "report", "cancelled", "subscribed", "polled"}

LEMMA PlainAnswer ==
    ASSUME NEW c \in Conn, NEW t \in Plain, AnswersWith(c, Answer(t))
    PROVE  Answers(c)
<1>1. Answer(t).type = t
  BY DEF Answer
<1>2. \A past, inc, over, ids : Fits("answer", Answer(t), past, inc, over, ids)
  BY <1>1 DEF Fits, Answering, Plain
<1> QED
  BY <1>2 DEF Answers, AnswersWith, Place

LEMMA FailedAnswer ==
    ASSUME NEW c \in Conn, AnswersWith(c, Failed)
    PROVE  Answers(c)
BY PlainAnswer DEF Failed, Plain

(* A fence given out stands for the log as it is.                          *)
LEMMA HeadStands ==
    ASSUME NEW past \in Seq(Generation), NEW inc \in Nat
    PROVE  LET f == [generation |-> Len(past), incarnation |-> inc,
                     saw |-> Docs(SubSeq(past, 1, Len(past)))]
           IN  f \in AnyFence /\ Stands(f, past, inc)
<1>1. Len(past) \in Nat /\ DOMAIN past = 1 .. Len(past)
  OBVIOUS
<1>2. Docs(SubSeq(past, 1, Len(past))) = Docs(past)
  BY WholePast
<1>3. Docs(past) \in Seq(Doc)
  <2>0. \A i \in 1 .. Len(past) : past[i] \in Generation
    OBVIOUS
  <2>1. \A i \in 1 .. Len(past) : past[i].doc \in Doc
    BY <2>0 DEF Generation
  <2>2. Docs(past) = [i \in 1 .. Len(past) |-> past[i].doc]
    BY <1>1 DEF Docs
  <2> QED
    BY <1>1, <2>1, <2>2
<1> QED
  BY <1>1, <1>2, <1>3 DEF AnyFence, Stands

LEMMA HelloAnswers ==
    ASSUME CoreInv, NEW c \in Conn, ServeHello(c)
    PROVE  Answers(c)
<1>1. /\ log \in Seq(Generation) /\ incarnation \in Nat
      /\ log' = log /\ incarnation' = incarnation
  BY DEF CoreInv, CoreTypes, ServeHello, runtime, around
<1> DEFINE f == FenceOn(HeadGeneration)
           a == [type |-> "hello", fence |-> f]
<1>2. f \in AnyFence /\ Stands(f, log, incarnation)
  BY <1>1, HeadStands DEF FenceOn, HeadGeneration
<1>3. AnswersWith(c, a)
  BY DEF ServeHello
<1> HIDE DEF f
<1>4. a.type = "hello" /\ a.fence = f
  OBVIOUS
<1> HIDE DEF a
<1>5. Fits("answer", a, log', incarnation', shutting', drawn')
  BY <1>1, <1>2, <1>4 DEF Fits, Answering
<1> QED
  BY <1>3, <1>5 DEF Answers, AnswersWith, Place

LEMMA CommitAnswers ==
    ASSUME CoreInv, WireInv, NEW c \in Conn, NEW id \in KnownIds, NEW f \in KnownFences,
           ServeCommit(c, id, f)
    PROVE  Answers(c)
<1>1. CASE AnswersWith(c, Failed)
  BY <1>1, FailedAnswer
<1>2. ASSUME NEW w \in Actor, CommitSucceeds(id, TokenOf(c, f, w)),
             AnswersWith(c, Committed(id, f))
      PROVE  Answers(c)
  <2>1. id \in 1 .. MaxProposals /\ f \in AnyFence /\ Stands(f, log, incarnation)
    BY KnownToClients
  <2>2. CommitsTo(id)
    BY <1>2, <2>1, CommitShape
  <2>3. /\ log \in Seq(Generation) /\ incarnation \in Nat /\ Len(log) \in Nat
        /\ incarnation' = incarnation
    BY <1>2 DEF CoreInv, CoreTypes, CommitSucceeds
  <2>4. f.generation = Len(log)
    BY <1>2 DEF CommitSucceeds, Commits, StoreAdmits, TokenOf, HeadGeneration
  <2>5. Grows(log, log') /\ log' \in Seq(Generation) /\ Len(log') = Len(log) + 1
    BY <2>2, <2>3 DEF CommitsTo, Grows
  <2> DEFINE g == [generation |-> Len(log'), incarnation |-> incarnation',
                   saw |-> Docs(SubSeq(log', 1, Len(log')))]
             a == [type |-> "committed", id |-> id, fence |-> g, used |-> f]
  <2>6. Committed(id, f) = a
    BY DEF Committed, FenceOn, HeadGeneration
  <2>7. g \in AnyFence /\ Stands(g, log', incarnation')
    BY <2>3, <2>5, HeadStands
  <2>8. /\ g.generation = Len(log) + 1 /\ Len(log) + 1 \in DOMAIN log'
        /\ g.saw = Docs(SubSeq(log', 1, Len(log) + 1))
        /\ (Len(log) + 1) - 1 = Len(log)
        /\ log'[Len(log) + 1].by = id
    BY <2>2, <2>3, <2>5 DEF CommitsTo
  <2>9. f.incarnation = incarnation' => f.saw = Docs(SubSeq(log', 1, Len(log)))
    <3>1. Docs(SubSeq(log', 1, Len(log))) = Docs(SubSeq(log, 1, Len(log)))
      BY <2>3, <2>5, PrefixStays
    <3> QED
      BY <2>1, <2>3, <2>4, <3>1 DEF Stands
  <2> HIDE DEF g
  <2>10. a.type = "committed" /\ a.id = id /\ a.fence = g /\ a.used = f
    OBVIOUS
  <2> HIDE DEF a
  <2>11. Acknowledges(a, log', incarnation')
    BY <2>8, <2>9, <2>10 DEF Acknowledges
  <2>12. Fits("answer", a, log', incarnation', shutting', drawn')
    BY <2>7, <2>10, <2>11 DEF Fits, Answering
  <2> QED
    BY <1>2, <2>6, <2>12 DEF Answers, AnswersWith, Place
<1> QED
  BY <1>1, <1>2 DEF ServeCommit

LEMMA DispatchAnswers ==
    ASSUME SessionInv, NEW c \in Conn, Dispatch(c)
    PROVE  Answers(c)
<1>0. CoreInv /\ WireInv
  BY DEF SessionInv
<1>1. CASE ServeOther(c)
  <2>1. \E t \in {"read", "error"} : AnswersWith(c, Answer(t))
    BY <1>1 DEF ServeOther, Failed
  <2> QED
    BY <2>1, PlainAnswer DEF Plain
<1>2. CASE ServeHello(c)
  BY <1>0, <1>2, HelloAnswers
<1>3. CASE ProposeAdmits(c)
  <2> DEFINE a == [type |-> "proposed", id |-> drawn + 1]
  <2>1. drawn \in Nat
    BY <1>0, RuntimeAssumption DEF CoreInv, CoreTypes
  <2>3. drawn' = drawn + 1
    BY <1>3 DEF ProposeAdmits, Admit
  <2>5. a.type = "proposed" /\ a.id \in 1 .. drawn'
    BY <2>1, <2>3
  <2>4. /\ worker' = [worker EXCEPT ![c] = "validate"]
        /\ answer' = [answer EXCEPT ![c] = a]
    BY <1>3 DEF ProposeAdmits
  <2> HIDE DEF a
  <2>6. Fits("validate", a, log', incarnation', shutting', drawn')
    BY <2>5 DEF Fits, Answering
  <2> QED
    BY <2>4, <2>6 DEF Answers, Place
<1>4. CASE ProposeRefused(c)
  BY <1>4, FailedAnswer DEF ProposeRefused
<1>5. ASSUME NEW id \in KnownIds, ServeValidate(c, id)
      PROVE  Answers(c)
  BY <1>5, FailedAnswer, PlainAnswer DEF ServeValidate, Plain
<1>6. ASSUME NEW id \in KnownIds, NEW f \in KnownFences, ServeCommit(c, id, f)
      PROVE  Answers(c)
  BY <1>0, <1>6, CommitAnswers
<1>7. ASSUME NEW id \in KnownIds, ServeCancel(c, id)
      PROVE  Answers(c)
  BY <1>7, FailedAnswer, PlainAnswer DEF ServeCancel, Plain
<1>8. CASE ServeSubscribe(c)
  BY <1>8, FailedAnswer, PlainAnswer DEF ServeSubscribe, Plain
<1>9. ASSUME NEW s \in 1 .. MaxSubscriptions, ServePoll(c, s)
      PROVE  Answers(c)
  BY <1>9, FailedAnswer, PlainAnswer DEF ServePoll, Plain
<1>10. CASE ServeShutdown(c)
  <2>1. session[c].hello \in BOOLEAN
    BY <1>0 DEF WireInv, WireTypes
  <2>2. PICK a \in {Answer("stopping"), Failed} :
           /\ Parts(c, a)
           /\ a = Answer("stopping") => session[c].hello
    BY <1>10 DEF ServeShutdown, Failed, Answer
  <2>3. a.type \in {"stopping", "error"} /\ (a.type = "stopping" => session[c].hello)
    BY <2>2 DEF Failed, Answer
  <2>4. session[c].hello => shutting'
    BY <1>10, <2>1 DEF ServeShutdown
  <2>5. Fits("part", a, log', incarnation', shutting', drawn')
    BY <2>3, <2>4 DEF Fits, Answering
  <2> QED
    BY <2>2, <2>5 DEF Answers, Parts, Place
<1> QED
  BY <1>1, <1>2, <1>3, <1>4, <1>5, <1>6, <1>7, <1>8, <1>9, <1>10 DEF Dispatch

-----------------------------------------------------------------------------
(* The invariant of the wire is kept *)

LEMMA MovesKeepWireInv ==
    ASSUME WireInv, NEW c \in Conn, Answers(c),
           up /\ up',
           Grows(log, log'), incarnation' = incarnation, shutting => shutting',
           drawn \in Nat, drawn' \in Nat, drawn <= drawn',
           session' \in [Conn -> [hello : BOOLEAN, actor : Actor \cup {NoActor},
                                  epoch : Nat, incarnation : Nat]],
           memory' \in Memories(drawn),
           \A x \in Conn : Stands(memory'[x].fence, log, incarnation),
           farewell' => shutting'
    PROVE  WireInv'
<1>0. PICK w \in Place : \E a :
        /\ worker' = [worker EXCEPT ![c] = w]
        /\ answer' = [answer EXCEPT ![c] = a]
        /\ Fits(w, a, log', incarnation', shutting', drawn')
  BY DEF Answers
<1>1. PICK a :
        /\ worker' = [worker EXCEPT ![c] = w]
        /\ answer' = [answer EXCEPT ![c] = a]
        /\ Fits(w, a, log', incarnation', shutting', drawn')
  BY <1>0
<1>2. /\ worker \in [Conn -> Place] /\ DOMAIN answer = Conn
      /\ answer = [x \in Conn |-> answer[x]]
      /\ \A x \in Conn : Fits(worker[x], answer[x], log, incarnation, shutting, drawn)
  BY DEF WireInv, WireTypes
<1>3. /\ worker' \in [Conn -> Place] /\ DOMAIN answer' = Conn
      /\ worker'[c] = w
      /\ \A x \in Conn \ {c} : worker'[x] = worker[x] /\ answer'[x] = answer[x]
  BY <1>1, <1>2
<1>4. answer'[c] = a
  BY <1>1, <1>2
<1>5. ASSUME NEW x \in Conn
      PROVE  Fits(worker'[x], answer'[x], log', incarnation', shutting', drawn')
  <2>1. CASE x = c
    BY <1>1, <1>3, <1>4, <2>1
  <2>2. CASE x # c
    <3>1. Fits(worker[x], answer[x], log, incarnation, shutting, drawn)
      BY <1>2
    <3>2. Fits(worker[x], answer[x], log', incarnation, shutting', drawn')
      BY <3>1, FitsStays
    <3>3. worker'[x] = worker[x] /\ answer'[x] = answer[x]
      BY <1>3, <2>2
    <3> QED
      BY <3>2, <3>3
  <2> QED
    BY <2>1, <2>2
<1>6. \A x \in Conn : Stands(memory'[x].fence, log', incarnation')
  <2>1. \A x \in Conn : memory'[x].fence \in AnyFence
    BY DEF Memories
  <2> QED
    BY <2>1, StandsStays
<1>7. answer' = [x \in Conn |-> answer'[x]]
  BY <1>1, <1>2
<1>8. WireTypes'
  <2>1. memory' \in Memories(drawn')
    BY DEF Memories
  <2> QED
    BY <1>3, <1>7, <2>1 DEF WireTypes
<1> QED
  BY <1>5, <1>6, <1>8 DEF WireInv

SessionTypes ==
    [Conn -> [hello : BOOLEAN, actor : Actor \cup {NoActor}, epoch : Nat, incarnation : Nat]]

LEMMA NoSessionType ==
    ASSUME session \in SessionTypes, NEW c \in Conn
    PROVE  [session EXCEPT ![c] = NoSession] \in SessionTypes
BY DEF SessionTypes, NoSession

LEMMA DispatchKeepsWireInv ==
    ASSUME SessionInv, NEW c \in Conn, Dispatch(c)
    PROVE  WireInv'
<1>1. /\ CoreInv /\ WireInv /\ CoreStep /\ (shutting => shutting')
      /\ up /\ UNCHANGED <<up, incarnation, memory, stopping, farewell>>
  BY DispatchSteps DEF SessionInv
<1>2. Grows(log, log')
  BY <1>1, CoreStepGrows DEF Reopen
<1>3. session' \in SessionTypes
  <2>1. session \in SessionTypes
    BY <1>1 DEF WireInv, WireTypes, SessionTypes
  <2>2. CASE UNCHANGED session
    BY <2>1, <2>2
  <2>3. CASE ServeHello(c)
    <3>1. epoch \in Nat /\ incarnation \in Nat
      BY <1>1 DEF CoreInv, CoreTypes
    <3>2. PICK a \in Actor :
            session' = [session EXCEPT ![c] =
                          [hello |-> TRUE, actor |-> a, epoch |-> epoch,
                           incarnation |-> incarnation]]
      BY <2>3 DEF ServeHello
    <3> QED
      BY <2>1, <3>1, <3>2 DEF SessionTypes
  <2> QED
    BY <2>2, <2>3
    DEF Dispatch, ServeOther, ProposeAdmits, ProposeRefused, ServeValidate, ServeCommit,
        ServeCancel, ServeSubscribe, ServePoll, ServeShutdown
<1>d. drawn \in Nat /\ drawn' \in Nat /\ drawn <= drawn'
  BY <1>1, DrawnGrows
<1>4. Answers(c)
  BY DispatchAnswers
<1>5. /\ memory' \in Memories(drawn)
      /\ \A x \in Conn : Stands(memory'[x].fence, log, incarnation)
      /\ farewell' => shutting'
  BY <1>1 DEF WireInv, WireTypes
<1> QED
  BY <1>1, <1>2, <1>3, <1>d, <1>4, <1>5, MovesKeepWireInv DEF SessionTypes

(* A step of the session alone: the runtime stays, and the worker moves on *)
(* without an answer.                                                      *)
LEMMA EmptyHandedKeepsWireInv ==
    ASSUME SessionInv, NEW c \in Conn, NEW w \in Place \ Answering, up, UNCHANGED vars,
           worker' = [worker EXCEPT ![c] = w],
           answer' = [answer EXCEPT ![c] = NoAnswer],
           session' \in SessionTypes,
           memory' \in Memories(drawn),
           \A x \in Conn : Stands(memory'[x].fence, log, incarnation),
           farewell' => shutting
    PROVE  CoreStep /\ FeedStep /\ WireInv'
<1>1. CoreInv /\ WireInv /\ CoreTypes
  BY DEF SessionInv, CoreInv
<1>2. UNCHANGED <<log, up, epoch, incarnation, shutting, table, feed, cancelled>>
  BY DEF vars, store
<1>3. CoreStep /\ FeedStep
  BY <1>1, <1>2, RuntimeStays DEF runtime
<1>4. Fits(w, NoAnswer, log', incarnation', shutting', drawn')
  BY DEF Fits, Answering
<1>5. Answers(c)
  BY <1>4 DEF Answers
<1>6. Grows(log, log') /\ drawn \in Nat /\ drawn' \in Nat /\ drawn <= drawn'
  BY <1>1, <1>2, <1>3, DrawnGrows DEF Grows, CoreTypes
<1> QED
  BY <1>1, <1>2, <1>3, <1>5, <1>6, MovesKeepWireInv DEF SessionTypes

LEMMA SendKeepsWireInv ==
    ASSUME SessionInv, NEW c \in Conn, Send(c)
    PROVE  CoreStep /\ FeedStep /\ WireInv'
<1> DEFINE a == answer[c]
           m == memory[c]
<1>1. /\ WireInv /\ up /\ worker[c] \in Answering
      /\ Fits(worker[c], a, log, incarnation, shutting, drawn)
  BY DEF SessionInv, WireInv, Send, Answering
<1>2. m \in [fence : AnyFence, id : 0 .. drawn] /\ Stands(m.fence, log, incarnation)
  BY <1>1 DEF WireInv, WireTypes, Memories
<1>3. drawn \in Nat
  BY RuntimeAssumption DEF SessionInv, CoreInv, CoreTypes
<1>4. /\ Learns(m, a) \in [fence : AnyFence, id : 0 .. drawn]
      /\ Stands(Learns(m, a).fence, log, incarnation)
  <2>1. /\ a.type \in {"hello", "committed"} =>
             a.fence \in AnyFence /\ Stands(a.fence, log, incarnation)
        /\ a.type = "proposed" => a.id \in 0 .. drawn
    BY <1>1, <1>3 DEF Fits
  <2>2. m.fence \in AnyFence /\ m.id \in 0 .. drawn
    BY <1>2
  <2> HIDE DEF a, m
  <2>3. /\ Learns(m, a).fence = IF a.type \in {"hello", "committed"} THEN a.fence ELSE m.fence
        /\ Learns(m, a).id = IF a.type = "proposed" THEN a.id ELSE m.id
        /\ Learns(m, a) = [fence |-> Learns(m, a).fence, id |-> Learns(m, a).id]
    BY DEF Learns
  <2>4. Learns(m, a).fence \in AnyFence /\ Stands(Learns(m, a).fence, log, incarnation)
    BY <1>2, <2>1, <2>2, <2>3
  <2>5. Learns(m, a).id \in 0 .. drawn
    BY <2>1, <2>2, <2>3
  <2> QED
    BY <2>3, <2>4, <2>5
<1>5. memory' = [memory EXCEPT ![c] = Learns(m, a)]
  BY DEF Send
<1>6. /\ memory' \in Memories(drawn)
      /\ \A x \in Conn : Stands(memory'[x].fence, log, incarnation)
  <2>1. /\ memory \in Memories(drawn)
        /\ \A x \in Conn : Stands(memory[x].fence, log, incarnation)
    BY <1>1 DEF WireInv, WireTypes
  <2> HIDE DEF a, m
  <2> QED
    BY <1>4, <1>5, <2>1 DEF Memories
<1>7. farewell' => shutting
  BY <1>1 DEF Send, Fits, WireInv
<1>8. session' \in SessionTypes
  BY <1>1 DEF Send, WireInv, WireTypes, SessionTypes
<1>9. /\ worker' = [worker EXCEPT ![c] = NextFor(c)] /\ NextFor(c) \in Place \ Answering
      /\ answer' = [answer EXCEPT ![c] = NoAnswer] /\ UNCHANGED vars
  BY DEF Send, NextFor, Place, Answering
<1> HIDE DEF a, m
<1> QED
  BY <1>1, <1>6, <1>7, <1>8, <1>9, EmptyHandedKeepsWireInv

LEMMA EndingKeepsWireInv ==
    ASSUME SessionInv, NEW c \in Conn,
           SendFails(c) \/ ReceiveEnds(c) \/ RequestStop(c)
    PROVE  CoreStep /\ FeedStep /\ WireInv'
<1>1. /\ up /\ Ends(c) /\ UNCHANGED <<vars, memory, farewell>>
  BY DEF SendFails, ReceiveEnds, RequestStop, Ready
<1>2. WireInv /\ session \in SessionTypes
  BY DEF SessionInv, WireInv, WireTypes, SessionTypes
<1>3. session' \in SessionTypes
  BY <1>1, <1>2, NoSessionType DEF Ends
<1>4. /\ memory' \in Memories(drawn)
      /\ \A x \in Conn : Stands(memory'[x].fence, log, incarnation)
      /\ farewell' => shutting
  BY <1>1, <1>2 DEF WireInv, WireTypes
<1>5. "none" \in Place \ Answering
  BY DEF Place, Answering
<1> QED
  BY <1>1, <1>3, <1>4, <1>5, EmptyHandedKeepsWireInv DEF Ends

LEMMA ConnectKeepsWireInv ==
    ASSUME SessionInv, NEW c \in Conn, Connect(c)
    PROVE  CoreStep /\ FeedStep /\ WireInv'
<1>1. /\ up /\ UNCHANGED <<vars, session, answer, memory, farewell>>
      /\ worker[c] = "none" /\ worker' = [worker EXCEPT ![c] = "receive"]
  BY DEF Connect
<1>2. /\ WireInv /\ session' \in SessionTypes /\ DOMAIN answer = Conn
      /\ Fits(worker[c], answer[c], log, incarnation, shutting, drawn)
  BY <1>1 DEF SessionInv, WireInv, WireTypes, SessionTypes
<1>3. answer[c] = NoAnswer
  BY <1>1, <1>2 DEF Fits, Answering
<1>4. answer' = [answer EXCEPT ![c] = NoAnswer]
  <2>1. answer = [x \in Conn |-> answer[x]]
    BY <1>2 DEF WireInv, WireTypes
  <2>2. [answer EXCEPT ![c] = NoAnswer] = [x \in Conn |-> answer[x]]
    BY <1>3, <2>1
  <2> QED
    BY <1>1, <2>1, <2>2
<1>5. /\ memory' \in Memories(drawn)
      /\ \A x \in Conn : Stands(memory'[x].fence, log, incarnation)
      /\ farewell' => shutting
  BY <1>1, <1>2 DEF WireInv, WireTypes
<1>6. "receive" \in Place \ Answering
  BY DEF Place, Answering
<1> QED
  BY <1>1, <1>2, <1>4, <1>5, <1>6, EmptyHandedKeepsWireInv

LEMMA ValidationKeepsWireInv ==
    ASSUME SessionInv, NEW c \in Conn, ProposeValidates(c)
    PROVE  CoreStep /\ FeedStep /\ WireInv'
<1> DEFINE a == answer[c]
<1>1. /\ CoreInv /\ WireInv /\ CoreTypes /\ up /\ worker[c] = "validate"
      /\ UNCHANGED <<up, epoch, incarnation, session, memory, farewell>>
  BY DEF SessionInv, CoreInv, ProposeValidates, around
<1>2. Fits(worker[c], a, log, incarnation, shutting, drawn)
  BY <1>1 DEF WireInv
<1>3. a.type = "proposed" /\ a.id \in 1 .. drawn
  BY <1>1, <1>2 DEF Fits, Answering
<1>4. Reports(a.id) \/ ReportsAgain(a.id) \/ GivesNoReport(a.id)
  BY DEF ProposeValidates
<1>5. AnswersWith(c, a) \/ AnswersWith(c, Failed)
  BY DEF ProposeValidates
<1> HIDE DEF a
<1>m. a.id \in 1 .. MaxProposals
  BY <1>1, <1>3, RuntimeAssumption DEF CoreTypes
<1>6. CoreStep /\ FeedStep
  BY <1>1, <1>m, <1>4, ReportSteps
<1>d. drawn \in Nat /\ drawn' \in Nat /\ drawn <= drawn' /\ a.id \in 1 .. drawn'
  BY <1>1, <1>3, <1>6, DrawnGrows
<1>7. Grows(log, log')
  BY <1>1, <1>6, CoreStepGrows DEF Reopen
<1>8. shutting' = shutting
  BY <1>4 DEF Reports, ReportsAgain, GivesNoReport, ValidateFound, runtime, store
<1>9. Answers(c)
  <2>1. Fits("answer", a, log', incarnation', shutting', drawn')
    BY <1>3, <1>d DEF Fits, Answering
  <2>2. CASE AnswersWith(c, a)
    BY <2>1, <2>2 DEF Answers, AnswersWith, Place
  <2> QED
    BY <1>5, <2>2, FailedAnswer
<1>10. /\ session' \in SessionTypes
       /\ memory' \in Memories(drawn)
       /\ \A x \in Conn : Stands(memory'[x].fence, log, incarnation)
       /\ farewell' => shutting'
  BY <1>1, <1>8 DEF WireInv, WireTypes, SessionTypes
<1> QED
  BY <1>1, <1>d, <1>6, <1>7, <1>8, <1>9, <1>10, MovesKeepWireInv DEF SessionTypes

LEMMA ProcessEndsKeepsWireInv ==
    ASSUME SessionInv, ProcessEnds
    PROVE  CoreStep /\ FeedStep /\ WireInv'
<1>1. /\ WireInv /\ Crash /\ UNCHANGED <<log, incarnation, memory, drawn>>
      /\ up' = FALSE /\ farewell' = FALSE
      /\ worker' = [x \in Conn |-> "none"]
      /\ session' = [x \in Conn |-> NoSession]
      /\ answer' = [x \in Conn |-> NoAnswer]
  BY DEF SessionInv, ProcessEnds, Crash
<1>2. CoreStep /\ FeedStep
  BY <1>1 DEF CoreStep, FeedStep
<1>3. WireTypes'
  <2>1. worker' \in [Conn -> Place]
    BY <1>1 DEF Place
  <2>2. session' \in SessionTypes
    BY <1>1 DEF SessionTypes, NoSession
  <2>3. answer' = [x \in Conn |-> answer'[x]]
    BY <1>1
  <2>4. memory' \in Memories(drawn')
    BY <1>1 DEF WireInv, WireTypes
  <2> QED
    BY <2>1, <2>2, <2>3, <2>4 DEF WireTypes, SessionTypes
<1>4. \A x \in Conn : Fits(worker'[x], answer'[x], log', incarnation', shutting', drawn')
  BY <1>1 DEF Fits, Answering
<1>5. \A x \in Conn : Stands(memory'[x].fence, log', incarnation')
  BY <1>1 DEF WireInv
<1>6. \A x \in Conn : worker'[x] = "none"
  BY <1>1
<1> QED
  BY <1>1, <1>2, <1>3, <1>4, <1>5, <1>6 DEF WireInv

LEMMA ProcessStartsKeepsWireInv ==
    ASSUME SessionInv, ProcessStarts
    PROVE  CoreStep /\ FeedStep /\ WireInv'
<1>1. /\ WireInv /\ Reopen /\ ~ up /\ up' /\ incarnation \in Nat
      /\ incarnation' = incarnation + 1
      /\ UNCHANGED <<worker, session, answer, memory, farewell, drawn>>
  BY DEF SessionInv, CoreInv, CoreTypes, ProcessStarts, Reopen, wire, table
<1>2. CoreStep /\ FeedStep
  BY <1>1 DEF CoreStep, FeedStep
<1>3. WireTypes'
  BY <1>1 DEF WireInv, WireTypes
<1>4. \A x \in Conn : Fits(worker'[x], answer'[x], log', incarnation', shutting', drawn')
  <2>1. ASSUME NEW x \in Conn
        PROVE  Fits(worker[x], answer[x], log', incarnation', shutting', drawn')
    <3>1. /\ worker[x] = "none"
          /\ Fits(worker[x], answer[x], log, incarnation, shutting, drawn)
      BY <1>1 DEF WireInv
    <3> QED
      BY <3>1 DEF Fits, Answering
  <2> QED
    BY <1>1, <2>1
<1>5. \A x \in Conn : Stands(memory'[x].fence, log', incarnation')
  <2>1. ASSUME NEW f \in AnyFence, Stands(f, log, incarnation)
        PROVE  Stands(f, log', incarnation')
    <3>1. f.incarnation \in Nat /\ f.incarnation <= incarnation
      BY <2>1 DEF Stands, AnyFence
    <3>2. f.incarnation <= incarnation' /\ f.incarnation # incarnation'
      BY <1>1, <3>1
    <3> QED
      BY <3>2 DEF Stands
  <2>2. \A x \in Conn : memory[x].fence \in AnyFence
    BY <1>1 DEF WireInv, WireTypes, Memories
  <2>3. \A x \in Conn : Stands(memory[x].fence, log, incarnation)
    BY <1>1 DEF WireInv
  <2> QED
    BY <1>1, <2>1, <2>2, <2>3
<1>6. ~ farewell'
  BY <1>1 DEF WireInv
<1> QED
  BY <1>1, <1>2, <1>3, <1>4, <1>5, <1>6 DEF WireInv

-----------------------------------------------------------------------------
(* A session is a client of the runtime *)

LEMMA CoreStepKeepsClockInv ==
    ASSUME CoreInv, ClockInv, CoreStep
    PROVE  ClockInv'
<1>1. /\ log \in Seq(Generation) /\ Len(log) \in Nat /\ DOMAIN log = 1 .. Len(log)
      /\ epoch \in Nat /\ incarnation \in Nat /\ MaxIncarnation \in Nat
  BY RuntimeAssumption DEF CoreInv, CoreTypes
<1>2. CASE UNCHANGED <<log, up, epoch, incarnation>>
  BY <1>2 DEF ClockInv
<1>3. ASSUME NEW id \in 1 .. MaxProposals, NEW t, CommitSucceeds(id, t)
      PROVE  ClockInv'
  <2>1. CommitsTo(id) /\ up /\ UNCHANGED <<up, epoch, incarnation>>
    BY <1>3, CommitShape DEF CommitSucceeds, Admitting
  <2>2. /\ log' \in Seq(Generation) /\ Len(log') = Len(log) + 1
        /\ \A i \in 1 .. Len(log) : log'[i] = log[i]
    BY <2>1 DEF CommitsTo
  <2>3. log'[Len(log) + 1].epoch = epoch
    BY <1>1, <1>3 DEF CommitSucceeds
  <2>4. DOMAIN log' = 1 .. Len(log) + 1
    BY <2>2
  <2>5. epoch <= incarnation /\ \A i \in 1 .. Len(log) : log[i].epoch <= incarnation
    BY <1>1, <2>1 DEF ClockInv
  <2>6. \A i \in DOMAIN log' : log'[i].epoch <= incarnation
    <3>1. ASSUME NEW i \in 1 .. Len(log) + 1
          PROVE  i \in 1 .. Len(log) \/ i = Len(log) + 1
      BY <1>1
    <3> QED
      BY <2>2, <2>3, <2>4, <2>5, <3>1
  <2> QED
    BY <2>1, <2>6 DEF ClockInv
<1>4. CASE (RefuseAtLimit \/ RefuseDomain) /\ CoreRest
  BY <1>2, <1>4 DEF CoreRest, store
<1>5. CASE \E a \in Actor, d \in Doc, oversized \in BOOLEAN : Admit(a, d, oversized) /\ CoreRest
  BY <1>2, <1>5 DEF CoreRest, store
<1>6. CASE \E id \in 1 .. MaxProposals : ValidateFound(id) \/ CommitRejects(id) \/ Cancel(id)
  BY <1>2, <1>6 DEF ValidateFound, CommitRejects, Cancel, store
<1>7. CASE Crash
  BY <1>7 DEF Crash, ClockInv
<1>8. CASE Reopen
  <2>1. /\ incarnation < MaxIncarnation /\ incarnation' = incarnation + 1
        /\ incarnation >= 1 /\ \A i \in DOMAIN log : log[i].epoch <= incarnation
    BY <1>8 DEF Reopen, ClockInv
  <2>2. PICK n \in 0 .. Len(log) :
          /\ log' = SubSeq(log, 1, n)
          /\ epoch' = IF n = 0 THEN 1 ELSE log[n].epoch + 1
    BY <1>8 DEF Reopen
  <2>3. /\ DOMAIN log' = 1 .. n /\ \A i \in 1 .. n : log'[i] = log[i]
        /\ \A i \in 1 .. n : i \in DOMAIN log
    <3>1. /\ DOMAIN SubSeq(log, 1, n) = 1 .. n
          /\ \A i \in 1 .. n : SubSeq(log, 1, n)[i] = log[i]
      BY <1>1, DocsOfPrefix
    <3> QED
      BY <1>1, <2>2, <3>1
  <2>4. \A i \in 1 .. n : log[i].epoch \in Nat
    <3>1. \A i \in 1 .. n : log[i] \in Generation
      BY <1>1, <2>3
    <3> QED
      BY <3>1 DEF Generation
  <2>5. \A i \in DOMAIN log' : log'[i].epoch <= incarnation'
    <3>1. ASSUME NEW i \in 1 .. n
          PROVE  log[i].epoch <= incarnation + 1
      BY <1>1, <2>1, <2>3, <2>4
    <3> QED
      BY <2>1, <2>3, <3>1
  <2>6. epoch' \in 1 .. incarnation'
    <3>1. CASE n = 0
      BY <1>1, <2>1, <2>2, <3>1
    <3>2. CASE n # 0
      <4>1. n \in 1 .. n
        BY <3>2
      <4>2. log[n].epoch \in Nat /\ log[n].epoch <= incarnation /\ epoch' = log[n].epoch + 1
        BY <2>1, <2>2, <2>3, <2>4, <3>2, <4>1
      <4> QED
        BY <1>1, <2>1, <4>2
    <3> QED
      BY <3>1, <3>2
  <2>7. incarnation' \in 1 .. MaxIncarnation
    BY <1>1, <2>1
  <2> QED
    BY <2>5, <2>6, <2>7 DEF ClockInv
<1> QED
  BY <1>2, <1>3, <1>4, <1>5, <1>6, <1>7, <1>8 DEF CoreStep

(* The token a request makes up, once the store admits it, is one that a   *)
(* client of the runtime could hold.                                       *)
LEMMA TokenHeld ==
    ASSUME CoreInv, ClockInv, up, NEW c, NEW f, NEW a \in Actor, NEW id,
           CommitSucceeds(id, TokenOf(c, f, a))
    PROVE  TokenOf(c, f, a) \in Held
<1> DEFINE t == TokenOf(c, f, a)
<1>1. /\ t.generation = Len(log) /\ t.epoch = epoch /\ t.incarnation = incarnation
      /\ Len(log) < MaxGeneration
  BY DEF CommitSucceeds, Commits, StoreAdmits, HeadGeneration
<1>2. t = [generation |-> t.generation, epoch |-> t.epoch,
           incarnation |-> t.incarnation, writer |-> a]
  BY DEF TokenOf
<1>3. /\ Len(log) \in Nat /\ MaxGeneration \in Nat /\ MaxIncarnation \in Nat
      /\ incarnation \in 1 .. MaxIncarnation /\ epoch \in 1 .. incarnation
  BY RuntimeAssumption DEF CoreInv, CoreTypes, ClockInv
<1>4. /\ Len(log) \in 0 .. MaxGeneration /\ epoch \in 1 .. MaxIncarnation
      /\ incarnation <= incarnation /\ epoch <= incarnation
  BY <1>1, <1>3
<1> HIDE DEF t
<1>5. t = [generation |-> Len(log), epoch |-> epoch,
           incarnation |-> incarnation, writer |-> a]
  BY <1>1, <1>2
<1>6. t \in Held
  BY <1>3, <1>4, <1>5 DEF Held, Token
<1> QED
  BY <1>6 DEF t

LEMMA ReportIsAStep ==
    ASSUME NEW id \in 1 .. drawn, UNCHANGED <<up, epoch, incarnation, calls>>,
           Reports(id) \/ ReportsAgain(id) \/ GivesNoReport(id)
    PROVE  [Next]_vars
<1>1. CASE ValidateFound(id)
  BY <1>1 DEF Next, Validate
<1>2. CASE UNCHANGED runtime
  BY <1>2 DEF runtime, vars, store
<1> QED
  BY <1>1, <1>2 DEF Reports, ReportsAgain, GivesNoReport

LEMMA DispatchIsAStep ==
    ASSUME SessionInv, NEW c \in Conn, Dispatch(c)
    PROVE  [Next]_vars
<1>0. /\ CoreInv /\ CoreTypes /\ ClockInv /\ WireInv /\ up
      /\ UNCHANGED <<up, epoch, incarnation, calls>>
  BY DEF SessionInv, CoreInv, Dispatch, ServeOther, ServeHello, ProposeAdmits,
         ProposeRefused, ServeValidate, ServeCommit, ServeCancel, ServeSubscribe, ServePoll,
         ServeShutdown, around, Bound, Ready
<1>s. ASSUME UNCHANGED runtime
      PROVE  [Next]_vars
  BY <1>0, <1>s DEF runtime, vars, store
<1>1. CASE ServeOther(c) \/ ServeHello(c)
  BY <1>s, <1>1 DEF ServeOther, ServeHello
<1>2. CASE ProposeAdmits(c)
  <2>1. PICK d \in Doc, oversized \in BOOLEAN : Admit(session[c].actor, d, oversized)
    BY <1>2 DEF ProposeAdmits
  <2>2. session[c].actor \in Actor
    BY <1>0, <2>1 DEF Admit, WireInv, WireTypes
  <2>3. UNCHANGED <<store, calls, feed, cancelled>>
    BY <1>2 DEF ProposeAdmits, around, store
  <2> QED
    BY <2>1, <2>2, <2>3 DEF Next, Propose
<1>3. CASE ProposeRefused(c)
  <2>1. UNCHANGED <<store, calls, feed, cancelled>>
    BY <1>3 DEF ProposeRefused, around, store
  <2>2. CASE UNCHANGED table
    BY <2>1, <2>2 DEF vars
  <2>3. CASE RefuseAtLimit \/ RefuseDomain
    BY <2>1, <2>3 DEF Next, Propose
  <2> QED
    BY <1>3, <2>2, <2>3 DEF ProposeRefused
<1>4. ASSUME NEW id \in KnownIds, ServeValidate(c, id)
      PROVE  [Next]_vars
  <2>1. id \in 1 .. drawn
    BY <1>0, KnownToClients
  <2>2. Reports(id) \/ ReportsAgain(id) \/ GivesNoReport(id)
    BY <1>4 DEF ServeValidate
  <2> QED
    BY <1>0, <2>1, <2>2, ReportIsAStep
<1>5. ASSUME NEW id \in KnownIds, NEW f \in KnownFences, ServeCommit(c, id, f)
      PROVE  [Next]_vars
  <2>1. id \in 1 .. drawn
    BY <1>0, KnownToClients
  <2>2. ASSUME NEW a \in Actor, CommitSucceeds(id, TokenOf(c, f, a))
        PROVE  Next
    <3>1. TokenOf(c, f, a) \in Held
      BY <1>0, <2>2, TokenHeld
    <3> QED
      BY <1>0, <2>1, <2>2, <3>1 DEF Next, Commit
  <2>3. CASE CommitRejects(id)
    BY <1>0, <2>1, <2>3 DEF Next, Commit
  <2> QED
    BY <1>s, <1>5, <2>2, <2>3 DEF ServeCommit
<1>6. ASSUME NEW id \in KnownIds, ServeCancel(c, id)
      PROVE  [Next]_vars
  <2>1. id \in 1 .. drawn
    BY <1>0, KnownToClients
  <2> QED
    BY <1>s, <1>6, <2>1 DEF ServeCancel, Next
<1>7. CASE ServeSubscribe(c)
  BY <1>s, <1>7 DEF ServeSubscribe, Next
<1>8. ASSUME NEW s \in 1 .. MaxSubscriptions, ServePoll(c, s)
      PROVE  [Next]_vars
  BY <1>s, <1>8 DEF ServePoll, Next
<1>9. CASE ServeShutdown(c)
  <2>1. /\ shutting' = (shutting \/ session[c].hello)
        /\ UNCHANGED <<log, table, feed, cancelled>>
    BY <1>9 DEF ServeShutdown
  <2>2. session[c].hello \in BOOLEAN /\ shutting \in BOOLEAN
    BY <1>0 DEF WireInv, WireTypes, CoreTypes
  <2>3. CASE shutting \/ ~ session[c].hello
    <3>1. shutting' = shutting
      BY <2>1, <2>2, <2>3
    <3> QED
      BY <1>s, <2>1, <3>1 DEF runtime
  <2>4. CASE ~ shutting /\ session[c].hello
    <3>1. shutting' = TRUE
      BY <2>1, <2>4
    <3>2. RequestShutdown
      BY <1>0, <2>1, <2>4, <3>1 DEF RequestShutdown
    <3> QED
      BY <3>2 DEF Next
  <2> QED
    BY <2>3, <2>4
<1> QED
  BY <1>1, <1>2, <1>3, <1>4, <1>5, <1>6, <1>7, <1>8, <1>9 DEF Dispatch

LEMMA SessionStepIsAStep ==
    ASSUME SessionInv, [SessionNext]_sessionVars
    PROVE  [Next]_vars
<1>1. ASSUME NEW c \in Conn, Connect(c) \/ Send(c) \/ SendFails(c) \/ ReceiveEnds(c) \/ RequestStop(c)
      PROVE  UNCHANGED vars
  BY <1>1 DEF Connect, Send, SendFails, ReceiveEnds, RequestStop
<1>2. ASSUME NEW c \in Conn, ProposeValidates(c)
      PROVE  [Next]_vars
  <2> DEFINE a == answer[c]
  <2>1. /\ WireInv /\ worker[c] = "validate"
        /\ UNCHANGED <<up, epoch, incarnation, calls>>
        /\ Reports(a.id) \/ ReportsAgain(a.id) \/ GivesNoReport(a.id)
    BY <1>2 DEF SessionInv, ProposeValidates, around
  <2>2. Fits(worker[c], a, log, incarnation, shutting, drawn)
    BY <2>1 DEF WireInv
  <2>3. a.id \in 1 .. drawn
    BY <2>1, <2>2 DEF Fits, Answering
  <2> HIDE DEF a
  <2> QED
    BY <2>1, <2>3, ReportIsAStep
<1>3. CASE ProcessEnds
  BY <1>3 DEF ProcessEnds, Next
<1>4. CASE ProcessStarts
  BY <1>4 DEF ProcessStarts, Next
<1>5. CASE UNCHANGED sessionVars
  BY <1>5 DEF sessionVars
<1> QED
  BY <1>1, <1>2, <1>3, <1>4, <1>5, DispatchIsAStep DEF SessionNext, GoOn

-----------------------------------------------------------------------------
(* Theorems *)

LEMMA InitSessionInv ==
    ASSUME SessionInit
    PROVE  SessionInv
<1>1. CoreInv /\ FeedInv
  BY InitCoreInv, InitFeedInv DEF SessionInit
<1>2. /\ log = <<>> /\ up = TRUE /\ epoch = 1 /\ incarnation = 1 /\ drawn = 0
      /\ worker = [x \in Conn |-> "none"]
      /\ session = [x \in Conn |-> NoSession]
      /\ answer = [x \in Conn |-> NoAnswer]
      /\ memory = [x \in Conn |->
                     [fence |-> [generation |-> 0, incarnation |-> 0, saw |-> <<>>],
                      id |-> 0]]
      /\ farewell = FALSE
  BY DEF SessionInit, Init, NoId
<1>3. ClockInv
  <2>1. MaxIncarnation \in Nat /\ MaxIncarnation > 0
    BY RuntimeAssumption, SessionAssumption
  <2>2. incarnation \in 1 .. MaxIncarnation /\ epoch \in 1 .. incarnation
    BY <1>2, <2>1
  <2> QED
    BY <1>2, <2>2 DEF ClockInv
<1>4. WireTypes
  <2>1. worker \in [Conn -> Place] /\ answer = [x \in Conn |-> answer[x]]
    BY <1>2 DEF Place
  <2>2. session \in SessionTypes
    BY <1>2 DEF SessionTypes, NoSession
  <2>3. [generation |-> 0, incarnation |-> 0, saw |-> <<>>] \in AnyFence
    BY DEF AnyFence
  <2>4. memory \in Memories(drawn)
    BY <1>2, <2>3 DEF Memories
  <2> QED
    BY <2>1, <2>2, <2>4 DEF WireTypes, SessionTypes
<1>5. \A x \in Conn : Fits(worker[x], answer[x], log, incarnation, shutting, drawn)
  BY <1>2 DEF Fits, Answering
<1>6. \A x \in Conn : Stands(memory[x].fence, log, incarnation)
  BY <1>2 DEF Stands
<1> QED
  BY <1>1, <1>2, <1>3, <1>4, <1>5, <1>6 DEF SessionInv, WireInv

LEMMA SessionStepKeepsInv ==
    ASSUME SessionInv, [SessionNext]_sessionVars
    PROVE  CoreStep /\ SessionInv'
<1>0. CoreInv /\ FeedInv /\ ClockInv /\ WireInv /\ CoreTypes
  BY DEF SessionInv, CoreInv
<1>1. CoreStep /\ FeedStep /\ WireInv'
  <2>1. ASSUME NEW c \in Conn, Dispatch(c)
        PROVE  CoreStep /\ FeedStep /\ WireInv'
    BY <2>1, DispatchSteps, DispatchKeepsWireInv
  <2>2. ASSUME NEW c \in Conn, Connect(c) \/ GoOn(c) \/ ReceiveEnds(c)
        PROVE  CoreStep /\ FeedStep /\ WireInv'
    BY <2>2, ConnectKeepsWireInv, ValidationKeepsWireInv, SendKeepsWireInv,
       EndingKeepsWireInv DEF GoOn
  <2>3. CASE ProcessEnds \/ ProcessStarts
    BY <2>3, ProcessEndsKeepsWireInv, ProcessStartsKeepsWireInv
  <2>4. CASE UNCHANGED sessionVars
    <3>1. UNCHANGED <<log, up, epoch, incarnation, shutting, table, feed, cancelled>>
      BY <2>4 DEF sessionVars, vars, store
    <3>2. CoreStep /\ FeedStep
      BY <1>0, <3>1, RuntimeStays DEF runtime
    <3>3. UNCHANGED <<worker, session, answer, memory, farewell, drawn>>
      BY <2>4 DEF sessionVars, wire, vars, table
    <3>4. WireInv'
      BY <1>0, <3>1, <3>3 DEF WireInv, WireTypes
    <3> QED
      BY <3>2, <3>4
  <2> QED
    BY <2>1, <2>2, <2>3, <2>4 DEF SessionNext
<1>2. CoreInv' /\ FeedInv' /\ ClockInv'
  BY <1>0, <1>1, CoreStepKeepsCoreInv, FeedStepKeepsFeedInv, CoreStepKeepsClockInv
<1> QED
  BY <1>1, <1>2 DEF SessionInv

(* The inductive invariant holds of every behaviour of the sessions.       *)
THEOREM SessionInvariant == SessionSpec => []SessionInv
<1>1. SessionInit => SessionInv
  BY InitSessionInv
<1>2. SessionInv /\ [SessionNext]_sessionVars => SessionInv'
  BY SessionStepKeepsInv
<1> QED
  BY <1>1, <1>2, PTL DEF SessionSpec

(* Whatever clients send, on whichever connections, retried or not, the    *)
(* runtime behind them behaves as IntentRuntime says: so every theorem     *)
(* about Spec is one about a served runtime.                               *)
THEOREM SessionsAreClients == SessionSpec => Spec
<1>1. SessionInit => Init
  BY DEF SessionInit
<1>2. SessionInv /\ [SessionNext]_sessionVars => [Next]_vars
  BY SessionStepIsAStep
<1> QED
  BY <1>1, <1>2, SessionInvariant, PTL DEF SessionSpec, Spec

(* What a client is told was committed is in the log, for its proposal and *)
(* under the number it is told.                                            *)
THEOREM AcknowledgedIsCommitted == SessionSpec => []AckedIsCommitted
<1>1. SessionInv => AckedIsCommitted
  BY DEF SessionInv, WireInv, Fits, Acknowledges, AckedIsCommitted, Acked
<1> QED
  BY <1>1, SessionInvariant, PTL

(* A commit builds on the generations that the fence it was sent with      *)
(* stands for, and so no fence carries two commits.                        *)
THEOREM CommitsBuildOnFences == SessionSpec => []BuildsOnWhatItSaw
<1>1. SessionInv => BuildsOnWhatItSaw
  BY DEF SessionInv, WireInv, Fits, Acknowledges, BuildsOnWhatItSaw, Acked
<1> QED
  BY <1>1, SessionInvariant, PTL

(* Nothing is committed or proposed once a shutdown request was answered.  *)
THEOREM FarewellIsFinal == SessionSpec => NothingAfterFarewell
<1>1. ASSUME SessionInv, [SessionNext]_sessionVars
      PROVE  [farewell /\ farewell' => UNCHANGED <<log, drawn>>]_sessionVars
  <2>1. ASSUME farewell
        PROVE  UNCHANGED <<log, drawn>>
    <3>1. shutting /\ up
      BY <1>1, <2>1 DEF SessionInv, WireInv
    <3>2. CoreStep
      BY <1>1, SessionStepKeepsInv
    <3> QED
      BY <3>1, <3>2
      DEF CoreStep, CoreRest, RefuseAtLimit, RefuseDomain, Admit, ValidateFound, CommitRejects,
          CommitSucceeds, Cancel, Crash, Reopen, Admitting, store, table
  <2> QED
    BY <2>1
<1> QED
  BY <1>1, SessionInvariant, PTL DEF SessionSpec, NothingAfterFarewell
=============================================================================
