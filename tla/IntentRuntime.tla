--------------------------- MODULE IntentRuntime ---------------------------
(***************************************************************************)
(* The transaction runtime over one store (src/runtime.cpp): the table of  *)
(* proposals and its identity index, the stages propose, validate and      *)
(* commit with their fences, cancellation, retirement of old proposals,    *)
(* subscriptions with bounded queues, and shutdown.                        *)
(*                                                                         *)
(* One mutex makes every operation one step.  submit is three of them: it  *)
(* lets the mutex go between its stages.  All of this is memory: it is     *)
(* gone when the process ends, and of the store only what IntentStore      *)
(* implements, IntentLog, is assumed.                                      *)
(***************************************************************************)
EXTENDS Naturals, Sequences, FiniteSets

CONSTANTS
    Actor,
    NoActor,
    Doc,             \* documents that canonicalize, by content
    Valid,           \* those of them that validate_document passes
    Client,          \* threads that call submit
    MaxPending,      \* Options::max_pending_proposals
    MaxSubscribers,  \* Options::max_subscribers
    MaxQueue,        \* Options::subscriber_queue
    RejectEmptyDiff, \* Options::reject_empty_diff
    MaxProposals,    \* bound: proposal identities drawn
    MaxGeneration,   \* bound: generations committed
    MaxIncarnation,  \* bound: how often the runtime is opened
    MaxSubscriptions \* bound: subscriptions made by one process

ASSUME RuntimeAssumption ==
    /\ NoActor \notin Actor
    /\ Valid \subseteq Doc
    /\ {MaxPending, MaxSubscribers, MaxQueue} \subseteq Nat
    /\ RejectEmptyDiff \in BOOLEAN
    /\ {MaxProposals, MaxGeneration, MaxIncarnation, MaxSubscriptions} \subseteq Nat

VARIABLES
    log,          \* the committed generations
    up,           \* a process has the store open
    epoch,
    incarnation,
    shutting,     \* shutting_down_
    proposals,    \* proposals_
    index,        \* proposal_index_: positions by identity
    drawn,        \* how many proposal identities were drawn
    calls,        \* where each client's submit is
    subscribers,  \* subscribers_, by subscription
    subscribed,   \* next_subscription_ - 1
    sequence,     \* publication_sequence_
    cancelled     \* history: proposals whose cancellation was confirmed

store == <<log, up, epoch, incarnation, shutting>>
table == <<proposals, index, drawn>>
feed  == <<subscribers, subscribed, sequence>>
vars  == <<store, table, calls, feed, cancelled>>

-----------------------------------------------------------------------------
NoId == 0

Live     == {"Proposed", "Validated"}
Terminal == {"Rejected", "Committed", "Cancelled"}

(* A proposal, with what it captured.  against is the content its diff was *)
(* computed against.  The object of a moved-from proposal is Hollow.       *)
Proposal ==
    [id : 0 .. MaxProposals, actor : Actor \cup {NoActor}, base : Nat, epoch : Nat,
     incarnation : Nat, state : Live \cup Terminal, doc : Doc, against : Seq(Doc)]

Hollow(p) == [p EXCEPT !.id = NoId, !.actor = NoActor, !.incarnation = 0]

Token ==
    [generation : 0 .. MaxGeneration, epoch : 1 .. MaxIncarnation,
     incarnation : 1 .. MaxIncarnation, writer : Actor]

(* Tokens a client can hold: none names a process that is still to come.   *)
Held == {t \in Token : t.incarnation <= incarnation /\ t.epoch <= t.incarnation}

(* A committed generation; by and against are history.                     *)
Generation ==
    [doc : Doc, epoch : Nat, incarnation : Nat, by : 1 .. MaxProposals,
     against : Seq(Doc)]

Publication ==
    [generation : Nat, epoch : Nat, incarnation : Nat, sequence : Nat]

(* from, polled, seen and told are history: the head when the subscription *)
(* was made, how much was polled, the publication polled last and the      *)
(* count of drops that came with it.                                       *)
NoPublication == [generation |-> 0, epoch |-> 0, incarnation |-> 0, sequence |-> 0]
Subscriber ==
    [queue : Seq(Publication), dropped : Nat, from : Nat, polled : Nat,
     seen : Publication, told : Nat]

Idle == [step |-> "idle"]

Docs(s) == [i \in DOMAIN s |-> s[i].doc]
HeadGeneration == Len(log)

IsFunctionOn(f, S, T) == DOMAIN f \subseteq S /\ \A x \in DOMAIN f : f[x] \in T

(* Types; the table never holds more proposals than its limit, and the     *)
(* index never points past that.                                           *)
TypeOK ==
    /\ log \in Seq(Generation)
    /\ up \in BOOLEAN
    /\ epoch \in Nat
    /\ incarnation \in Nat
    /\ shutting \in BOOLEAN
    /\ proposals \in Seq(Proposal)
    /\ Len(proposals) <= MaxPending
    /\ IsFunctionOn(index, 0 .. MaxProposals, 1 .. MaxPending)
    /\ drawn \in 0 .. MaxProposals
    /\ calls \in [Client -> {Idle} \cup
         [step : {"validate", "commit"}, id : 1 .. MaxProposals, token : Token]]
    /\ IsFunctionOn(subscribers, 1 .. MaxSubscriptions, Subscriber)
    /\ subscribed \in 0 .. MaxSubscriptions
    /\ sequence \in Nat
    /\ cancelled \subseteq 1 .. MaxProposals

Init ==
    /\ log = <<>>
    /\ up = TRUE
    /\ epoch = 1
    /\ incarnation = 1
    /\ shutting = FALSE
    /\ proposals = <<>>
    /\ index = [id \in {} |-> 0]
    /\ drawn = 0
    /\ calls = [c \in Client |-> Idle]
    /\ subscribers = [s \in {} |-> 0]
    /\ subscribed = 0
    /\ sequence = 0
    /\ cancelled = {}

-----------------------------------------------------------------------------
(* propose                                                                 *)

Admitting == up /\ ~ shutting

(* evict_if_needed: a full table is compacted to its live proposals, in    *)
(* their order, and the index rebuilt.                                     *)
Full == Len(proposals) >= MaxPending

LivePlaces == {i \in DOMAIN proposals : proposals[i].state \in Live}

(* The position of the k-th live proposal: k of them are up to there.      *)
LivePlace(k) ==
    CHOOSE i \in LivePlaces : Cardinality({j \in LivePlaces : j <= i}) = k

Kept == [k \in 1 .. Cardinality(LivePlaces) |-> proposals[LivePlace(k)]]

IndexOf(ps) ==
    [id \in {ps[i].id : i \in DOMAIN ps} |->
        CHOOSE i \in DOMAIN ps :
            ps[i].id = id /\ \A j \in 1 .. i - 1 : ps[j].id # id]

Room == IF Full THEN Kept ELSE proposals

(* Mutant: retired identities leave the index, the others keep their place.*)
RoomIndexInPlace ==
    IF Full THEN [id \in {Kept[i].id : i \in DOMAIN Kept} |-> index[id]] ELSE index

RoomIndex == IF Full THEN IndexOf(Kept) ELSE index

(* No proposal can be retired: ProposalLimitExceeded.  By then every one   *)
(* has been moved out of the table, into a vector that is thrown away.     *)
LimitExceeded == Full /\ Len(Kept) = Len(proposals)

RefuseAtLimit ==
    /\ Admitting
    /\ LimitExceeded
    /\ proposals' = [i \in DOMAIN proposals |-> Hollow(proposals[i])]
    /\ UNCHANGED <<index, drawn>>

(* A document of another domain is refused after the eviction.             *)
RefuseDomain ==
    /\ Admitting
    /\ ~ LimitExceeded
    /\ proposals' = Room
    /\ index' = RoomIndex
    /\ UNCHANGED drawn

NewProposal(id, a, d, oversized) ==
    [id |-> id, actor |-> a, base |-> HeadGeneration, epoch |-> epoch,
     incarnation |-> incarnation, doc |-> d, against |-> <<>>,
     state |-> IF oversized THEN "Rejected" ELSE "Proposed"]

(* A document too large to canonicalize is admitted, rejected.             *)
Admit(a, d, oversized) ==
    /\ Admitting
    /\ a # NoActor
    /\ ~ LimitExceeded
    /\ drawn < MaxProposals
    /\ oversized => d \notin Valid
    /\ drawn' = drawn + 1
    /\ proposals' = Append(Room, NewProposal(drawn + 1, a, d, oversized))
    /\ index' = [id \in DOMAIN RoomIndex \cup {drawn + 1} |->
                    IF id \in DOMAIN RoomIndex THEN RoomIndex[id] ELSE Len(Room) + 1]

Propose ==
    /\ \/ RefuseAtLimit
       \/ RefuseDomain
       \/ \E a \in Actor, d \in Doc, oversized \in BOOLEAN : Admit(a, d, oversized)
    /\ UNCHANGED <<store, calls, feed, cancelled>>

-----------------------------------------------------------------------------
(* validate_proposal                                                       *)

Find(id) == proposals[index[id]]

StaleProcess(p) == p.epoch # epoch \/ p.incarnation # incarnation
StaleBase(p)    == p.base # HeadGeneration
Stale(p)        == StaleProcess(p) \/ StaleBase(p)

(* A rejected proposal is validated again: the reasons it can hold never   *)
(* contain the word the early return looks for.                            *)
Validated(p) ==
    IF Stale(p) THEN [p EXCEPT !.state = "Rejected"]
    ELSE [p EXCEPT !.against = Docs(log),
                   !.state = IF p.doc \in Valid THEN "Validated" ELSE "Rejected"]

Revise(id, p) == proposals' = [proposals EXCEPT ![index[id]] = p]

ValidateFound(id) ==
    /\ up
    /\ id \in DOMAIN index
    /\ Find(id).state \in Live \cup {"Rejected"}
    /\ Revise(id, Validated(Find(id)))
    /\ UNCHANGED <<store, index, drawn, feed, cancelled>>

Validate == \E id \in 1 .. drawn : ValidateFound(id) /\ UNCHANGED calls

-----------------------------------------------------------------------------
(* commit_proposal                                                         *)

Fenced(p, t) ==
    /\ t.writer = p.actor
    /\ t.epoch = p.epoch
    /\ t.incarnation = p.incarnation
    /\ t.generation = p.base

EmptyDiff(p) == p.against # <<>> /\ p.against[Len(p.against)] = p.doc

(* IntentStore::commit checks the token again.                             *)
StoreAdmits(t) ==
    /\ t.generation = HeadGeneration
    /\ t.epoch = epoch
    /\ t.incarnation = incarnation

(* Mutant: a proposal of an older base is committed onto the head.         *)
CommitsRebased(p, t) ==
    /\ p.state = "Validated"
    /\ ~ StaleProcess(p)
    /\ t.writer = p.actor
    /\ StoreAdmits(t)

(* Mutant: a commit that is sent again is carried out again.               *)
CommitsAgain(p, t) ==
    /\ p.state \in {"Validated", "Committed"}
    /\ ~ StaleProcess(p)
    /\ t.writer = p.actor
    /\ StoreAdmits(t)

(* Mutant: a proposal need not have been validated.                        *)
CommitsUnvalidated(p, t) ==
    /\ p.state \in Live
    /\ ~ Stale(p)
    /\ Fenced(p, t)
    /\ StoreAdmits(t)

Commits(p, t) ==
    /\ p.state = "Validated"
    /\ ~ Stale(p)
    /\ Fenced(p, t)
    /\ ~ (RejectEmptyDiff /\ EmptyDiff(p))
    /\ StoreAdmits(t)

(* Mutant: a drop is not counted.                                          *)
EnqueueUncounted(s, pub) ==
    LET queue == Append(s.queue, pub)
        over  == IF Len(queue) > MaxQueue THEN Len(queue) - MaxQueue ELSE 0
    IN  [s EXCEPT !.queue = SubSeq(queue, over + 1, Len(queue))]

Enqueue(s, pub) ==
    LET queue == Append(s.queue, pub)
        over  == IF Len(queue) > MaxQueue THEN Len(queue) - MaxQueue ELSE 0
    IN  [s EXCEPT !.queue = SubSeq(queue, over + 1, Len(queue)),
                  !.dropped = @ + over]

(* Mutant: the sequence number is not used up.                             *)
PublishSameNumber(generation) ==
    LET pub == [generation |-> generation, epoch |-> epoch,
                incarnation |-> incarnation, sequence |-> sequence + 1]
    IN  /\ subscribers' = [s \in DOMAIN subscribers |-> Enqueue(subscribers[s], pub)]
        /\ UNCHANGED sequence

Publish(generation) ==
    LET pub == [generation |-> generation, epoch |-> epoch,
                incarnation |-> incarnation, sequence |-> sequence + 1]
    IN  /\ subscribers' = [s \in DOMAIN subscribers |-> Enqueue(subscribers[s], pub)]
        /\ sequence' = sequence + 1

(* The store writes the generation, then the proposal is marked and the    *)
(* generation published.  (When the store fails, nothing changes.)         *)
CommitSucceeds(id, t) ==
    /\ Admitting
    /\ id \in DOMAIN index
    /\ HeadGeneration < MaxGeneration
    /\ LET p == Find(id) IN
        /\ Commits(p, t)
        /\ log' = Append(log, [doc |-> p.doc, epoch |-> epoch,
                               incarnation |-> incarnation, by |-> id,
                               against |-> p.against])
        /\ Revise(id, [p EXCEPT !.state = "Committed"])
    /\ Publish(HeadGeneration + 1)
    /\ UNCHANGED <<up, epoch, incarnation, shutting, index, drawn, subscribed,
                   cancelled>>

FoundStale(id) ==
    /\ Admitting
    /\ id \in DOMAIN index
    /\ Find(id).state = "Validated"
    /\ Stale(Find(id))

CommitRejects(id) ==
    /\ FoundStale(id)
    /\ Revise(id, [Find(id) EXCEPT !.state = "Rejected"])
    /\ UNCHANGED <<store, index, drawn, feed, cancelled>>

Commit ==
    /\ \E id \in 1 .. drawn :
        CommitRejects(id) \/ \E t \in Held : CommitSucceeds(id, t)
    /\ UNCHANGED calls

-----------------------------------------------------------------------------
(* submit: the three stages in a row, with a token taken before the first. *)

SubmitProposes(c) ==
    /\ calls[c] = Idle
    /\ \E a \in Actor, d \in Doc, oversized \in BOOLEAN, t \in Held :
        /\ Admit(a, d, oversized)
        /\ calls' = [calls EXCEPT ![c] =
                        [step |-> "validate", id |-> drawn + 1, token |-> t]]
    /\ UNCHANGED <<store, feed, cancelled>>

(* A failed report is no error here: commit_proposal answers for it.       *)
SubmitValidates(c) ==
    /\ calls[c] # Idle /\ calls[c].step = "validate"
    /\ ValidateFound(calls[c].id)
    /\ calls' = [calls EXCEPT ![c] =
                    IF Stale(Find(calls[c].id)) THEN Idle ELSE [@ EXCEPT !.step = "commit"]]

(* The head's record cannot be read for the diff: submit gives up.         *)
SubmitCannotRead(c) ==
    /\ up
    /\ log # <<>>
    /\ calls[c] # Idle
    /\ calls[c].step = "validate"
    /\ calls[c].id \in DOMAIN index
    /\ Find(calls[c].id).state \in Live \cup {"Rejected"}
    /\ ~ Stale(Find(calls[c].id))
    /\ calls' = [calls EXCEPT ![c] = Idle]
    /\ UNCHANGED <<store, table, feed, cancelled>>

(* The proposal was cancelled, committed or retired by another caller.     *)
SubmitLosesProposal(c) ==
    /\ up
    /\ calls[c] # Idle
    /\ calls[c].step = "validate"
    /\ calls[c].id \in DOMAIN index => Find(calls[c].id).state \in {"Cancelled", "Committed"}
    /\ calls' = [calls EXCEPT ![c] =
                    IF /\ calls[c].id \in DOMAIN index
                       /\ Find(calls[c].id).state = "Committed"
                    THEN [@ EXCEPT !.step = "commit"] ELSE Idle]
    /\ UNCHANGED <<store, table, feed, cancelled>>

SubmitCommits(c) ==
    /\ calls[c] # Idle /\ calls[c].step = "commit"
    /\ CommitSucceeds(calls[c].id, calls[c].token) \/ CommitRejects(calls[c].id)
    /\ calls' = [calls EXCEPT ![c] = Idle]

(* The commit is refused, or the store fails: the proposal stays as it is. *)
SubmitRefused(c) ==
    /\ up
    /\ calls[c] # Idle /\ calls[c].step = "commit"
    /\ ~ FoundStale(calls[c].id)
    /\ calls' = [calls EXCEPT ![c] = Idle]
    /\ UNCHANGED <<store, table, feed, cancelled>>

Submit ==
    \E c \in Client :
        \/ SubmitProposes(c)
        \/ SubmitValidates(c)
        \/ SubmitCannotRead(c)
        \/ SubmitLosesProposal(c)
        \/ SubmitCommits(c)
        \/ SubmitRefused(c)

-----------------------------------------------------------------------------
(* Mutant: cancellation is confirmed in every state.                       *)
CancelAlways(id) ==
    /\ up
    /\ id \in DOMAIN index
    /\ Revise(id, [Find(id) EXCEPT !.state = "Cancelled"])
    /\ cancelled' = cancelled \cup {id}
    /\ UNCHANGED <<store, index, drawn, calls, feed>>

(* cancel_proposal: refused once committed, confirmed again when repeated. *)
Cancel(id) ==
    /\ up
    /\ id \in DOMAIN index
    /\ Find(id).state # "Committed"
    /\ Revise(id, [Find(id) EXCEPT !.state = "Cancelled"])
    /\ cancelled' = cancelled \cup {id}
    /\ UNCHANGED <<store, index, drawn, calls, feed>>

-----------------------------------------------------------------------------
(* Subscriptions                                                           *)

(* A new subscriber starts with the committed head, under a sequence       *)
(* number of its own and the epoch of this process.                        *)
Subscribe ==
    /\ Admitting
    /\ Cardinality(DOMAIN subscribers) < MaxSubscribers
    /\ subscribed < MaxSubscriptions
    /\ subscribed' = subscribed + 1
    /\ sequence' = IF log # <<>> THEN sequence + 1 ELSE sequence
    /\ LET snapshot == IF log = <<>> THEN <<>> ELSE
               << [generation |-> HeadGeneration, epoch |-> epoch,
                   incarnation |-> incarnation, sequence |-> sequence + 1] >>
           new == [queue |-> snapshot, dropped |-> 0, from |-> HeadGeneration,
                   polled |-> 0, seen |-> NoPublication, told |-> 0]
       IN  subscribers' = [s \in DOMAIN subscribers \cup {subscribed + 1} |->
                              IF s \in DOMAIN subscribers THEN subscribers[s] ELSE new]
    /\ UNCHANGED <<store, table, calls, cancelled>>

Unsubscribe(s) ==
    /\ up
    /\ s \in DOMAIN subscribers
    /\ subscribers' = [x \in DOMAIN subscribers \ {s} |-> subscribers[x]]
    /\ UNCHANGED <<store, table, calls, subscribed, sequence, cancelled>>

Poll(s) ==
    /\ up
    /\ s \in DOMAIN subscribers
    /\ subscribers[s].queue # <<>>
    /\ LET x == subscribers[s] IN
       subscribers' =
         [subscribers EXCEPT ![s] = [x EXCEPT !.queue = Tail(x.queue),
                                              !.polled = x.polled + 1,
                                              !.seen = Head(x.queue),
                                              !.told = x.dropped]]
    /\ UNCHANGED <<store, table, calls, subscribed, sequence, cancelled>>

-----------------------------------------------------------------------------
(* The process                                                             *)

RequestShutdown ==
    /\ up
    /\ ~ shutting
    /\ shutting' = TRUE
    /\ UNCHANGED <<log, up, epoch, incarnation, table, calls, feed, cancelled>>

Crash ==
    /\ up
    /\ up' = FALSE
    /\ epoch' = 0
    /\ shutting' = FALSE
    /\ proposals' = <<>>
    /\ index' = [id \in {} |-> 0]
    /\ calls' = [c \in Client |-> Idle]
    /\ subscribers' = [s \in {} |-> 0]
    /\ subscribed' = 0
    /\ sequence' = 0
    /\ UNCHANGED <<log, incarnation, drawn, cancelled>>

(* The store recovers as IntentLog allows: it may have lost generations    *)
(* from the end, but not all of them.                                      *)
Reopen ==
    /\ ~ up
    /\ incarnation < MaxIncarnation
    /\ \E n \in 0 .. Len(log) :
        /\ n = 0 => log = <<>>
        /\ log' = SubSeq(log, 1, n)
        /\ epoch' = IF n = 0 THEN 1 ELSE log[n].epoch + 1
    /\ up' = TRUE
    /\ incarnation' = incarnation + 1
    /\ UNCHANGED <<shutting, table, calls, feed, cancelled>>

-----------------------------------------------------------------------------
Next ==
    \/ Propose
    \/ Validate
    \/ Commit
    \/ Submit
    \/ \E id \in 1 .. drawn : Cancel(id)
    \/ Subscribe
    \/ \E s \in DOMAIN subscribers : Unsubscribe(s) \/ Poll(s)
    \/ RequestShutdown
    \/ Crash
    \/ Reopen

Spec == Init /\ [][Next]_vars

-----------------------------------------------------------------------------
(* Properties                                                              *)

(* The index resolves every identity in the table to its own proposal and  *)
(* to no other, however often the table was compacted, as long as no       *)
(* proposal was hollowed out.                                              *)
IndexExact ==
    (\A i \in DOMAIN proposals : proposals[i].id # NoId) =>
        /\ DOMAIN index = {proposals[i].id : i \in DOMAIN proposals}
        /\ \A i \in DOMAIN proposals : index[proposals[i].id] = i

(* The diff that was reported for a committed generation is the diff from  *)
(* the very generation it replaced.                                        *)
DiffMatchesParent ==
    \A i \in DOMAIN log : log[i].against = Docs(SubSeq(log, 1, i - 1))

(* A proposal is committed at most once, whoever retries it with whatever  *)
(* token, before or after the table forgets it.                            *)
CommitOnce ==
    \A i, j \in DOMAIN log : log[i].by = log[j].by => i = j

(* A proposal whose cancellation was confirmed is never committed.         *)
CancelledNeverCommitted == \A i \in DOMAIN log : log[i].by \notin cancelled

(* The committed documents are the log.                                    *)
Log == INSTANCE IntentLog WITH Content <- Valid, log <- Docs(log), serving <- up

(* The runtime implements the log of committed generations, each of which  *)
(* passed validation.                                                      *)
LogSpec == Log!Spec

(* A subscriber misses nothing in silence: every generation since it       *)
(* subscribed is polled, queued or counted as dropped, and however slow it *)
(* is, polling to the end arrives at the head.                             *)
DropsAccounted ==
    \A s \in DOMAIN subscribers : LET x == subscribers[s] IN
        /\ x.polled + x.dropped + Len(x.queue)
             = HeadGeneration - x.from + IF x.from > 0 THEN 1 ELSE 0
        /\ MaxQueue > 0 =>
             HeadGeneration = IF x.queue # <<>> THEN x.queue[Len(x.queue)].generation
                              ELSE x.seen.generation

(* The generations a subscriber sees are in order, each under a sequence   *)
(* number of its own, and the drops told with one are exactly the          *)
(* generations skipped so far: a gap can be told from a publication that   *)
(* got lost on the way.                                                    *)
GapsAnnounced ==
    \A s \in DOMAIN subscribers :
        LET x   == subscribers[s]
            all == <<x.seen>> \o x.queue
        IN /\ \A i \in 1 .. Len(all) - 1 :
                /\ all[i].sequence < all[i + 1].sequence
                /\ all[i].generation < all[i + 1].generation
           /\ x.polled > 0 =>
                x.from + x.polled + x.told
                    = x.seen.generation + IF x.from > 0 THEN 1 ELSE 0

-----------------------------------------------------------------------------
(* Claims of the documentation that the code does not keep.                *)

(* A proposal keeps the epoch and incarnation it captured: the table is    *)
(* lost with the process, so they are always those of the process.         *)
CaptureKept ==
    \A i \in DOMAIN proposals :
        proposals[i].epoch = epoch /\ proposals[i].incarnation = incarnation

(* A runtime that is used through submit alone, with tokens it gave out.   *)
(* One that is refused for its token, or fails with the store, leaves its  *)
(* proposal validated: no later submit retires it.                         *)
SubmitStep ==
    /\ \/ Submit
       \/ /\ \E c \in Client : calls[c] = Idle
          /\ RefuseAtLimit
          /\ UNCHANGED <<store, calls, feed, cancelled>>
    /\ \A c \in Client : calls'[c] # Idle => calls'[c].token.generation <= HeadGeneration

SubmitSpec == Init /\ [][SubmitStep]_vars
=============================================================================
