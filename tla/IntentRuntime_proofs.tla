------------------------ MODULE IntentRuntime_proofs ------------------------
(***************************************************************************)
(* Proofs about IntentRuntime for all actors, documents, limits and        *)
(* bounds.                                                                 *)
(*                                                                         *)
(* The first part is about what a compaction leaves of the table: it keeps *)
(* the rows that are live, and Rank, the number of live rows up to one, is *)
(* where each goes.  The invariant of table and log is CoreInv: the index  *)
(* is the inverse of the table, every identity in use was drawn, what      *)
(* became of a proposal is on record, a proposal that is not stale was     *)
(* compared with the head.  That of the subscriptions is FeedInv: what was *)
(* published since a subscriber came is in its queue, polled or counted as *)
(* dropped.  Each step is shown to be one of a few kinds (CoreStep,        *)
(* FeedStep), so that IntentSession_proofs can use both invariants.        *)
(***************************************************************************)
EXTENDS IntentRuntime, FiniteSetTheorems, SequenceTheorems, WellFoundedInduction, TLAPS

-----------------------------------------------------------------------------
(* Least and greatest of sets of numbers                                   *)

(* Every set of numbers that is not empty has a least element.             *)
LEMMA LeastExists ==
    ASSUME NEW T \in SUBSET Nat, T # {}
    PROVE  \E m \in T : \A n \in T : m <= n
<1>1. IsWellFoundedOn(OpToRel(<, Nat), Nat)
  BY NatLessThanWellFounded
<1>2. PICK m \in T : \A n \in T : ~ (<<n, m>> \in OpToRel(<, Nat))
  BY <1>1, WFMin
<1>3. \A n \in T : ~ (n < m)
  BY <1>2 DEF OpToRel
<1> QED
  BY <1>3

(* And a greatest one, when it is bounded.                                 *)
LEMMA GreatestExists ==
    ASSUME NEW b \in Nat, NEW T, T # {}, \A n \in T : n \in Nat /\ n <= b
    PROVE  \E m \in T : \A n \in T : n <= m
<1> DEFINE U == {u \in Nat : \A n \in T : n <= u}
<1>1. U \in SUBSET Nat /\ U # {}
  <2>1. b \in U
    OBVIOUS
  <2> QED
    BY <2>1
<1>2. PICK m \in U : \A u \in U : m <= u
  BY <1>1, LeastExists
<1>m. m \in Nat /\ \A n \in T : n <= m
  OBVIOUS
<1>3. m \in T
  <2>0. PICK n \in T : TRUE
    OBVIOUS
  <2>1. CASE m = 0
    BY <1>m, <2>0, <2>1
  <2>2. CASE m # 0 /\ m \notin T
    <3>0. m - 1 \in Nat
      BY <1>m, <2>2
    <3>1. \A x \in T : x <= m - 1
      BY <1>m, <2>2
    <3>2. m - 1 \in U
      BY <3>0, <3>1
    <3> QED
      BY <1>2, <1>m, <3>2
  <2> QED
    BY <2>1, <2>2
<1> QED
  BY <1>m, <1>3

-----------------------------------------------------------------------------
(* Compaction: the elements of a finite set of positions, in order         *)

(* How many elements of S are up to i.                                     *)
Rank(S, i) == Cardinality({j \in S : j <= i})

LEMMA RankType ==
    ASSUME NEW b \in Nat, NEW S \in SUBSET (1 .. b), NEW i \in Nat
    PROVE  /\ IsFiniteSet(S) /\ Cardinality(S) \in Nat
           /\ IsFiniteSet({j \in S : j <= i}) /\ Rank(S, i) \in Nat
           /\ Rank(S, i) <= Cardinality(S)
<1>1. IsFiniteSet(1 .. b)
  BY FS_Interval
<1>2. IsFiniteSet(S)
  BY <1>1, FS_Subset
<1>3. {j \in S : j <= i} \in SUBSET S
  OBVIOUS
<1>4. /\ IsFiniteSet({j \in S : j <= i})
      /\ Cardinality({j \in S : j <= i}) <= Cardinality(S)
  BY <1>2, <1>3, FS_Subset
<1> QED
  BY <1>2, <1>4, FS_CardinalityType DEF Rank

(* Distinct elements have distinct ranks.                                  *)
LEMMA RankInjective ==
    ASSUME NEW b \in Nat, NEW S \in SUBSET (1 .. b), NEW i \in S, NEW j \in S,
           Rank(S, i) = Rank(S, j)
    PROVE  i = j
<1>0. \A n \in S : n \in Nat
  OBVIOUS
<1>1. ASSUME NEW x \in S, NEW y \in S, x < y, Rank(S, x) = Rank(S, y)
      PROVE  FALSE
  <2> DEFINE X == {n \in S : n <= x}
             Y == {n \in S : n <= y}
  <2>1. \A n \in X : n \in Y
    BY <1>0, <1>1
  <2>2. y \in Y /\ y \notin X
    BY <1>0, <1>1
  <2>3. IsFiniteSet(Y)
    BY <1>0, RankType
  <2>4. Cardinality(X) = Cardinality(Y)
    BY <1>1 DEF Rank
  <2> HIDE DEF X, Y
  <2>5. X \in SUBSET Y
    BY <2>1
  <2>6. Y = X
    BY <2>3, <2>4, <2>5, FS_Subset
  <2> QED
    BY <2>2, <2>6
<1> QED
  BY <1>0, <1>1

(* There is an element of every rank.                                      *)
LEMMA RankOnto ==
    ASSUME NEW b \in Nat, NEW S \in SUBSET (1 .. b), NEW k \in 1 .. Cardinality(S)
    PROVE  \E i \in S : Rank(S, i) = k
<1>f. IsFiniteSet(S) /\ Cardinality(S) \in Nat
  BY RankType
<1>n. \A n \in S : n \in Nat /\ n <= b
  OBVIOUS
<1>r. \A n \in S : Rank(S, n) \in Nat /\ IsFiniteSet({j \in S : j <= n})
  BY <1>n, RankType
<1> DEFINE T == {i \in S : Rank(S, i) >= k}
<1>1. T # {}
  <2>1. S # {}
    BY <1>f, FS_EmptySet
  <2>2. PICK m \in S : \A n \in S : n <= m
    BY <1>n, <2>1, GreatestExists
  <2>3. {j \in S : j <= m} = S
    BY <2>2
  <2>4. Rank(S, m) = Cardinality(S)
    BY <2>3 DEF Rank
  <2>5. m \in T
    BY <1>f, <2>2, <2>4
  <2> QED
    BY <2>5
<1>2. T \in SUBSET Nat
  <2>1. \A n \in T : n \in Nat
    BY <1>n
  <2> HIDE DEF T
  <2> QED
    BY <2>1
<1>3. PICK i \in T : \A n \in T : i <= n
  BY <1>1, <1>2, LeastExists
<1>4. i \in S /\ i \in Nat /\ Rank(S, i) \in Nat /\ Rank(S, i) >= k
  BY <1>n, <1>r
<1>5. ASSUME Rank(S, i) > k
      PROVE  FALSE
  <2> DEFINE X == {j \in S : j <= i}
             Y == X \ {i}
  <2>1. IsFiniteSet(X) /\ Cardinality(X) = Rank(S, i) /\ i \in X
    BY <1>4, <1>r DEF Rank
  <2>2. Cardinality(Y) = Cardinality(X) - 1 /\ IsFiniteSet(Y)
    BY <2>1, FS_RemoveElement
  <2>3. Cardinality(Y) \in Nat /\ Cardinality(Y) >= k
    <3>1. Cardinality(X) \in Nat /\ Cardinality(X) > k
      BY <1>4, <1>5, <2>1
    <3> QED
      BY <2>2, <3>1
  <2>4. Y # {}
    BY <2>3, FS_EmptySet
  <2>y. \A n \in S : n \in Y <=> n < i
    BY <1>n, <1>4
  <2>5. PICK m \in Y : \A n \in Y : n <= m
    <3>1. \A n \in Y : n \in Nat /\ n <= b
      BY <1>n
    <3> HIDE DEF Y
    <3> QED
      BY <2>4, <3>1, GreatestExists
  <2>6. m \in S /\ m < i
    BY <2>y
  <2>7. {j \in S : j <= m} = Y
    <3>1. \A j \in S : j <= m <=> j \in Y
      BY <1>n, <1>4, <2>5, <2>6, <2>y
    <3>2. \A j \in Y : j \in S
      OBVIOUS
    <3> HIDE DEF Y
    <3> QED
      BY <3>1, <3>2
  <2>8. Rank(S, m) = Cardinality(Y)
    BY <2>7 DEF Rank
  <2>9. m \in T
    BY <2>3, <2>6, <2>8
  <2> QED
    BY <1>3, <1>n, <1>4, <2>6, <2>9
<1> QED
  BY <1>4, <1>5

-----------------------------------------------------------------------------
(* The table and its index *)

(* An index of a table: it resolves the identity of every proposal to its  *)
(* place, and what it resolves is that proposal or one that was moved out. *)
Indexes(ix, ps) ==
    /\ \A i \in DOMAIN ps : ps[i].id # NoId => ps[i].id \in DOMAIN ix /\ ix[ps[i].id] = i
    /\ \A id \in DOMAIN ix : ix[id] \in DOMAIN ps /\ ps[ix[id]].id \in {id, NoId}

LEMMA KeptPlaces ==
    ASSUME proposals \in Seq(Proposal)
    PROVE  /\ IsFiniteSet(LivePlaces)
           /\ Cardinality(LivePlaces) \in Nat
           /\ Cardinality(LivePlaces) <= Len(proposals)
           /\ \A k \in 1 .. Cardinality(LivePlaces) :
                LivePlace(k) \in LivePlaces /\ Rank(LivePlaces, LivePlace(k)) = k
<1> DEFINE n == Len(proposals)
<1>1. n \in Nat /\ DOMAIN proposals = 1 .. n
  OBVIOUS
<1>2. LivePlaces \in SUBSET (1 .. n)
  BY <1>1 DEF LivePlaces
<1>3. IsFiniteSet(1 .. n) /\ Cardinality(1 .. n) = n
  BY <1>1, FS_Interval
<1>4. IsFiniteSet(LivePlaces) /\ Cardinality(LivePlaces) <= n
  BY <1>2, <1>3, FS_Subset
<1>5. Cardinality(LivePlaces) \in Nat
  BY <1>4, FS_CardinalityType
<1>6. ASSUME NEW k \in 1 .. Cardinality(LivePlaces)
      PROVE  LivePlace(k) \in LivePlaces /\ Rank(LivePlaces, LivePlace(k)) = k
  <2>1. \E i \in LivePlaces : Rank(LivePlaces, i) = k
    BY <1>1, <1>2, RankOnto
  <2> QED
    BY <2>1 DEF LivePlace, Rank
<1> QED
  BY <1>4, <1>5, <1>6

(* Compaction keeps live proposals, each once, and no more than there were.*)
LEMMA KeptShape ==
    ASSUME proposals \in Seq(Proposal)
    PROVE  /\ Kept \in Seq(Proposal)
           /\ Len(Kept) \in Nat /\ DOMAIN Kept = 1 .. Len(Kept)
           /\ Len(Kept) <= Len(proposals)
           /\ \A k \in DOMAIN Kept :
                /\ LivePlace(k) \in DOMAIN proposals
                /\ Kept[k] = proposals[LivePlace(k)]
                /\ Kept[k].state \in Live
           /\ \A k, l \in DOMAIN Kept : LivePlace(k) = LivePlace(l) => k = l
<1>1. /\ Cardinality(LivePlaces) \in Nat
      /\ Cardinality(LivePlaces) <= Len(proposals)
      /\ \A k \in 1 .. Cardinality(LivePlaces) :
           LivePlace(k) \in LivePlaces /\ Rank(LivePlaces, LivePlace(k)) = k
  BY KeptPlaces
<1>2. DOMAIN Kept = 1 .. Cardinality(LivePlaces)
  BY DEF Kept
<1>3. \A k \in DOMAIN Kept :
        /\ LivePlace(k) \in DOMAIN proposals
        /\ Kept[k] = proposals[LivePlace(k)]
        /\ Kept[k].state \in Live
  BY <1>1, <1>2 DEF Kept, LivePlaces
<1>4. Kept \in Seq(Proposal) /\ Len(Kept) = Cardinality(LivePlaces)
  <2>1. \A k \in 1 .. Cardinality(LivePlaces) : Kept[k] \in Proposal
    <3>1. \A i \in DOMAIN proposals : proposals[i] \in Proposal
      OBVIOUS
    <3> QED
      BY <1>2, <1>3, <3>1
  <2>2. Kept = [k \in 1 .. Cardinality(LivePlaces) |-> Kept[k]]
    BY DEF Kept
  <2> DEFINE m == Cardinality(LivePlaces)
  <2>3. m \in Nat
    BY <1>1
  <2> HIDE DEF m
  <2>4. Kept \in [1 .. m -> Proposal]
    BY <2>1, <2>2 DEF m
  <2>5. Kept \in Seq(Proposal)
    BY <2>3, <2>4, SeqDef
  <2> QED
    BY <2>3, <2>4, <2>5, LenProperties DEF m
<1>5. ASSUME NEW k \in DOMAIN Kept, NEW l \in DOMAIN Kept, LivePlace(k) = LivePlace(l)
      PROVE  k = l
  BY <1>1, <1>2, <1>5
<1> QED
  BY <1>1, <1>2, <1>3, <1>4, <1>5

(* Reindexing resolves every identity, to the first place that has it.     *)
LEMMA IndexOfShape ==
    ASSUME NEW ps \in Seq(Proposal)
    PROVE  /\ DOMAIN IndexOf(ps) = {ps[i].id : i \in DOMAIN ps}
           /\ \A id \in DOMAIN IndexOf(ps) :
                IndexOf(ps)[id] \in DOMAIN ps /\ ps[IndexOf(ps)[id]].id = id
<1>1. DOMAIN IndexOf(ps) = {ps[i].id : i \in DOMAIN ps}
  BY DEF IndexOf
<1>2. ASSUME NEW id \in DOMAIN IndexOf(ps)
      PROVE  IndexOf(ps)[id] \in DOMAIN ps /\ ps[IndexOf(ps)[id]].id = id
  <2> DEFINE T == {i \in DOMAIN ps : ps[i].id = id}
  <2>0. \A i \in DOMAIN ps : i \in Nat /\ (\A j \in 1 .. i - 1 : j \in DOMAIN ps /\ j < i)
    OBVIOUS
  <2>1. T # {}
    BY <1>1
  <2>2. T \in SUBSET Nat
    <3>1. \A i \in T : i \in Nat
      BY <2>0
    <3> HIDE DEF T
    <3> QED
      BY <3>1
  <2>3. PICK m \in T : \A i \in T : m <= i
    BY <2>1, <2>2, LeastExists
  <2>4. \A j \in 1 .. m - 1 : ps[j].id # id
    BY <2>0, <2>3
  <2>5. \E i \in DOMAIN ps : ps[i].id = id /\ \A j \in 1 .. i - 1 : ps[j].id # id
    BY <2>3, <2>4
  <2> QED
    BY <1>1, <2>5 DEF IndexOf
<1> QED
  BY <1>1, <1>2

(* Where a place in the table was before the eviction.                     *)
Before(k) == IF Full THEN LivePlace(k) ELSE k

(* After an eviction the table and its index fit again, what is left was   *)
(* there before, at one place, and unless the limit is exceeded there is   *)
(* room for one more.                                                      *)
LEMMA RoomShape ==
    ASSUME proposals \in Seq(Proposal), Len(proposals) <= MaxPending,
           Indexes(index, proposals), ~ LimitExceeded
    PROVE  /\ Room \in Seq(Proposal)
           /\ Len(Room) < MaxPending
           /\ \A k \in DOMAIN Room :
                Before(k) \in DOMAIN proposals /\ Room[k] = proposals[Before(k)]
           /\ Indexes(RoomIndex, Room)
           /\ \A id \in DOMAIN RoomIndex : id # NoId => 
                /\ id \in DOMAIN index
                /\ Room[RoomIndex[id]] = proposals[index[id]]
           /\ \A id \in DOMAIN RoomIndex :
                id \in DOMAIN index \/ \E i \in DOMAIN proposals : id = proposals[i].id
<1>0. MaxPending \in Nat /\ Len(proposals) \in Nat
  BY RuntimeAssumption
<1>1. CASE ~ Full
  <2>1. Room = proposals /\ RoomIndex = index
    BY <1>1 DEF Room, RoomIndex
  <2>2. \A k \in DOMAIN Room : Before(k) = k
    BY <1>1 DEF Before
  <2>3. \A id \in DOMAIN index : index[id] \in DOMAIN proposals
    BY DEF Indexes
  <2>4. Len(proposals) < MaxPending
    BY <1>0, <1>1 DEF Full
  <2> QED
    BY <2>1, <2>2, <2>3, <2>4
<1>2. CASE Full
  <2>1. Room = Kept /\ RoomIndex = IndexOf(Kept) /\ \A k \in DOMAIN Room : Before(k) = LivePlace(k)
    BY <1>2 DEF Room, RoomIndex, Before
  <2>2. /\ Kept \in Seq(Proposal)
        /\ Len(Kept) \in Nat
        /\ Len(Kept) <= Len(proposals)
        /\ \A k \in DOMAIN Kept :
             /\ LivePlace(k) \in DOMAIN proposals
             /\ Kept[k] = proposals[LivePlace(k)]
        /\ \A k, l \in DOMAIN Kept : LivePlace(k) = LivePlace(l) => k = l
    BY KeptShape
  <2>3. Len(Kept) < MaxPending
    BY <1>0, <1>2, <2>2 DEF LimitExceeded
  <2>4. /\ DOMAIN IndexOf(Kept) = {Kept[i].id : i \in DOMAIN Kept}
        /\ \A id \in DOMAIN IndexOf(Kept) :
             IndexOf(Kept)[id] \in DOMAIN Kept /\ Kept[IndexOf(Kept)[id]].id = id
    BY <2>2, IndexOfShape
  <2>5. \A k, l \in DOMAIN Kept : Kept[k].id = Kept[l].id /\ Kept[k].id # NoId => k = l
    BY <2>2 DEF Indexes
  <2>6. Indexes(IndexOf(Kept), Kept)
    BY <2>4, <2>5 DEF Indexes
  <2>7. ASSUME NEW id \in DOMAIN IndexOf(Kept)
        PROVE  /\ \E i \in DOMAIN proposals : id = proposals[i].id
               /\ id # NoId => id \in DOMAIN index /\ Kept[IndexOf(Kept)[id]] = proposals[index[id]]
    <3>1. PICK k \in DOMAIN Kept : k = IndexOf(Kept)[id] /\ Kept[k].id = id
      BY <2>4
    <3>2. LivePlace(k) \in DOMAIN proposals /\ proposals[LivePlace(k)].id = id
      BY <2>2, <3>1
    <3>3. id # NoId => id \in DOMAIN index /\ index[id] = LivePlace(k)
      BY <3>2 DEF Indexes
    <3> QED
      BY <2>2, <3>1, <3>2, <3>3
  <2> QED
    BY <2>1, <2>2, <2>3, <2>6, <2>7
<1> QED
  BY <1>1, <1>2

-----------------------------------------------------------------------------
(* The invariant of the table and the log *)

(* Types, but for the clients' calls and the subscriptions.                *)
CoreTypes ==
    /\ log \in Seq(Generation)
    /\ up \in BOOLEAN
    /\ epoch \in Nat
    /\ incarnation \in Nat
    /\ shutting \in BOOLEAN
    /\ proposals \in Seq(Proposal)
    /\ Len(proposals) <= MaxPending
    /\ IsFunctionOn(index, 0 .. MaxProposals, 1 .. MaxPending)
    /\ drawn \in 0 .. MaxProposals
    /\ cancelled \subseteq 1 .. MaxProposals

CallTypes ==
    calls \in [Client -> {Idle} \cup
         [step : {"validate", "commit"}, id : 1 .. MaxProposals, token : Token]]

FeedTypes ==
    /\ IsFunctionOn(subscribers, 1 .. MaxSubscriptions, Subscriber)
    /\ subscribed \in 0 .. MaxSubscriptions
    /\ sequence \in Nat

(* Every identity that is known anywhere has been drawn.                   *)
Drawn ==
    /\ \A i \in DOMAIN proposals : proposals[i].id <= drawn
    /\ \A id \in DOMAIN index : id <= drawn
    /\ \A i \in DOMAIN log : log[i].by <= drawn
    /\ \A id \in cancelled : id <= drawn

(* What became of a proposal stays on record while the table knows it.     *)
Outcomes ==
    /\ \A id \in DOMAIN index, i \in DOMAIN log :
         log[i].by = id => Find(id).state = "Committed"
    /\ \A id \in DOMAIN index : id \in cancelled => Find(id).state = "Cancelled"

(* Proposal i is not stale.                                                *)
Fresh(i) ==
    /\ proposals[i].epoch = epoch /\ proposals[i].incarnation = incarnation
    /\ proposals[i].base = HeadGeneration

(* A validated proposal passed, and unless it is stale its diff was        *)
(* computed against the head.  No proposal is based on more than the head. *)
Captures ==
    /\ incarnation > 0
    /\ ~ up => proposals = <<>>
    /\ \A i \in DOMAIN proposals : proposals[i].base <= Len(log)
    /\ \A i \in DOMAIN proposals : proposals[i].state = "Validated" =>
         /\ proposals[i].doc \in Valid
         /\ Fresh(i) => proposals[i].against = Docs(log)

ValidLog == \A i \in DOMAIN log : log[i].doc \in Valid

CoreInv ==
    /\ CoreTypes
    /\ Indexes(index, proposals)
    /\ Drawn
    /\ Outcomes
    /\ Captures
    /\ ValidLog
    /\ DiffMatchesParent
    /\ CommitOnce
    /\ CancelledNeverCommitted

(* What a step does to the table and the log, whoever takes it.            *)
CoreRest == UNCHANGED <<store, cancelled>>

CoreStep ==
    \/ RefuseAtLimit /\ CoreRest
    \/ RefuseDomain /\ CoreRest
    \/ \E a \in Actor, d \in Doc, oversized \in BOOLEAN : Admit(a, d, oversized) /\ CoreRest
    \/ \E id \in 1 .. MaxProposals :
         \/ ValidateFound(id)
         \/ CommitRejects(id)
         \/ \E t : CommitSucceeds(id, t)
         \/ Cancel(id)
    \/ UNCHANGED <<log, up, epoch, incarnation, table, cancelled>> /\ shutting' \in BOOLEAN
    \/ Crash
    \/ Reopen

LEMMA NextCoreStep ==
    ASSUME CoreTypes, CallTypes, [Next]_vars
    PROVE  CoreStep
<1>t. /\ MaxProposals \in Nat /\ drawn \in 0 .. MaxProposals
      /\ shutting \in BOOLEAN
  BY RuntimeAssumption DEF CoreTypes
<1>i. \A id \in 1 .. drawn : id \in 1 .. MaxProposals
  BY <1>t
<1>c. \A c \in Client : calls[c] # Idle => calls[c].id \in 1 .. MaxProposals
  BY DEF CallTypes
<1>1. CASE Propose
  BY <1>1 DEF Propose, CoreStep, CoreRest
<1>2. CASE Validate
  BY <1>2, <1>i DEF Validate, CoreStep
<1>3. CASE Commit
  BY <1>3, <1>i DEF Commit, CoreStep
<1>4. CASE Submit
  <2>1. PICK c \in Client :
          \/ SubmitProposes(c) \/ SubmitValidates(c) \/ SubmitCannotRead(c)
          \/ SubmitLosesProposal(c) \/ SubmitCommits(c) \/ SubmitRefused(c)
    BY <1>4 DEF Submit
  <2>2. CASE SubmitProposes(c)
    BY <2>2 DEF SubmitProposes, CoreStep, CoreRest
  <2>3. CASE SubmitValidates(c)
    BY <2>3, <1>c DEF SubmitValidates, CoreStep
  <2>4. CASE SubmitCommits(c)
    BY <2>4, <1>c DEF SubmitCommits, CoreStep
  <2>5. CASE SubmitCannotRead(c) \/ SubmitLosesProposal(c) \/ SubmitRefused(c)
    BY <2>5, <1>t DEF SubmitCannotRead, SubmitLosesProposal, SubmitRefused, CoreStep, store
  <2> QED
    BY <2>1, <2>2, <2>3, <2>4, <2>5
<1>5. CASE \E id \in 1 .. drawn : Cancel(id)
  BY <1>5, <1>i DEF CoreStep
<1>6. CASE Subscribe \/ \E s \in DOMAIN subscribers : Unsubscribe(s) \/ Poll(s)
  BY <1>6, <1>t DEF Subscribe, Unsubscribe, Poll, CoreStep, store
<1>7. CASE RequestShutdown
  BY <1>7 DEF RequestShutdown, CoreStep
<1>8. CASE Crash \/ Reopen
  BY <1>8 DEF CoreStep
<1>9. CASE UNCHANGED vars
  BY <1>9, <1>t DEF vars, store, CoreStep
<1> QED
  BY <1>1, <1>2, <1>3, <1>4, <1>5, <1>6, <1>7, <1>8, <1>9 DEF Next

-----------------------------------------------------------------------------
(* What the steps do, without the functions they are written with *)

(* One proposal is revised.                                                *)
Revises(id, p) ==
    /\ id \in DOMAIN index /\ index[id] \in DOMAIN proposals
    /\ DOMAIN proposals' = DOMAIN proposals
    /\ Len(proposals') = Len(proposals)
    /\ \A k \in DOMAIN proposals :
         proposals'[k] = IF k = index[id] THEN p ELSE proposals[k]
    /\ UNCHANGED <<index, drawn>>

LEMMA ReviseShape ==
    ASSUME proposals \in Seq(Proposal), Indexes(index, proposals),
           NEW id \in DOMAIN index, NEW p \in Proposal, Revise(id, p), UNCHANGED <<index, drawn>>
    PROVE  Revises(id, p) /\ proposals' \in Seq(Proposal)
<1>1. index[id] \in DOMAIN proposals
  BY DEF Indexes
<1>2. proposals' = [proposals EXCEPT ![index[id]] = p]
  BY DEF Revise
<1> QED
  BY <1>1, <1>2 DEF Revises

LEMMA FoundType ==
    ASSUME proposals \in Seq(Proposal), Indexes(index, proposals), NEW id \in DOMAIN index
    PROVE  Find(id) \in Proposal /\ index[id] \in DOMAIN proposals
BY DEF Find, Indexes

LEMMA DocsType ==
    ASSUME log \in Seq(Generation)
    PROVE  Docs(log) \in Seq(Doc) /\ Len(Docs(log)) = Len(log) /\ DOMAIN Docs(log) = DOMAIN log
<1> DEFINE n == Len(log)
<1>1. n \in Nat /\ DOMAIN log = 1 .. n /\ \A i \in 1 .. n : log[i] \in Generation
  OBVIOUS
<1>2. \A i \in 1 .. n : log[i].doc \in Doc
  BY <1>1 DEF Generation
<1>3. Docs(log) = [i \in 1 .. n |-> log[i].doc]
  BY <1>1 DEF Docs
<1> HIDE DEF n
<1>4. Docs(log) \in [1 .. n -> Doc]
  BY <1>2, <1>3
<1>5. Docs(log) \in Seq(Doc)
  BY <1>1, <1>4, SeqDef
<1> QED
  BY <1>1, <1>4, <1>5, LenProperties DEF n

(* Validation changes the state and the diff, and nothing else.            *)
LEMMA ValidatedShape ==
    ASSUME log \in Seq(Generation), NEW p \in Proposal
    PROVE  /\ Validated(p) \in Proposal
           /\ Validated(p).id = p.id
           /\ Validated(p).doc = p.doc
           /\ Validated(p).base = p.base
           /\ Validated(p).epoch = p.epoch
           /\ Validated(p).incarnation = p.incarnation
           /\ Validated(p).state \in {"Validated", "Rejected"}
           /\ Validated(p).state = "Validated" =>
                p.doc \in Valid /\ Validated(p).against = Docs(log)
<1>1. Docs(log) \in Seq(Doc)
  BY DocsType
<1>2. CASE Stale(p)
  BY <1>2 DEF Validated, Proposal, Live, Terminal
<1>3. CASE ~ Stale(p)
  <2>1. Validated(p) = [p EXCEPT !.against = Docs(log),
                                 !.state = IF p.doc \in Valid THEN "Validated" ELSE "Rejected"]
    BY <1>3 DEF Validated
  <2> QED
    BY <1>1, <2>1 DEF Proposal, Live, Terminal
<1> QED
  BY <1>2, <1>3

(* Another state, and the rest as it was.                                  *)
LEMMA MarkedShape ==
    ASSUME NEW p \in Proposal, NEW s \in Live \cup Terminal
    PROVE  LET q == [p EXCEPT !.state = s] IN
           /\ q \in Proposal
           /\ q.id = p.id /\ q.doc = p.doc /\ q.base = p.base /\ q.epoch = p.epoch
           /\ q.incarnation = p.incarnation /\ q.state = s
BY DEF Proposal

-----------------------------------------------------------------------------
(* The invariant is inductive: one lemma per kind of step *)

LEMMA InitCoreInv ==
    ASSUME Init
    PROVE  CoreInv
<1>1. /\ log = <<>> /\ up = TRUE /\ epoch = 1 /\ incarnation = 1 /\ shutting = FALSE
      /\ proposals = <<>> /\ drawn = 0 /\ cancelled = {}
      /\ DOMAIN index = {}
      /\ MaxProposals \in Nat /\ MaxPending \in Nat
  BY RuntimeAssumption DEF Init
<1>2. DOMAIN log = {} /\ DOMAIN proposals = {}
  BY <1>1
<1>3. CoreTypes
  <2>1. log \in Seq(Generation) /\ proposals \in Seq(Proposal) /\ Len(proposals) = 0
    BY <1>1
  <2>2. IsFunctionOn(index, 0 .. MaxProposals, 1 .. MaxPending)
    BY <1>1 DEF IsFunctionOn
  <2>3. drawn \in 0 .. MaxProposals /\ Len(proposals) <= MaxPending
    BY <1>1, <2>1
  <2>4. cancelled \subseteq 1 .. MaxProposals
    BY <1>1
  <2>5. up \in BOOLEAN /\ shutting \in BOOLEAN /\ epoch \in Nat /\ incarnation \in Nat
    BY <1>1
  <2> QED
    BY <2>1, <2>2, <2>3, <2>4, <2>5 DEF CoreTypes
<1>4. Indexes(index, proposals) /\ Drawn
  BY <1>1, <1>2 DEF Indexes, Drawn
<1>5. Outcomes /\ Captures
  BY <1>1, <1>2 DEF Outcomes, Captures
<1>6. ValidLog /\ DiffMatchesParent /\ CommitOnce /\ CancelledNeverCommitted
  BY <1>2 DEF ValidLog, DiffMatchesParent, CommitOnce, CancelledNeverCommitted
<1> QED
  BY <1>3, <1>4, <1>5, <1>6 DEF CoreInv

(* What holds of the log alone stays when the log does.                    *)
LEMMA LogStays ==
    ASSUME CoreInv, UNCHANGED <<log, cancelled>>
    PROVE  /\ ValidLog' /\ DiffMatchesParent' /\ CommitOnce' /\ CancelledNeverCommitted'
BY DEF CoreInv, ValidLog, DiffMatchesParent, CommitOnce, CancelledNeverCommitted, Docs

LEMMA RevisedTable ==
    ASSUME CoreInv, NEW id \in DOMAIN index, NEW p \in Proposal, p.id = Find(id).id,
           Revise(id, p), UNCHANGED <<index, drawn>>
    PROVE  /\ Revises(id, p)
           /\ proposals' \in Seq(Proposal) /\ Len(proposals') <= MaxPending
           /\ Indexes(index, proposals)'
           /\ \A i \in DOMAIN proposals' : proposals'[i].id <= drawn'
           /\ \A x \in DOMAIN index' :
                Find(x)' = IF index[x] = index[id] THEN p ELSE Find(x)
<1>1. /\ proposals \in Seq(Proposal) /\ Indexes(index, proposals)
      /\ Len(proposals) <= MaxPending /\ Drawn
  BY DEF CoreInv, CoreTypes
<1>2. Revises(id, p) /\ proposals' \in Seq(Proposal)
  BY <1>1, ReviseShape
<1>3. Indexes(index, proposals)'
  BY <1>1, <1>2 DEF Indexes, Revises, Find
<1>4. \A i \in DOMAIN proposals' : proposals'[i].id <= drawn'
  BY <1>1, <1>2 DEF Drawn, Revises, Find
<1>5. Len(proposals') <= MaxPending
  BY <1>1, <1>2 DEF Revises
<1>6. \A x \in DOMAIN index' : Find(x)' = IF index[x] = index[id] THEN p ELSE Find(x)
  BY <1>1, <1>2 DEF Revises, Find, Indexes
<1> QED
  BY <1>2, <1>3, <1>4, <1>5, <1>6

(* Validation, and a commit that finds its proposal stale.                 *)
LEMMA RevisionKeepsCoreInv ==
    ASSUME CoreInv, NEW id \in DOMAIN index, NEW p \in Proposal,
           p.id = Find(id).id, p.doc = Find(id).doc, p.base = Find(id).base,
           p.epoch = Find(id).epoch, p.incarnation = Find(id).incarnation,
           Find(id).state \notin {"Committed", "Cancelled"},
           p.state = "Validated" => p.doc \in Valid /\ p.against = Docs(log),
           up,
           Revise(id, p), UNCHANGED <<index, drawn, store, cancelled>>
    PROVE  CoreInv'
<1>1. /\ CoreTypes /\ Drawn /\ Outcomes /\ Captures
  BY DEF CoreInv
<1>2. UNCHANGED <<log, up, epoch, incarnation, shutting>>
  BY DEF store
<1>3. /\ Revises(id, p)
      /\ proposals' \in Seq(Proposal) /\ Len(proposals') <= MaxPending
      /\ Indexes(index, proposals)'
      /\ \A i \in DOMAIN proposals' : proposals'[i].id <= drawn'
      /\ \A x \in DOMAIN index' :
           Find(x)' = IF index[x] = index[id] THEN p ELSE Find(x)
  BY RevisedTable
<1>4. CoreTypes'
  BY <1>1, <1>2, <1>3 DEF CoreTypes, IsFunctionOn
<1>5. Drawn'
  BY <1>1, <1>2, <1>3 DEF Drawn
<1>6. Outcomes'
  BY <1>1, <1>2, <1>3 DEF Outcomes, Find
<1>7. Captures'
  <2>1. index[id] \in DOMAIN proposals /\ Find(id) = proposals[index[id]]
    BY <1>3 DEF Revises, Find
  <2>2. Docs(log)' = Docs(log) /\ HeadGeneration' = HeadGeneration
    BY <1>2 DEF Docs, HeadGeneration
  <2>3. DOMAIN proposals' = DOMAIN proposals
    BY <1>3 DEF Revises
  <2>4. ASSUME NEW i \in DOMAIN proposals
        PROVE  /\ proposals'[i].base <= Len(log')
               /\ proposals'[i].state = "Validated" =>
                    /\ proposals'[i].doc \in Valid
                    /\ Fresh(i)' => proposals'[i].against = Docs(log)'
    <3>1. CASE i = index[id]
      BY <1>1, <1>2, <1>3, <2>1, <2>2, <3>1 DEF Captures, Fresh, HeadGeneration, Revises
    <3>2. CASE i # index[id]
      <4>1. proposals'[i] = proposals[i]
        BY <1>3, <3>2 DEF Revises
      <4> QED
        BY <1>1, <1>2, <2>2, <4>1 DEF Captures, Fresh, HeadGeneration
    <3> QED
      BY <3>1, <3>2
  <2> QED
    BY <1>1, <1>2, <2>3, <2>4 DEF Captures, Fresh, HeadGeneration
<1> QED
  BY <1>2, <1>3, <1>4, <1>5, <1>6, <1>7, LogStays DEF CoreInv

LEMMA CancelKeepsCoreInv ==
    ASSUME CoreInv, NEW id \in 1 .. MaxProposals, Cancel(id)
    PROVE  CoreInv'
<1> DEFINE p == [Find(id) EXCEPT !.state = "Cancelled"]
<1>1. CoreTypes /\ Drawn /\ Outcomes /\ Captures
  BY DEF CoreInv
<1>2. /\ up /\ id \in DOMAIN index
      /\ Find(id).state # "Committed"
      /\ Revise(id, p)
      /\ cancelled' = cancelled \cup {id}
      /\ UNCHANGED <<log, up, epoch, incarnation, shutting, index, drawn>>
  BY DEF Cancel, store
<1>3. Find(id) \in Proposal
  BY <1>2, FoundType DEF CoreInv, CoreTypes
<1>4. p \in Proposal /\ p.id = Find(id).id /\ p.state = "Cancelled" /\ p.base = Find(id).base
  BY <1>3, MarkedShape DEF Terminal
<1> HIDE DEF p
<1>5. /\ Revises(id, p)
      /\ proposals' \in Seq(Proposal) /\ Len(proposals') <= MaxPending
      /\ Indexes(index, proposals)'
      /\ \A i \in DOMAIN proposals' : proposals'[i].id <= drawn'
      /\ \A x \in DOMAIN index' :
           Find(x)' = IF index[x] = index[id] THEN p ELSE Find(x)
  BY <1>2, <1>4, RevisedTable
<1>6. CoreTypes'
  BY <1>1, <1>2, <1>5 DEF CoreTypes, IsFunctionOn
<1>7. Drawn'
  BY <1>1, <1>2, <1>5 DEF Drawn
<1>8. Outcomes'
  BY <1>1, <1>2, <1>4, <1>5 DEF Outcomes, Find
<1>9. Captures'
  <2>1. index[id] \in DOMAIN proposals /\ Find(id) = proposals[index[id]]
    BY <1>5 DEF Revises, Find
  <2>2. Docs(log)' = Docs(log) /\ HeadGeneration' = HeadGeneration
    BY <1>2 DEF Docs, HeadGeneration
  <2>3. DOMAIN proposals' = DOMAIN proposals
    BY <1>5 DEF Revises
  <2>4. ASSUME NEW i \in DOMAIN proposals
        PROVE  /\ proposals'[i].base <= Len(log')
               /\ proposals'[i].state = "Validated" =>
                    /\ proposals'[i].doc \in Valid
                    /\ Fresh(i)' => proposals'[i].against = Docs(log)'
    <3>1. proposals'[i] = p \/ proposals'[i] = proposals[i]
      BY <1>5 DEF Revises
    <3> QED
      BY <1>1, <1>2, <1>4, <2>1, <2>2, <3>1 DEF Captures, Fresh, HeadGeneration
  <2> QED
    BY <1>1, <1>2, <2>3, <2>4 DEF Captures, Fresh, HeadGeneration
<1>10. CancelledNeverCommitted'
  BY <1>1, <1>2 DEF CoreInv, CancelledNeverCommitted, Outcomes
<1>11. ValidLog' /\ DiffMatchesParent' /\ CommitOnce'
  BY <1>2 DEF CoreInv, ValidLog, DiffMatchesParent, CommitOnce, Docs
<1> QED
  BY <1>5, <1>6, <1>7, <1>8, <1>9, <1>10, <1>11 DEF CoreInv

(* The table at its limit: every proposal is hollow.                       *)
LEMMA RefusalKeepsCoreInv ==
    ASSUME CoreInv, RefuseAtLimit, CoreRest
    PROVE  CoreInv'
<1>1. CoreTypes /\ Indexes(index, proposals) /\ Drawn /\ Outcomes /\ Captures
  BY DEF CoreInv
<1>2. UNCHANGED <<log, up, epoch, incarnation, shutting, cancelled, index, drawn>>
  BY DEF RefuseAtLimit, CoreRest, store
<1>3. up /\ proposals' = [i \in DOMAIN proposals |-> Hollow(proposals[i])]
  BY DEF RefuseAtLimit, Admitting
<1>4. \A q \in Proposal :
        /\ Hollow(q) \in Proposal
        /\ Hollow(q).id = NoId /\ Hollow(q).incarnation = 0
        /\ Hollow(q).state = q.state /\ Hollow(q).base = q.base /\ Hollow(q).doc = q.doc
  <2>1. MaxProposals \in Nat
    BY RuntimeAssumption
  <2>2. ASSUME NEW q \in Proposal
        PROVE  /\ Hollow(q) \in Proposal
               /\ Hollow(q).id = NoId /\ Hollow(q).incarnation = 0
               /\ Hollow(q).state = q.state /\ Hollow(q).base = q.base /\ Hollow(q).doc = q.doc
    <3>1. 0 \in 0 .. MaxProposals /\ NoActor \in Actor \cup {NoActor} /\ 0 \in Nat
      BY <2>1
    <3> QED
      BY <3>1 DEF Hollow, Proposal, NoId
  <2> QED
    BY <2>2
<1> DEFINE n == Len(proposals)
<1>5. /\ n \in Nat /\ DOMAIN proposals = 1 .. n /\ n <= MaxPending
      /\ \A i \in 1 .. n : proposals[i] \in Proposal
  BY <1>1 DEF CoreTypes
<1>6. /\ DOMAIN proposals' = 1 .. n
      /\ \A i \in 1 .. n :
           /\ proposals'[i] \in Proposal
           /\ proposals'[i].id = NoId /\ proposals'[i].incarnation = 0
           /\ proposals'[i].state = proposals[i].state
           /\ proposals'[i].base = proposals[i].base /\ proposals'[i].doc = proposals[i].doc
  BY <1>3, <1>4, <1>5
<1> HIDE DEF n
<1>7. proposals' \in Seq(Proposal) /\ Len(proposals') = n
  <2>1. proposals' = [i \in 1 .. n |-> proposals'[i]]
    BY <1>3, <1>5
  <2>2. proposals' \in [1 .. n -> Proposal]
    BY <1>6, <2>1
  <2> QED
    BY <1>5, <1>6, <2>2, SeqDef, LenProperties
<1>8. CoreTypes'
  BY <1>1, <1>2, <1>5, <1>7 DEF CoreTypes, IsFunctionOn
<1>9. Indexes(index, proposals)'
  BY <1>1, <1>2, <1>5, <1>6 DEF Indexes
<1>10. Drawn'
  <2>1. 0 <= drawn
    BY <1>1 DEF CoreTypes
  <2> QED
    BY <1>1, <1>2, <1>6, <2>1 DEF Drawn, NoId
<1>11. Outcomes'
  BY <1>1, <1>2, <1>5, <1>6 DEF Outcomes, Find, Indexes
<1>12. Captures'
  <2>1. incarnation' # 0
    BY <1>1, <1>2 DEF Captures, CoreTypes
  <2> QED
    BY <1>1, <1>2, <1>3, <1>5, <1>6, <2>1 DEF Captures, Fresh
<1> QED
  BY <1>2, <1>8, <1>9, <1>10, <1>11, <1>12, LogStays DEF CoreInv

(* What the table holds after an eviction has all it had before.           *)
LEMMA RoomInv ==
    ASSUME CoreInv, up, ~ LimitExceeded
    PROVE  /\ Room \in Seq(Proposal)
           /\ Len(Room) < MaxPending
           /\ Indexes(RoomIndex, Room)
           /\ \A i \in DOMAIN Room :
                /\ Room[i].id <= drawn
                /\ Room[i].base <= Len(log)
                /\ Room[i].state = "Validated" =>
                     /\ Room[i].doc \in Valid
                     /\ /\ Room[i].epoch = epoch /\ Room[i].incarnation = incarnation
                        /\ Room[i].base = HeadGeneration
                        => Room[i].against = Docs(log)
           /\ \A id \in DOMAIN RoomIndex :
                /\ id \in 0 .. MaxProposals /\ id <= drawn
                /\ RoomIndex[id] \in DOMAIN Room
                /\ \A i \in DOMAIN log : log[i].by = id => Room[RoomIndex[id]].state = "Committed"
                /\ id \in cancelled => Room[RoomIndex[id]].state = "Cancelled"
<1>1. /\ CoreTypes /\ Indexes(index, proposals) /\ Drawn /\ Outcomes /\ Captures
  BY DEF CoreInv
<1>2. proposals \in Seq(Proposal) /\ Len(proposals) <= MaxPending
  BY <1>1 DEF CoreTypes
<1>3. /\ Room \in Seq(Proposal)
      /\ Len(Room) < MaxPending
      /\ \A k \in DOMAIN Room :
           Before(k) \in DOMAIN proposals /\ Room[k] = proposals[Before(k)]
      /\ Indexes(RoomIndex, Room)
      /\ \A id \in DOMAIN RoomIndex : id # NoId =>
           /\ id \in DOMAIN index
           /\ Room[RoomIndex[id]] = proposals[index[id]]
      /\ \A id \in DOMAIN RoomIndex :
           id \in DOMAIN index \/ \E i \in DOMAIN proposals : id = proposals[i].id
  BY <1>1, <1>2, RoomShape
<1>4. ASSUME NEW i \in DOMAIN Room
      PROVE  /\ Room[i].id <= drawn
             /\ Room[i].base <= Len(log)
             /\ Room[i].state = "Validated" =>
                  /\ Room[i].doc \in Valid
                  /\ /\ Room[i].epoch = epoch /\ Room[i].incarnation = incarnation
                     /\ Room[i].base = HeadGeneration
                     => Room[i].against = Docs(log)
  BY <1>1, <1>3 DEF Drawn, Captures, Fresh
<1>5. \A i \in DOMAIN proposals : proposals[i].id \in 0 .. MaxProposals
  <2>1. \A i \in DOMAIN proposals : proposals[i] \in Proposal
    BY <1>2
  <2> QED
    BY <2>1 DEF Proposal
<1>6. (\A i \in DOMAIN log : log[i].by # NoId) /\ NoId \notin cancelled
  <2>1. \A i \in DOMAIN log : log[i] \in Generation
    BY <1>1 DEF CoreTypes
  <2>2. \A g \in Generation : g.by # NoId
    BY DEF Generation, NoId
  <2> QED
    BY <1>1, <2>1, <2>2 DEF CoreTypes, NoId
<1>7. ASSUME NEW id \in DOMAIN RoomIndex
      PROVE  /\ id \in 0 .. MaxProposals /\ id <= drawn
             /\ RoomIndex[id] \in DOMAIN Room
             /\ \A i \in DOMAIN log : log[i].by = id => Room[RoomIndex[id]].state = "Committed"
             /\ id \in cancelled => Room[RoomIndex[id]].state = "Cancelled"
  <2>1. id \in 0 .. MaxProposals
    BY <1>1, <1>3, <1>5 DEF CoreTypes, IsFunctionOn
  <2>2. id <= drawn
    BY <1>1, <1>3 DEF Drawn
  <2>3. RoomIndex[id] \in DOMAIN Room
    BY <1>3 DEF Indexes
  <2>4. CASE id = NoId
    BY <1>6, <2>1, <2>2, <2>3, <2>4
  <2>5. CASE id # NoId
    BY <1>1, <1>3, <2>1, <2>2, <2>3, <2>5 DEF Outcomes, Find
  <2> QED
    BY <2>4, <2>5
<1> QED
  BY <1>3, <1>4, <1>7

LEMMA DomainRefusalKeepsCoreInv ==
    ASSUME CoreInv, RefuseDomain, CoreRest
    PROVE  CoreInv'
<1>1. CoreTypes /\ Drawn /\ Captures /\ up /\ ~ LimitExceeded
  BY DEF CoreInv, RefuseDomain, Admitting
<1>2. /\ UNCHANGED <<log, up, epoch, incarnation, shutting, cancelled, drawn>>
      /\ proposals' = Room /\ index' = RoomIndex
  BY DEF RefuseDomain, CoreRest, store
<1>3. /\ Room \in Seq(Proposal)
      /\ Len(Room) < MaxPending
      /\ Indexes(RoomIndex, Room)
      /\ \A i \in DOMAIN Room :
           /\ Room[i].id <= drawn
           /\ Room[i].base <= Len(log)
           /\ Room[i].state = "Validated" =>
                /\ Room[i].doc \in Valid
                /\ /\ Room[i].epoch = epoch /\ Room[i].incarnation = incarnation
                   /\ Room[i].base = HeadGeneration
                   => Room[i].against = Docs(log)
      /\ \A id \in DOMAIN RoomIndex :
           /\ id \in 0 .. MaxProposals /\ id <= drawn
           /\ RoomIndex[id] \in DOMAIN Room
           /\ \A i \in DOMAIN log : log[i].by = id => Room[RoomIndex[id]].state = "Committed"
           /\ id \in cancelled => Room[RoomIndex[id]].state = "Cancelled"
  BY <1>1, RoomInv
<1>4. CoreTypes'
  <2>1. Len(Room) \in Nat /\ DOMAIN Room = 1 .. Len(Room) /\ MaxPending \in Nat
    BY <1>3, RuntimeAssumption
  <2>2. Len(Room) <= MaxPending
    BY <1>3, <2>1
  <2>3. \A k \in DOMAIN Room : k \in 1 .. MaxPending
    BY <2>1, <2>2
  <2>4. IsFunctionOn(index, 0 .. MaxProposals, 1 .. MaxPending)'
    BY <1>2, <1>3, <2>3 DEF IsFunctionOn
  <2> QED
    BY <1>1, <1>2, <1>3, <2>2, <2>4 DEF CoreTypes
<1>5. Drawn'
  BY <1>1, <1>2, <1>3 DEF Drawn
<1>6. Outcomes'
  BY <1>2, <1>3 DEF Outcomes, Find
<1>7. Captures'
  BY <1>1, <1>2, <1>3 DEF Captures, Fresh, HeadGeneration, Docs
<1>8. Indexes(index, proposals)'
  BY <1>2, <1>3
<1> QED
  BY <1>2, <1>4, <1>5, <1>6, <1>7, <1>8, LogStays DEF CoreInv

(* A new proposal joins the table under an identity not known anywhere.    *)
LEMMA AdmissionKeepsCoreInv ==
    ASSUME CoreInv, NEW a \in Actor, NEW d \in Doc,
           NEW oversized \in BOOLEAN, Admit(a, d, oversized), CoreRest
    PROVE  CoreInv'
<1> DEFINE new == NewProposal(drawn + 1, a, d, oversized)
           n   == Len(Room)
<1>1. CoreTypes /\ Drawn /\ Captures
  BY DEF CoreInv
<1>2. /\ UNCHANGED <<log, up, epoch, incarnation, shutting, cancelled>>
      /\ up /\ ~ LimitExceeded /\ drawn < MaxProposals /\ drawn' = drawn + 1
      /\ proposals' = Append(Room, new)
      /\ index' = [id \in DOMAIN RoomIndex \cup {drawn + 1} |->
                    IF id \in DOMAIN RoomIndex THEN RoomIndex[id] ELSE Len(Room) + 1]
  BY DEF Admit, Admitting, CoreRest, store
<1>3. /\ Room \in Seq(Proposal)
      /\ Len(Room) < MaxPending
      /\ Indexes(RoomIndex, Room)
      /\ \A i \in DOMAIN Room :
           /\ Room[i].id <= drawn
           /\ Room[i].base <= Len(log)
           /\ Room[i].state = "Validated" =>
                /\ Room[i].doc \in Valid
                /\ /\ Room[i].epoch = epoch /\ Room[i].incarnation = incarnation
                   /\ Room[i].base = HeadGeneration
                   => Room[i].against = Docs(log)
      /\ \A id \in DOMAIN RoomIndex :
           /\ id \in 0 .. MaxProposals /\ id <= drawn
           /\ RoomIndex[id] \in DOMAIN Room
           /\ \A i \in DOMAIN log : log[i].by = id => Room[RoomIndex[id]].state = "Committed"
           /\ id \in cancelled => Room[RoomIndex[id]].state = "Cancelled"
  BY <1>1, <1>2, RoomInv
<1>4. /\ MaxPending \in Nat /\ MaxProposals \in Nat /\ drawn \in Nat /\ Len(log) \in Nat
      /\ n \in Nat /\ DOMAIN Room = 1 .. n
  BY <1>1, <1>3, RuntimeAssumption DEF CoreTypes
<1>5. /\ new \in Proposal
      /\ new.id = drawn + 1 /\ new.base = Len(log) /\ new.state \notin {"Validated", "Committed", "Cancelled"}
  <2>1. drawn + 1 \in 0 .. MaxProposals /\ epoch \in Nat /\ incarnation \in Nat
    BY <1>1, <1>2, <1>4 DEF CoreTypes
  <2>2. <<>> \in Seq(Doc)
    OBVIOUS
  <2> QED
    BY <1>4, <2>1, <2>2 DEF NewProposal, Proposal, HeadGeneration, Live, Terminal
<1> HIDE DEF new
<1>6. /\ proposals' \in Seq(Proposal) /\ Len(proposals') = n + 1
      /\ DOMAIN proposals' = 1 .. n + 1
      /\ \A i \in 1 .. n : proposals'[i] = Room[i]
      /\ proposals'[n + 1] = new
  BY <1>2, <1>3, <1>4, <1>5
<1>7. /\ drawn + 1 \notin DOMAIN RoomIndex
      /\ DOMAIN index' = DOMAIN RoomIndex \cup {drawn + 1}
      /\ \A id \in DOMAIN RoomIndex : index'[id] = RoomIndex[id] /\ RoomIndex[id] \in 1 .. n
      /\ index'[drawn + 1] = n + 1
  BY <1>2, <1>3, <1>4
<1> HIDE DEF n
<1>8. CoreTypes'
  <2>1. n + 1 <= MaxPending
    BY <1>3, <1>4 DEF n
  <2>2. ASSUME NEW id \in DOMAIN index'
        PROVE  id \in 0 .. MaxProposals /\ index'[id] \in 1 .. MaxPending
    <3>1. CASE id \in DOMAIN RoomIndex
      BY <1>3, <1>4, <1>7, <2>1, <3>1
    <3>2. CASE id = drawn + 1
      BY <1>2, <1>4, <1>7, <2>1, <3>2
    <3> QED
      BY <1>7, <3>1, <3>2
  <2>3. drawn' \in 0 .. MaxProposals
    BY <1>2, <1>4
  <2>4. IsFunctionOn(index, 0 .. MaxProposals, 1 .. MaxPending)'
    BY <2>2 DEF IsFunctionOn
  <2> QED
    BY <1>1, <1>2, <1>6, <2>1, <2>3, <2>4 DEF CoreTypes
<1>9. Drawn'
  <2>1. \A i \in DOMAIN log : log[i].by <= drawn /\ log[i].by \in Nat
    <3>1. \A i \in DOMAIN log : log[i] \in Generation
      BY <1>1 DEF CoreTypes
    <3> QED
      BY <1>1, <3>1 DEF Drawn, Generation
  <2>2. \A id \in cancelled : id <= drawn /\ id \in Nat
    BY <1>1 DEF Drawn, CoreTypes
  <2>3. \A i \in DOMAIN Room : Room[i].id \in Nat
    <3>1. \A i \in DOMAIN Room : Room[i] \in Proposal
      BY <1>3
    <3> QED
      BY <3>1 DEF Proposal
  <2>4. \A i \in DOMAIN proposals' : proposals'[i].id <= drawn'
    BY <1>2, <1>3, <1>4, <1>5, <1>6, <2>3
  <2>5. \A id \in DOMAIN index' : id <= drawn'
    BY <1>2, <1>3, <1>4, <1>7
  <2> QED
    BY <1>2, <1>4, <2>1, <2>2, <2>4, <2>5 DEF Drawn
<1>10. Indexes(index, proposals)'
  <2>1. ASSUME NEW i \in DOMAIN proposals', proposals'[i].id # NoId
        PROVE  proposals'[i].id \in DOMAIN index' /\ index'[proposals'[i].id] = i
    <3>1. CASE i = n + 1
      BY <1>5, <1>6, <1>7, <3>1
    <3>2. CASE i \in 1 .. n
      <4>1. proposals'[i] = Room[i] /\ i \in DOMAIN Room
        BY <1>4, <1>6, <3>2
      <4>2. Room[i].id \in DOMAIN RoomIndex /\ RoomIndex[Room[i].id] = i
        BY <1>3, <2>1, <4>1 DEF Indexes
      <4> QED
        BY <1>7, <4>1, <4>2
    <3> QED
      BY <1>4, <1>6, <3>1, <3>2
  <2>2. ASSUME NEW id \in DOMAIN index'
        PROVE  index'[id] \in DOMAIN proposals' /\ proposals'[index'[id]].id \in {id, NoId}
    <3>1. CASE id = drawn + 1
      BY <1>4, <1>5, <1>6, <1>7, <3>1
    <3>2. CASE id \in DOMAIN RoomIndex
      <4>1. /\ index'[id] = RoomIndex[id] /\ RoomIndex[id] \in 1 .. n
            /\ Room[RoomIndex[id]].id \in {id, NoId}
        BY <1>3, <1>7, <3>2 DEF Indexes
      <4> QED
        BY <1>4, <1>6, <4>1
    <3> QED
      BY <1>7, <3>1, <3>2
  <2> QED
    BY <2>1, <2>2 DEF Indexes
<1>11. Outcomes'
  <2>1. \A i \in DOMAIN log : log[i].by # drawn + 1
    <3>1. \A i \in DOMAIN log : log[i] \in Generation
      BY <1>1 DEF CoreTypes
    <3> QED
      BY <1>1, <1>4, <3>1 DEF Drawn, Generation
  <2>2. drawn + 1 \notin cancelled
    BY <1>1, <1>4 DEF Drawn
  <2>3. \A id \in DOMAIN RoomIndex : proposals'[index'[id]] = Room[RoomIndex[id]]
    BY <1>6, <1>7
  <2> QED
    BY <1>2, <1>3, <1>7, <2>1, <2>2, <2>3 DEF Outcomes, Find
<1>12. Captures'
  <2>1. Docs(log)' = Docs(log) /\ HeadGeneration' = HeadGeneration
    BY <1>2 DEF Docs, HeadGeneration
  <2>2. ASSUME NEW i \in DOMAIN proposals'
        PROVE  /\ proposals'[i].base <= Len(log')
               /\ proposals'[i].state = "Validated" =>
                    /\ proposals'[i].doc \in Valid
                    /\ Fresh(i)' => proposals'[i].against = Docs(log)'
    <3>1. CASE i = n + 1
      BY <1>2, <1>4, <1>5, <1>6, <3>1
    <3>2. CASE i \in 1 .. n
      <4>1. proposals'[i] = Room[i] /\ i \in DOMAIN Room
        BY <1>4, <1>6, <3>2
      <4> QED
        BY <1>2, <1>3, <2>1, <4>1 DEF Fresh
    <3> QED
      BY <1>4, <1>6, <3>1, <3>2
  <2> QED
    BY <1>1, <1>2, <2>2 DEF Captures
<1> QED
  BY <1>2, <1>8, <1>9, <1>10, <1>11, <1>12, LogStays DEF CoreInv

-----------------------------------------------------------------------------
(* The documents of a part of the log *)

LEMMA DocsOfPrefix ==
    ASSUME NEW s \in Seq(Generation), NEW n \in 0 .. Len(s)
    PROVE  /\ SubSeq(s, 1, n) \in Seq(Generation)
           /\ Len(SubSeq(s, 1, n)) = n /\ DOMAIN SubSeq(s, 1, n) = 1 .. n
           /\ \A i \in 1 .. n : SubSeq(s, 1, n)[i] = s[i]
           /\ Docs(SubSeq(s, 1, n)) = [i \in 1 .. n |-> s[i].doc]
<1>1. /\ SubSeq(s, 1, n) \in Seq(Generation)
      /\ Len(SubSeq(s, 1, n)) = n /\ DOMAIN SubSeq(s, 1, n) = 1 .. n
      /\ \A i \in 1 .. n : SubSeq(s, 1, n)[i] = s[i]
  OBVIOUS
<1>2. Docs(SubSeq(s, 1, n)) = [i \in 1 .. n |-> s[i].doc]
  BY <1>1 DEF Docs
<1> QED
  BY <1>1, <1>2

(* Logs that agree up to n hold the same documents up to n.                *)
LEMMA SamePast ==
    ASSUME NEW s \in Seq(Generation), NEW r \in Seq(Generation),
           NEW n \in 0 .. Len(s), n <= Len(r), \A i \in 1 .. n : s[i] = r[i]
    PROVE  Docs(SubSeq(s, 1, n)) = Docs(SubSeq(r, 1, n))
<1>1. n \in 0 .. Len(r)
  OBVIOUS
<1>2. [i \in 1 .. n |-> s[i].doc] = [i \in 1 .. n |-> r[i].doc]
  OBVIOUS
<1>3. Docs(SubSeq(s, 1, n)) = [i \in 1 .. n |-> s[i].doc]
  BY DocsOfPrefix
<1>4. Docs(SubSeq(r, 1, n)) = [i \in 1 .. n |-> r[i].doc]
  BY <1>1, DocsOfPrefix
<1> QED
  BY <1>2, <1>3, <1>4

LEMMA WholePast ==
    ASSUME NEW s \in Seq(Generation)
    PROVE  Docs(SubSeq(s, 1, Len(s))) = Docs(s)
<1>1. Len(s) \in 0 .. Len(s) /\ DOMAIN s = 1 .. Len(s)
  OBVIOUS
<1>2. Docs(s) = [i \in 1 .. Len(s) |-> s[i].doc]
  BY <1>1 DEF Docs
<1> QED
  BY <1>1, <1>2, DocsOfPrefix

(* What a commit does to the log and to its proposal.                      *)
CommitsTo(id) ==
    LET n == Len(log) IN
    /\ log' \in Seq(Generation) /\ Len(log') = n + 1
    /\ \A i \in 1 .. n : log'[i] = log[i]
    /\ log'[n + 1].by = id
    /\ log'[n + 1].doc \in Valid
    /\ log'[n + 1].against = Docs(log)
    /\ \E doc \in Valid : Docs(log') = Append(Docs(log), doc)

LEMMA CommitShape ==
    ASSUME CoreInv, NEW id \in 1 .. MaxProposals, NEW t,
           CommitSucceeds(id, t)
    PROVE  CommitsTo(id)
<1> DEFINE p == Find(id)
           g == [doc |-> p.doc, epoch |-> epoch, incarnation |-> incarnation, by |-> id,
                 against |-> p.against]
           n == Len(log)
<1>1. /\ CoreTypes /\ Indexes(index, proposals) /\ Captures
      /\ log \in Seq(Generation) /\ n \in Nat /\ DOMAIN log = 1 .. n
  BY DEF CoreInv, CoreTypes
<1>2. /\ id \in DOMAIN index /\ Commits(p, t) /\ log' = Append(log, g)
  BY DEF CommitSucceeds
<1>3. p \in Proposal /\ index[id] \in DOMAIN proposals /\ p = proposals[index[id]]
  BY <1>1, <1>2, FoundType DEF CoreTypes, Find
<1>4. p.state = "Validated" /\ Fresh(index[id])
  BY <1>2, <1>3 DEF Commits, Stale, StaleProcess, StaleBase, Fresh
<1>5. p.doc \in Valid /\ p.against = Docs(log)
  BY <1>1, <1>3, <1>4 DEF Captures
<1> HIDE DEF p
<1>6. g \in Generation /\ g.by = id /\ g.doc = p.doc /\ g.against = p.against
  BY <1>1, <1>3 DEF Generation, Proposal, CoreTypes
<1> HIDE DEF g
<1>7. /\ log' \in Seq(Generation) /\ Len(log') = n + 1 /\ DOMAIN log' = 1 .. n + 1
      /\ \A i \in 1 .. n : log'[i] = log[i]
      /\ log'[n + 1] = g
  BY <1>1, <1>2, <1>6
<1>8. Docs(log') = Append(Docs(log), p.doc)
  <2>1. /\ Docs(log) \in Seq(Doc) /\ Len(Docs(log)) = n
        /\ \A i \in 1 .. n : Docs(log)[i] = log[i].doc
    BY <1>1, DocsType DEF Docs
  <2>2. p.doc \in Doc
    BY <1>3 DEF Proposal
  <2>3. Docs(log') = [i \in 1 .. n + 1 |-> log'[i].doc]
    BY <1>7 DEF Docs
  <2>4. Append(Docs(log), p.doc) =
          [i \in 1 .. n + 1 |-> IF i = n + 1 THEN p.doc ELSE Docs(log)[i]]
    BY <2>1, <2>2
  <2>5. \A i \in 1 .. n + 1 : log'[i].doc = IF i = n + 1 THEN p.doc ELSE Docs(log)[i]
    BY <1>1, <1>6, <1>7, <2>1
  <2> QED
    BY <2>3, <2>4, <2>5
<1> QED
  BY <1>5, <1>6, <1>7, <1>8 DEF CommitsTo

LEMMA CommitKeepsCoreInv ==
    ASSUME CoreInv, NEW id \in 1 .. MaxProposals, NEW t,
           CommitSucceeds(id, t)
    PROVE  CoreInv'
<1> DEFINE p == [Find(id) EXCEPT !.state = "Committed"]
           n == Len(log)
<1>1. /\ CoreTypes /\ Drawn /\ Outcomes /\ Captures /\ ValidLog
      /\ DiffMatchesParent /\ CommitOnce /\ CancelledNeverCommitted
  BY DEF CoreInv
<1>2. /\ up /\ id \in DOMAIN index
      /\ Find(id).state = "Validated"
      /\ Revise(id, p)
      /\ UNCHANGED <<up, epoch, incarnation, shutting, index, drawn, cancelled>>
  BY DEF CommitSucceeds, Admitting, Commits
<1>3. Find(id) \in Proposal
  BY <1>2, FoundType DEF CoreInv, CoreTypes
<1>4. p \in Proposal /\ p.id = Find(id).id /\ p.state = "Committed" /\ p.base = Find(id).base
  BY <1>3, MarkedShape DEF Terminal
<1> HIDE DEF p
<1>5. /\ Revises(id, p)
      /\ proposals' \in Seq(Proposal) /\ Len(proposals') <= MaxPending
      /\ Indexes(index, proposals)'
      /\ \A i \in DOMAIN proposals' : proposals'[i].id <= drawn'
      /\ \A x \in DOMAIN index' :
           Find(x)' = IF index[x] = index[id] THEN p ELSE Find(x)
  BY <1>2, <1>4, RevisedTable
<1>6. /\ log \in Seq(Generation) /\ n \in Nat /\ DOMAIN log = 1 .. n
      /\ log' \in Seq(Generation) /\ Len(log') = n + 1 /\ DOMAIN log' = 1 .. n + 1
      /\ \A i \in 1 .. n : log'[i] = log[i]
      /\ log'[n + 1].by = id
      /\ log'[n + 1].doc \in Valid
      /\ log'[n + 1].against = Docs(log)
  BY <1>1, CommitShape DEF CommitsTo, CoreTypes
<1> HIDE DEF n
<1>7. CoreTypes'
  BY <1>1, <1>2, <1>5, <1>6 DEF CoreTypes, IsFunctionOn
<1>8. Drawn'
  BY <1>1, <1>2, <1>5, <1>6 DEF Drawn
<1>9. \A i \in 1 .. n : log[i].by # id
  BY <1>1, <1>2, <1>6 DEF Outcomes
<1>10. id \notin cancelled
  BY <1>1, <1>2 DEF Outcomes
<1>11. Outcomes'
  <2>1. \A x \in DOMAIN index', i \in DOMAIN log' : log'[i].by = x => Find(x)'.state = "Committed"
    <3>1. ASSUME NEW x \in DOMAIN index, NEW i \in 1 .. n, log[i].by = x
          PROVE  Find(x)'.state = "Committed"
      BY <1>1, <1>2, <1>4, <1>5, <1>6, <3>1 DEF Outcomes
    <3>2. Find(id)'.state = "Committed"
      BY <1>2, <1>4, <1>5
    <3> QED
      BY <1>2, <1>6, <3>1, <3>2
  <2>2. \A x \in DOMAIN index' : x \in cancelled' => Find(x)'.state = "Cancelled"
    BY <1>1, <1>2, <1>5 DEF Outcomes, Find
  <2> QED
    BY <2>1, <2>2 DEF Outcomes
<1>12. Captures'
  <2>1. index[id] \in DOMAIN proposals /\ Find(id) = proposals[index[id]]
    BY <1>5 DEF Revises, Find
  <2>2. DOMAIN proposals' = DOMAIN proposals
    BY <1>5 DEF Revises
  <2>3. ASSUME NEW i \in DOMAIN proposals
        PROVE  /\ proposals'[i].base <= Len(log')
               /\ proposals'[i].state = "Validated" =>
                    /\ proposals'[i].doc \in Valid
                    /\ Fresh(i)' => proposals'[i].against = Docs(log)'
    <3>0. proposals[i].base \in Nat /\ proposals[i].base <= n
      <4>1. proposals[i] \in Proposal
        BY <1>1 DEF CoreTypes
      <4> QED
        BY <1>1, <4>1 DEF Proposal, Captures, n
    <3>1. CASE i = index[id]
      <4>1. proposals'[i] = p /\ p.base = proposals[i].base
        BY <1>4, <1>5, <2>1, <3>1 DEF Revises
      <4> QED
        BY <1>4, <1>6, <3>0, <4>1
    <3>2. CASE i # index[id]
      <4>1. proposals'[i] = proposals[i]
        BY <1>5, <3>2 DEF Revises
      <4>2. ~ Fresh(i)'
        BY <1>6, <3>0, <4>1 DEF Fresh, HeadGeneration
      <4> QED
        BY <1>1, <1>6, <3>0, <4>1, <4>2 DEF Captures
    <3> QED
      BY <3>1, <3>2
  <2> QED
    BY <1>1, <1>2, <2>2, <2>3 DEF Captures
<1>13. ValidLog'
  BY <1>1, <1>6 DEF ValidLog
<1>14. DiffMatchesParent'
  <2>1. ASSUME NEW i \in 1 .. n + 1
        PROVE  log'[i].against = Docs(SubSeq(log, 1, i - 1))'
    <3>1. i - 1 \in 0 .. n /\ \A j \in 1 .. i - 1 : log'[j] = log[j]
      BY <1>6
    <3>2. Docs(SubSeq(log', 1, i - 1)) = Docs(SubSeq(log, 1, i - 1))
      <4>1. i - 1 \in 0 .. Len(log') /\ i - 1 <= Len(log)
        BY <1>6, <3>1 DEF n
      <4> QED
        BY <1>6, <3>1, <4>1, SamePast
    <3>3. CASE i \in 1 .. n
      BY <1>1, <1>6, <3>2, <3>3 DEF DiffMatchesParent
    <3>4. CASE i = n + 1
      <4>1. i - 1 = Len(log)
        BY <1>6, <3>4 DEF n
      <4> QED
        BY <1>6, <3>2, <3>4, <4>1, WholePast
    <3> QED
      BY <1>6, <3>3, <3>4
  <2> QED
    BY <1>6, <2>1 DEF DiffMatchesParent
<1>15. CommitOnce'
  BY <1>1, <1>6, <1>9 DEF CommitOnce
<1>16. CancelledNeverCommitted'
  BY <1>1, <1>2, <1>6, <1>10 DEF CancelledNeverCommitted
<1> QED
  BY <1>5, <1>7, <1>8, <1>11, <1>12, <1>13, <1>14, <1>15, <1>16 DEF CoreInv

(* With the process goes the table; the log stays.                         *)
LEMMA CrashKeepsCoreInv ==
    ASSUME CoreInv, Crash
    PROVE  CoreInv'
<1>1. CoreTypes /\ Drawn /\ Captures
  BY DEF CoreInv
<1>2. /\ UNCHANGED <<log, incarnation, drawn, cancelled>>
      /\ up' = FALSE /\ epoch' = 0 /\ shutting' = FALSE
      /\ proposals' = <<>> /\ index' = [id \in {} |-> 0]
  BY DEF Crash
<1>3. /\ DOMAIN proposals' = {} /\ DOMAIN index' = {}
      /\ proposals' \in Seq(Proposal) /\ Len(proposals') = 0 /\ MaxPending \in Nat
  BY <1>2, RuntimeAssumption
<1>4. CoreTypes'
  <2>1. IsFunctionOn(index, 0 .. MaxProposals, 1 .. MaxPending)'
    BY <1>3 DEF IsFunctionOn
  <2>2. (Len(proposals) <= MaxPending)'
    BY <1>3
  <2>3. epoch' \in Nat /\ up' \in BOOLEAN /\ shutting' \in BOOLEAN
    BY <1>2
  <2> QED
    BY <1>1, <1>2, <1>3, <2>1, <2>2, <2>3 DEF CoreTypes
<1>5. Drawn' /\ Indexes(index, proposals)' /\ Outcomes' /\ Captures'
  BY <1>1, <1>2, <1>3 DEF Drawn, Indexes, Outcomes, Captures
<1> QED
  BY <1>2, <1>4, <1>5, LogStays DEF CoreInv

(* Recovery keeps a beginning of the log, and the table is empty.          *)
LEMMA ReopenKeepsCoreInv ==
    ASSUME CoreInv, Reopen
    PROVE  CoreInv'
<1>1. /\ CoreTypes /\ Drawn /\ Captures /\ Indexes(index, proposals) /\ ValidLog
      /\ DiffMatchesParent /\ CommitOnce /\ CancelledNeverCommitted
  BY DEF CoreInv
<1>2. PICK n \in 0 .. Len(log) :
        /\ log' = SubSeq(log, 1, n)
        /\ epoch' = IF n = 0 THEN 1 ELSE log[n].epoch + 1
  BY DEF Reopen
<1>3. /\ ~ up /\ up' = TRUE /\ incarnation' = incarnation + 1
      /\ UNCHANGED <<shutting, proposals, index, drawn, cancelled>>
  BY DEF Reopen, table
<1>4. /\ log \in Seq(Generation) /\ Len(log) \in Nat /\ DOMAIN log = 1 .. Len(log)
      /\ n \in Nat /\ n <= Len(log)
  BY <1>1 DEF CoreTypes
<1>5. /\ log' \in Seq(Generation) /\ Len(log') = n /\ DOMAIN log' = 1 .. n
      /\ \A i \in 1 .. n : log'[i] = log[i] /\ i \in DOMAIN log
  <2>1. SubSeq(log, 1, n) \in Seq(Generation)
    BY <1>4, DocsOfPrefix
  <2>2. /\ Len(SubSeq(log, 1, n)) = n /\ DOMAIN SubSeq(log, 1, n) = 1 .. n
        /\ \A i \in 1 .. n : SubSeq(log, 1, n)[i] = log[i]
    BY <1>4, DocsOfPrefix
  <2> QED
    BY <1>2, <1>4, <2>1, <2>2
<1>6. proposals = <<>> /\ DOMAIN proposals = {} /\ DOMAIN index = {}
  <2>1. proposals = <<>>
    BY <1>1, <1>3 DEF Captures
  <2>2. DOMAIN proposals = {}
    BY <2>1
  <2> QED
    BY <1>1, <2>1, <2>2 DEF Indexes
<1>7. CoreTypes'
  <2>1. epoch' \in Nat
    <3>1. CASE n = 0
      BY <1>2, <3>1
    <3>2. CASE n # 0
      <4>1. log[n] \in Generation
        BY <1>4, <3>2
      <4> QED
        BY <1>2, <3>2, <4>1 DEF Generation
    <3> QED
      BY <3>1, <3>2
  <2> QED
    BY <1>1, <1>3, <1>5, <2>1 DEF CoreTypes, IsFunctionOn
<1>8. Drawn' /\ Indexes(index, proposals)' /\ Outcomes'
  BY <1>1, <1>3, <1>5, <1>6 DEF Drawn, Indexes, Outcomes
<1>9. Captures'
  BY <1>1, <1>3, <1>5, <1>6 DEF Captures, CoreTypes
<1>10. ValidLog' /\ CommitOnce' /\ CancelledNeverCommitted'
  BY <1>1, <1>3, <1>5 DEF ValidLog, CommitOnce, CancelledNeverCommitted
<1>11. DiffMatchesParent'
  <2>1. ASSUME NEW i \in 1 .. n
        PROVE  log'[i].against = Docs(SubSeq(log, 1, i - 1))'
    <3>1. /\ i - 1 \in 0 .. Len(log') /\ i - 1 <= Len(log)
          /\ \A j \in 1 .. i - 1 : log'[j] = log[j]
      BY <1>4, <1>5
    <3>2. Docs(SubSeq(log', 1, i - 1)) = Docs(SubSeq(log, 1, i - 1))
      BY <1>4, <1>5, <3>1, SamePast
    <3> QED
      BY <1>1, <1>5, <3>2 DEF DiffMatchesParent
  <2> QED
    BY <1>5, <2>1 DEF DiffMatchesParent
<1> QED
  BY <1>7, <1>8, <1>9, <1>10, <1>11 DEF CoreInv

LEMMA CoreStepKeepsCoreInv ==
    ASSUME CoreInv, CoreStep
    PROVE  CoreInv'
<1>1. CASE RefuseAtLimit /\ CoreRest
  BY <1>1, RefusalKeepsCoreInv
<1>2. CASE RefuseDomain /\ CoreRest
  BY <1>2, DomainRefusalKeepsCoreInv
<1>3. CASE \E a \in Actor, d \in Doc, oversized \in BOOLEAN : Admit(a, d, oversized) /\ CoreRest
  BY <1>3, AdmissionKeepsCoreInv
<1>4. ASSUME NEW id \in 1 .. MaxProposals, ValidateFound(id)
      PROVE  CoreInv'
  <2> DEFINE p == Validated(Find(id))
  <2>1. /\ up /\ id \in DOMAIN index /\ Revise(id, p)
        /\ Find(id).state \in Live \cup {"Rejected"}
        /\ UNCHANGED <<store, index, drawn, cancelled>>
    BY <1>4 DEF ValidateFound
  <2>2. Find(id) \in Proposal /\ log \in Seq(Generation)
    BY <2>1, FoundType DEF CoreInv, CoreTypes
  <2>3. /\ p \in Proposal
        /\ p.id = Find(id).id /\ p.doc = Find(id).doc /\ p.base = Find(id).base
        /\ p.epoch = Find(id).epoch /\ p.incarnation = Find(id).incarnation
        /\ p.state = "Validated" => p.doc \in Valid /\ p.against = Docs(log)
    BY <2>2, ValidatedShape
  <2>4. Find(id).state \notin {"Committed", "Cancelled"}
    BY <2>1 DEF Live
  <2> HIDE DEF p
  <2> QED
    BY <2>1, <2>3, <2>4, RevisionKeepsCoreInv
<1>5. ASSUME NEW id \in 1 .. MaxProposals, CommitRejects(id)
      PROVE  CoreInv'
  <2> DEFINE p == [Find(id) EXCEPT !.state = "Rejected"]
  <2>1. /\ up /\ id \in DOMAIN index /\ Revise(id, p)
        /\ Find(id).state = "Validated"
        /\ UNCHANGED <<store, index, drawn, cancelled>>
    BY <1>5 DEF CommitRejects, FoundStale, Admitting
  <2>2. Find(id) \in Proposal
    BY <2>1, FoundType DEF CoreInv, CoreTypes
  <2>3. /\ p \in Proposal
        /\ p.id = Find(id).id /\ p.doc = Find(id).doc /\ p.base = Find(id).base
        /\ p.epoch = Find(id).epoch /\ p.incarnation = Find(id).incarnation
        /\ p.state = "Rejected"
    BY <2>2, MarkedShape DEF Terminal
  <2> HIDE DEF p
  <2> QED
    BY <2>1, <2>3, RevisionKeepsCoreInv
<1>6. ASSUME NEW id \in 1 .. MaxProposals, NEW t, CommitSucceeds(id, t)
      PROVE  CoreInv'
  BY <1>6, CommitKeepsCoreInv
<1>7. ASSUME NEW id \in 1 .. MaxProposals, Cancel(id)
      PROVE  CoreInv'
  BY <1>7, CancelKeepsCoreInv
<1>8. CASE UNCHANGED <<log, up, epoch, incarnation, table, cancelled>> /\ shutting' \in BOOLEAN
  <2>1. /\ UNCHANGED <<log, up, epoch, incarnation, proposals, index, drawn, cancelled>>
        /\ shutting' \in BOOLEAN
    BY <1>8 DEF table
  <2>2. CoreTypes /\ Indexes(index, proposals) /\ Drawn /\ Outcomes /\ Captures
    BY DEF CoreInv
  <2>3. CoreTypes' /\ Indexes(index, proposals)'
    BY <2>1, <2>2 DEF CoreTypes, IsFunctionOn, Indexes
  <2>4. Drawn' /\ Outcomes' /\ Captures'
    BY <2>1, <2>2 DEF Drawn, Outcomes, Captures, Find, Fresh, HeadGeneration, Docs
  <2> QED
    BY <2>1, <2>3, <2>4, LogStays DEF CoreInv
<1>9. CASE Crash
  BY <1>9, CrashKeepsCoreInv
<1>10. CASE Reopen
  BY <1>10, ReopenKeepsCoreInv
<1> QED
  BY <1>1, <1>2, <1>3, <1>4, <1>5, <1>6, <1>7, <1>8, <1>9, <1>10 DEF CoreStep

(* Without a hollow proposal the index holds exactly the identities of the *)
(* table.                                                                  *)
LEMMA CoreInvIndexExact ==
    ASSUME CoreInv
    PROVE  IndexExact
<1> SUFFICES ASSUME \A i \in DOMAIN proposals : proposals[i].id # NoId
             PROVE  /\ DOMAIN index = {proposals[i].id : i \in DOMAIN proposals}
                    /\ \A i \in DOMAIN proposals : index[proposals[i].id] = i
  BY DEF IndexExact
<1>1. Indexes(index, proposals)
  BY DEF CoreInv
<1>2. \A i \in DOMAIN proposals : proposals[i].id \in DOMAIN index /\ index[proposals[i].id] = i
  BY <1>1 DEF Indexes
<1>3. \A id \in DOMAIN index : index[id] \in DOMAIN proposals /\ proposals[index[id]].id = id
  BY <1>1 DEF Indexes
<1> QED
  BY <1>2, <1>3

-----------------------------------------------------------------------------
(* The log of documents is an IntentLog *)

LEMMA InitLog ==
    ASSUME Init
    PROVE  Log!Init
<1>1. log = <<>> /\ up = TRUE
  BY DEF Init
<1>2. Docs(log) = <<>>
  BY <1>1 DEF Docs
<1> QED
  BY <1>1, <1>2 DEF Log!Init

LEMMA CoreStepLogs ==
    ASSUME CoreInv, CoreStep
    PROVE  [Log!Next]_(Log!vars)
<1>1. CoreTypes
  BY DEF CoreInv
<1>2. CASE UNCHANGED <<log, up>>
  BY <1>2 DEF Log!vars, Docs
<1>3. ASSUME NEW id \in 1 .. MaxProposals, NEW t, CommitSucceeds(id, t)
      PROVE  Log!Next
  <2>1. PICK doc \in Valid : Docs(log') = Append(Docs(log), doc)
    BY <1>3, CommitShape DEF CommitsTo
  <2>2. up /\ up' = up
    BY <1>3 DEF CommitSucceeds, Admitting
  <2>3. Docs(log)' = Append(Docs(log), doc)
    BY <2>1 DEF Docs
  <2> QED
    BY <2>2, <2>3 DEF Log!Next, Log!Commit
<1>4. CASE Crash
  <2>1. up /\ up' = FALSE /\ Docs(log)' = Docs(log)
    BY <1>4 DEF Crash, Docs
  <2> QED
    BY <2>1 DEF Log!Next, Log!Stop
<1>5. CASE Reopen
  <2>1. PICK n \in 0 .. Len(log) : (n = 0 => log = <<>>) /\ log' = SubSeq(log, 1, n)
    BY <1>5 DEF Reopen
  <2>2. ~ up /\ up' = TRUE
    BY <1>5 DEF Reopen
  <2>3. /\ Docs(log) \in Seq(Doc) /\ Len(Docs(log)) = Len(log)
        /\ \A i \in 1 .. n : Docs(log)[i] = log[i].doc
    BY <1>1, DocsType DEF CoreTypes, Docs
  <2>4. Docs(log)' = [i \in 1 .. n |-> log[i].doc]
    <3>1. Docs(SubSeq(log, 1, n)) = [i \in 1 .. n |-> log[i].doc]
      BY <1>1, DocsOfPrefix DEF CoreTypes
    <3> QED
      BY <2>1, <3>1 DEF Docs
  <2>5. SubSeq(Docs(log), 1, n) = [i \in 1 .. n |-> Docs(log)[i]]
    BY <2>3
  <2>6. Docs(log)' = SubSeq(Docs(log), 1, n)
    BY <2>3, <2>4, <2>5
  <2>7. n = 0 => Docs(log) = <<>>
    BY <2>1 DEF Docs
  <2> QED
    BY <2>2, <2>3, <2>6, <2>7 DEF Log!Next, Log!Recover
<1>6. CASE (RefuseAtLimit \/ RefuseDomain) /\ CoreRest
  BY <1>2, <1>6 DEF CoreRest, store
<1>7. CASE \E a \in Actor, d \in Doc, oversized \in BOOLEAN : Admit(a, d, oversized) /\ CoreRest
  BY <1>2, <1>7 DEF CoreRest, store
<1>8. CASE \E id \in 1 .. MaxProposals : ValidateFound(id) \/ CommitRejects(id) \/ Cancel(id)
  BY <1>2, <1>8 DEF ValidateFound, CommitRejects, Cancel, store
<1> QED
  BY <1>2, <1>3, <1>4, <1>5, <1>6, <1>7, <1>8 DEF CoreStep

-----------------------------------------------------------------------------
(* The invariant of the subscriptions *)

(* Queued is an unbroken end of the log, the newest generation last.       *)
QueueIsTail(x) ==
    /\ \A i \in DOMAIN x.queue : x.queue[i].generation + Len(x.queue) = HeadGeneration + i
    /\ x.seen.generation + Len(x.queue) <= HeadGeneration
    /\ MaxQueue > 0 /\ x.queue = <<>> => x.seen.generation = HeadGeneration

(* Publications are numbered upwards, from what was polled last on.        *)
NumbersRise(x) ==
    /\ x.seen.sequence <= sequence
    /\ \A i \in DOMAIN x.queue :
         x.seen.sequence < x.queue[i].sequence /\ x.queue[i].sequence <= sequence
    /\ \A i, j \in DOMAIN x.queue : i < j => x.queue[i].sequence < x.queue[j].sequence

(* Every generation since the subscription is polled, queued or dropped,   *)
(* and at the last poll as many had been dropped as were told.             *)
Accounted(x) ==
    LET first == IF x.from > 0 THEN 1 ELSE 0 IN
    /\ x.from <= HeadGeneration
    /\ x.from + x.polled + x.dropped + Len(x.queue) = HeadGeneration + first
    /\ x.polled > 0 => x.from + x.polled + x.told = x.seen.generation + first

FeedInv ==
    /\ FeedTypes
    /\ ~ up => DOMAIN subscribers = {}
    /\ \A s \in DOMAIN subscribers :
         /\ QueueIsTail(subscribers[s])
         /\ NumbersRise(subscribers[s])
         /\ Accounted(subscribers[s])

(* What a step does to the subscriptions, whoever takes it.                *)
FeedStep ==
    \/ UNCHANGED <<feed, log, up>>
    \/ \E id \in 1 .. MaxProposals : \E t : CommitSucceeds(id, t)
    \/ Subscribe
    \/ \E s \in DOMAIN subscribers : Unsubscribe(s) \/ Poll(s)
    \/ Crash
    \/ Reopen

LEMMA NextFeedStep ==
    ASSUME CoreTypes, CallTypes, [Next]_vars
    PROVE  FeedStep
<1>i. \A id \in 1 .. drawn : id \in 1 .. MaxProposals
  BY RuntimeAssumption DEF CoreTypes
<1>c. \A c \in Client : calls[c] # Idle => calls[c].id \in 1 .. MaxProposals
  BY DEF CallTypes
<1>1. CASE Propose
  BY <1>1 DEF Propose, FeedStep, store
<1>2. CASE Validate
  BY <1>2 DEF Validate, ValidateFound, FeedStep, store
<1>3. CASE Commit
  BY <1>3, <1>i DEF Commit, CommitRejects, FeedStep, store
<1>4. CASE Submit
  <2>1. PICK c \in Client :
          \/ SubmitProposes(c) \/ SubmitValidates(c) \/ SubmitCannotRead(c)
          \/ SubmitLosesProposal(c) \/ SubmitCommits(c) \/ SubmitRefused(c)
    BY <1>4 DEF Submit
  <2>2. CASE SubmitCommits(c)
    BY <2>2, <1>c DEF SubmitCommits, CommitRejects, FeedStep, store
  <2>3. CASE SubmitProposes(c) \/ SubmitValidates(c)
    BY <2>3 DEF SubmitProposes, SubmitValidates, ValidateFound, FeedStep, store
  <2>4. CASE SubmitCannotRead(c) \/ SubmitLosesProposal(c) \/ SubmitRefused(c)
    BY <2>4 DEF SubmitCannotRead, SubmitLosesProposal, SubmitRefused, FeedStep, store
  <2> QED
    BY <2>1, <2>2, <2>3, <2>4
<1>5. CASE \E id \in 1 .. drawn : Cancel(id)
  BY <1>5 DEF Cancel, FeedStep, store
<1>6. CASE Subscribe \/ \E s \in DOMAIN subscribers : Unsubscribe(s) \/ Poll(s)
  BY <1>6 DEF FeedStep
<1>7. CASE RequestShutdown
  BY <1>7 DEF RequestShutdown, FeedStep
<1>8. CASE Crash \/ Reopen
  BY <1>8 DEF FeedStep
<1>9. CASE UNCHANGED vars
  BY <1>9 DEF vars, store, FeedStep
<1> QED
  BY <1>1, <1>2, <1>3, <1>4, <1>5, <1>6, <1>7, <1>8, <1>9 DEF Next

(* A publication joins the queue at its end, and the oldest leave it when  *)
(* it is too long.                                                         *)
LEMMA EnqueueShape ==
    ASSUME NEW x \in Subscriber, NEW pub \in Publication
    PROVE  LET y    == Enqueue(x, pub)
               m    == Len(x.queue)
               over == IF m + 1 > MaxQueue THEN m + 1 - MaxQueue ELSE 0
           IN  /\ y \in Subscriber
               /\ y.from = x.from /\ y.polled = x.polled /\ y.seen = x.seen /\ y.told = x.told
               /\ m \in Nat /\ over \in 0 .. m + 1
               /\ y.dropped = x.dropped + over
               /\ Len(y.queue) = m + 1 - over /\ DOMAIN y.queue = 1 .. m + 1 - over
               /\ \A i \in 1 .. m + 1 - over :
                    y.queue[i] = IF i + over = m + 1 THEN pub ELSE x.queue[i + over]
               /\ MaxQueue > 0 => Len(y.queue) > 0
<1> DEFINE y     == Enqueue(x, pub)
           m     == Len(x.queue)
           queue == Append(x.queue, pub)
           over  == IF m + 1 > MaxQueue THEN m + 1 - MaxQueue ELSE 0
           rest  == SubSeq(queue, over + 1, m + 1)
<1>1. /\ x.queue \in Seq(Publication) /\ m \in Nat /\ DOMAIN x.queue = 1 .. m
      /\ x.dropped \in Nat /\ MaxQueue \in Nat
  BY RuntimeAssumption DEF Subscriber
<1>2. /\ queue \in Seq(Publication) /\ Len(queue) = m + 1
      /\ \A i \in 1 .. m : queue[i] = x.queue[i]
      /\ queue[m + 1] = pub
  BY <1>1
<1>3. over \in 0 .. m + 1 /\ (MaxQueue > 0 => over < m + 1)
  BY <1>1
<1>4. y = [x EXCEPT !.queue = rest, !.dropped = x.dropped + over]
  <2> DEFINE o == IF Len(queue) > MaxQueue THEN Len(queue) - MaxQueue ELSE 0
  <2>1. y = [x EXCEPT !.queue = SubSeq(queue, o + 1, Len(queue)), !.dropped = @ + o]
    BY DEF Enqueue
  <2>2. o = over
    BY <1>1, <1>2
  <2> HIDE DEF o, over
  <2> QED
    BY <1>2, <2>1, <2>2
<1> HIDE DEF over, m, queue
<1>5. /\ rest \in Seq(Publication) /\ Len(rest) = m + 1 - over
      /\ DOMAIN rest = 1 .. m + 1 - over
      /\ \A i \in 1 .. m + 1 - over : rest[i] = queue[i + over]
  BY <1>1, <1>2, <1>3
<1>6. \A i \in 1 .. m + 1 - over :
        rest[i] = IF i + over = m + 1 THEN pub ELSE x.queue[i + over]
  BY <1>1, <1>2, <1>3, <1>5
<1> HIDE DEF rest
<1>7. x.dropped + over \in Nat
  BY <1>1, <1>3
<1>8. /\ y \in Subscriber
      /\ y.from = x.from /\ y.polled = x.polled /\ y.seen = x.seen /\ y.told = x.told
      /\ y.dropped = x.dropped + over /\ y.queue = rest
  BY <1>4, <1>5, <1>7 DEF Subscriber
<1> HIDE DEF y
<1>9. MaxQueue > 0 => Len(y.queue) > 0
  BY <1>1, <1>3, <1>5, <1>8
<1> QED
  BY <1>1, <1>3, <1>5, <1>6, <1>8, <1>9 DEF y, m, over

(* Polling takes the oldest publication and tells the drops so far.        *)
PollsTo(x, y) ==
    LET m == Len(x.queue) IN
    /\ y \in Subscriber
    /\ y.from = x.from /\ y.polled = x.polled + 1 /\ y.dropped = x.dropped
    /\ y.told = x.dropped /\ y.seen = x.queue[1]
    /\ m \in Nat \ {0} /\ Len(y.queue) = m - 1 /\ DOMAIN y.queue = 1 .. m - 1
    /\ \A i \in 1 .. m - 1 : y.queue[i] = x.queue[i + 1]

LEMMA PollShape ==
    ASSUME NEW x \in Subscriber, x.queue # <<>>
    PROVE  PollsTo(x, [x EXCEPT !.queue = Tail(x.queue), !.polled = x.polled + 1,
                                !.seen = Head(x.queue), !.told = x.dropped])
<1> DEFINE y == [x EXCEPT !.queue = Tail(x.queue), !.polled = x.polled + 1,
                          !.seen = Head(x.queue), !.told = x.dropped]
           m == Len(x.queue)
<1>1. /\ x.queue \in Seq(Publication) /\ m \in Nat \ {0} /\ DOMAIN x.queue = 1 .. m
      /\ x.dropped \in Nat /\ x.polled \in Nat
  BY DEF Subscriber
<1>2. /\ Head(x.queue) = x.queue[1] /\ x.queue[1] \in Publication
      /\ Tail(x.queue) \in Seq(Publication) /\ Len(Tail(x.queue)) = m - 1
      /\ DOMAIN Tail(x.queue) = 1 .. m - 1
      /\ \A i \in 1 .. m - 1 : Tail(x.queue)[i] = x.queue[i + 1]
  BY <1>1, HeadTailProperties
<1>3. /\ y \in Subscriber
      /\ y.from = x.from /\ y.polled = x.polled + 1 /\ y.dropped = x.dropped
      /\ y.told = x.dropped /\ y.seen = x.queue[1] /\ y.queue = Tail(x.queue)
  <2> DEFINE q == Tail(x.queue)
             h == Head(x.queue)
  <2>1. y = [x EXCEPT !.queue = q, !.polled = x.polled + 1, !.seen = h, !.told = x.dropped]
    OBVIOUS
  <2>2. q \in Seq(Publication) /\ h \in Publication /\ x.polled + 1 \in Nat
    BY <1>1, <1>2
  <2> HIDE DEF q, h, y
  <2>3. /\ y \in Subscriber
        /\ y.from = x.from /\ y.polled = x.polled + 1 /\ y.dropped = x.dropped
        /\ y.told = x.dropped /\ y.seen = h /\ y.queue = q
    BY <1>1, <2>1, <2>2 DEF Subscriber
  <2> QED
    BY <1>2, <2>3 DEF q, h
<1> HIDE DEF y
<1>4. PollsTo(x, y)
  BY <1>1, <1>2, <1>3 DEF PollsTo
<1> QED
  BY <1>4 DEF y

(* The numbers of a subscription are naturals.                             *)
LEMMA SubscriberNumbers ==
    ASSUME NEW x \in Subscriber
    PROVE  /\ x.dropped \in Nat /\ x.from \in Nat /\ x.polled \in Nat /\ x.told \in Nat
           /\ x.seen.generation \in Nat /\ x.seen.sequence \in Nat
           /\ x.queue \in Seq(Publication) /\ Len(x.queue) \in Nat
           /\ DOMAIN x.queue = 1 .. Len(x.queue)
           /\ \A i \in DOMAIN x.queue :
                x.queue[i].generation \in Nat /\ x.queue[i].sequence \in Nat
<1>1. /\ x.dropped \in Nat /\ x.from \in Nat /\ x.polled \in Nat /\ x.told \in Nat
      /\ x.seen \in Publication /\ x.queue \in Seq(Publication)
  BY DEF Subscriber
<1>2. \A i \in DOMAIN x.queue : x.queue[i] \in Publication
  BY <1>1
<1>3. \A pub \in Publication : pub.generation \in Nat /\ pub.sequence \in Nat
  BY DEF Publication
<1>4. Len(x.queue) \in Nat /\ DOMAIN x.queue = 1 .. Len(x.queue)
  BY <1>1
<1> QED
  BY <1>1, <1>2, <1>3, <1>4

SubscriberInv(x) == QueueIsTail(x) /\ NumbersRise(x) /\ Accounted(x)

(* The publication of the next generation.                                 *)
LEMMA EnqueueKeepsInv ==
    ASSUME NEW x \in Subscriber, SubscriberInv(x), sequence \in Nat,
           HeadGeneration \in Nat, HeadGeneration' = HeadGeneration + 1,
           NEW pub \in Publication, pub.generation = HeadGeneration + 1,
           pub.sequence = sequence + 1, sequence' = sequence + 1
    PROVE  /\ Enqueue(x, pub) \in Subscriber
           /\ \A y : y = Enqueue(x, pub) => SubscriberInv(y)'
<1>0. PICK m \in Nat, over \in Nat, k \in Nat, h \in Nat :
        /\ m = Len(x.queue) /\ k + over = m + 1 /\ h = HeadGeneration
        /\ \A y : y = Enqueue(x, pub) =>
             /\ y \in Subscriber
             /\ y.from = x.from /\ y.polled = x.polled /\ y.seen = x.seen /\ y.told = x.told
             /\ y.dropped = x.dropped + over
             /\ Len(y.queue) = k /\ DOMAIN y.queue = 1 .. k
             /\ \A i \in 1 .. k : y.queue[i] = IF i + over = m + 1 THEN pub ELSE x.queue[i + over]
             /\ MaxQueue > 0 => k > 0
  <2> DEFINE mm == Len(x.queue)
             oo == IF mm + 1 > MaxQueue THEN mm + 1 - MaxQueue ELSE 0
             kk == mm + 1 - oo
             z  == Enqueue(x, pub)
  <2>1. /\ z \in Subscriber
        /\ z.from = x.from /\ z.polled = x.polled /\ z.seen = x.seen /\ z.told = x.told
        /\ mm \in Nat /\ oo \in 0 .. mm + 1
        /\ z.dropped = x.dropped + oo
        /\ Len(z.queue) = kk /\ DOMAIN z.queue = 1 .. kk
        /\ \A i \in 1 .. kk :
             z.queue[i] = IF i + oo = mm + 1 THEN pub ELSE x.queue[i + oo]
        /\ MaxQueue > 0 => Len(z.queue) > 0
    BY EnqueueShape
  <2> HIDE DEF oo
  <2>a. mm \in Nat /\ oo \in 0 .. mm + 1
    BY <2>1
  <2> HIDE DEF mm
  <2>2. oo \in Nat /\ kk \in Nat /\ kk + oo = mm + 1
    BY <2>a
  <2> HIDE DEF mm, kk, z
  <2>3. /\ mm = Len(x.queue) /\ kk + oo = mm + 1 /\ HeadGeneration = HeadGeneration
        /\ \A y : y = z =>
             /\ y \in Subscriber
             /\ y.from = x.from /\ y.polled = x.polled /\ y.seen = x.seen /\ y.told = x.told
             /\ y.dropped = x.dropped + oo
             /\ Len(y.queue) = kk /\ DOMAIN y.queue = 1 .. kk
             /\ \A i \in 1 .. kk :
                  y.queue[i] = IF i + oo = mm + 1 THEN pub ELSE x.queue[i + oo]
             /\ MaxQueue > 0 => kk > 0
    <3>1. mm = Len(x.queue)
      BY DEF mm
    <3> QED
      BY <2>1, <2>2, <3>1
  <2>4. mm \in Nat
    BY <2>1
  <2> USE DEF z
  <2> QED
    BY <2>2, <2>3, <2>4
<1> SUFFICES ASSUME NEW y, y = Enqueue(x, pub)
             PROVE  y \in Subscriber /\ SubscriberInv(y)'
  OBVIOUS
<1>1. /\ y \in Subscriber
      /\ y.from = x.from /\ y.polled = x.polled /\ y.seen = x.seen /\ y.told = x.told
      /\ y.dropped = x.dropped + over
      /\ Len(y.queue) = k /\ DOMAIN y.queue = 1 .. k
      /\ \A i \in 1 .. k : y.queue[i] = IF i + over = m + 1 THEN pub ELSE x.queue[i + over]
      /\ MaxQueue > 0 => k > 0
  BY <1>0
<1>h. /\ h = HeadGeneration /\ HeadGeneration' = h + 1 /\ k + over = m + 1 /\ m = Len(x.queue)
      /\ pub.generation = h + 1
  BY <1>0
<1>a. k + over = m + 1
  BY <1>0
<1>2. /\ x.dropped \in Nat /\ x.from \in Nat /\ x.polled \in Nat /\ x.told \in Nat
      /\ x.seen.generation \in Nat /\ x.seen.sequence \in Nat
  BY SubscriberNumbers
<1>3. \A i \in 1 .. m : x.queue[i].generation \in Nat /\ x.queue[i].sequence \in Nat
  BY <1>h, SubscriberNumbers
<1>4. QueueIsTail(x) /\ NumbersRise(x) /\ Accounted(x) /\ DOMAIN x.queue = 1 .. m
  BY <1>h, SubscriberNumbers DEF SubscriberInv
<1>i. \A i \in 1 .. k :
        \/ i = k /\ y.queue[i] = pub
        \/ i < k /\ i + over \in 1 .. m /\ y.queue[i] = x.queue[i + over]
  <2> SUFFICES ASSUME NEW i \in 1 .. k
               PROVE  \/ i = k /\ y.queue[i] = pub
                      \/ i < k /\ i + over \in 1 .. m /\ y.queue[i] = x.queue[i + over]
    OBVIOUS
  <2>1. i = k \/ i < k
    OBVIOUS
  <2>2. i = k <=> i + over = m + 1
    BY <1>h
  <2>3. i < k => i + over \in 1 .. m
    BY <1>h
  <2>4. y.queue[i] = IF i + over = m + 1 THEN pub ELSE x.queue[i + over]
    BY <1>1
  <2> QED
    BY <2>1, <2>2, <2>3, <2>4
<1>5. QueueIsTail(y)'
  <2>1. ASSUME NEW i \in 1 .. k
        PROVE  y.queue[i].generation + k = h + 1 + i
    <3>1. CASE i = k /\ y.queue[i] = pub
      BY <1>h, <3>1
    <3>2. CASE i + over \in 1 .. m /\ y.queue[i] = x.queue[i + over]
      <4>1. PICK g \in Nat : g = x.queue[i + over].generation /\ g + m = h + (i + over)
        BY <1>3, <1>4, <1>h, <3>2 DEF QueueIsTail
      <4>2. g + m = h + (i + over)
        BY <4>1
      <4>3. g + k = h + 1 + i
        BY <1>a, <4>2
      <4> QED
        BY <3>2, <4>1, <4>3
    <3> QED
      BY <1>i, <3>1, <3>2
  <2>2. y.seen.generation + k <= h + 1
    <3>1. PICK g \in Nat : g = x.seen.generation /\ g + m <= h
      BY <1>2, <1>4, <1>h DEF QueueIsTail
    <3>2. g + m <= h
      BY <3>1
    <3>3. g + k <= h + 1
      BY <1>a, <3>2
    <3> QED
      BY <1>1, <3>1, <3>3
  <2>3. MaxQueue > 0 => y.queue # <<>>
    BY <1>1
  <2> QED
    BY <1>1, <1>h, <2>1, <2>2, <2>3 DEF QueueIsTail
<1>6. NumbersRise(y)'
  <2>0. PICK sq \in Nat, ss \in Nat :
          /\ sq = sequence /\ sequence' = sq + 1 /\ pub.sequence = sq + 1
          /\ ss = x.seen.sequence /\ ss = y.seen.sequence /\ ss <= sq
          /\ \A i \in 1 .. m : ss < x.queue[i].sequence /\ x.queue[i].sequence <= sq
          /\ \A i, j \in 1 .. m : i < j => x.queue[i].sequence < x.queue[j].sequence
    BY <1>1, <1>2, <1>4 DEF NumbersRise
  <2>1. ASSUME NEW i \in 1 .. k
        PROVE  ss < y.queue[i].sequence /\ y.queue[i].sequence <= sq + 1
    <3>1. CASE i = k /\ y.queue[i] = pub
      BY <2>0, <3>1
    <3>2. CASE i + over \in 1 .. m /\ y.queue[i] = x.queue[i + over]
      <4>1. PICK g \in Nat : g = x.queue[i + over].sequence /\ ss < g /\ g <= sq
        BY <1>3, <2>0, <3>2
      <4> QED
        BY <3>2, <4>1
    <3> QED
      BY <1>i, <3>1, <3>2
  <2>2. ASSUME NEW i \in 1 .. k, NEW j \in 1 .. k, i < j
        PROVE  y.queue[i].sequence < y.queue[j].sequence
    <3>1. i + over \in 1 .. m /\ y.queue[i] = x.queue[i + over]
      BY <1>i, <2>2
    <3>2. PICK g \in Nat : g = y.queue[i].sequence /\ g <= sq
      BY <1>3, <2>0, <3>1
    <3>3. CASE j = k /\ y.queue[j] = pub
      BY <2>0, <3>2, <3>3
    <3>4. CASE j + over \in 1 .. m /\ y.queue[j] = x.queue[j + over]
      <4>1. i + over < j + over
        BY <2>2
      <4> QED
        BY <2>0, <3>1, <3>4, <4>1
    <3> QED
      BY <1>i, <3>3, <3>4
  <2>3. ss <= sq + 1
    BY <2>0
  <2> QED
    BY <1>1, <2>0, <2>1, <2>2, <2>3 DEF NumbersRise
<1>7. Accounted(y)'
  <2>1. PICK f \in Nat, first \in Nat, pd \in Nat, dr \in Nat :
          /\ f = x.from /\ first = (IF x.from > 0 THEN 1 ELSE 0)
          /\ pd = x.polled /\ dr = x.dropped
          /\ f + pd + dr + m = h + first /\ f <= h
    BY <1>2, <1>4, <1>h DEF Accounted
  <2>a. f + pd + dr + m = h + first /\ f <= h
    BY <2>1
  <2>2. f + pd + (dr + over) + k = h + 1 + first /\ f <= h + 1
    BY <1>a, <2>a
  <2>3. y.polled > 0 =>
          y.from + y.polled + y.told = y.seen.generation + IF y.from > 0 THEN 1 ELSE 0
    BY <1>1, <1>4 DEF Accounted
  <2> QED
    BY <1>1, <1>h, <2>1, <2>2, <2>3 DEF Accounted
<1> QED
  BY <1>1, <1>5, <1>6, <1>7 DEF SubscriberInv

(* A subscriber polls the oldest publication of its queue.                 *)
LEMMA PollKeepsInv ==
    ASSUME NEW x \in Subscriber, SubscriberInv(x), sequence \in Nat, HeadGeneration \in Nat,
           HeadGeneration' = HeadGeneration, sequence' = sequence, NEW z, PollsTo(x, z)
    PROVE  z \in Subscriber /\ \A y : y = z => SubscriberInv(y)'
<1>0. PICK m \in Nat, k \in Nat, h \in Nat :
        /\ m = Len(x.queue) /\ m = k + 1 /\ h = HeadGeneration
        /\ z \in Subscriber
        /\ z.from = x.from /\ z.polled = x.polled + 1 /\ z.dropped = x.dropped
        /\ z.told = x.dropped /\ z.seen = x.queue[1]
        /\ Len(z.queue) = k /\ DOMAIN z.queue = 1 .. k
        /\ \A i \in 1 .. k : z.queue[i] = x.queue[i + 1]
  <2> DEFINE mm == Len(x.queue)
             kk == mm - 1
  <2>1. /\ z \in Subscriber
        /\ z.from = x.from /\ z.polled = x.polled + 1 /\ z.dropped = x.dropped
        /\ z.told = x.dropped /\ z.seen = x.queue[1]
        /\ mm \in Nat \ {0} /\ Len(z.queue) = kk /\ DOMAIN z.queue = 1 .. kk
        /\ \A i \in 1 .. kk : z.queue[i] = x.queue[i + 1]
    BY DEF PollsTo
  <2>2. kk \in Nat /\ mm \in Nat /\ mm = kk + 1
    BY <2>1
  <2> HIDE DEF kk
  <2> QED
    BY <2>1, <2>2
<1> SUFFICES ASSUME NEW y, y = z
             PROVE  y \in Subscriber /\ SubscriberInv(y)'
  BY <1>0
<1>1. /\ y \in Subscriber
      /\ y.from = x.from /\ y.polled = x.polled + 1 /\ y.dropped = x.dropped
      /\ y.told = x.dropped /\ y.seen = x.queue[1]
      /\ Len(y.queue) = k /\ DOMAIN y.queue = 1 .. k
      /\ \A i \in 1 .. k : y.queue[i] = x.queue[i + 1]
  BY <1>0
<1>h. h = HeadGeneration /\ HeadGeneration' = h /\ m = k + 1 /\ m = Len(x.queue)
  BY <1>0
<1>2. x.dropped \in Nat /\ x.from \in Nat /\ x.polled \in Nat
  BY SubscriberNumbers
<1>3. \A i \in 1 .. m : x.queue[i].generation \in Nat /\ x.queue[i].sequence \in Nat
  BY <1>h, SubscriberNumbers
<1>4. QueueIsTail(x) /\ NumbersRise(x) /\ Accounted(x) /\ DOMAIN x.queue = 1 .. m
  BY <1>h, SubscriberNumbers DEF SubscriberInv
<1>i. 1 \in 1 .. m /\ \A i \in 1 .. k : i + 1 \in 1 .. m /\ 1 < i + 1
  BY <1>h
<1>g. PICK g \in Nat : g = x.queue[1].generation /\ g + m = h + 1 /\ g + k = h
  <2>1. PICK g \in Nat : g = x.queue[1].generation /\ g + m = h + 1
    BY <1>3, <1>4, <1>h, <1>i DEF QueueIsTail
  <2>2. g + k = h
    BY <1>h, <2>1
  <2> QED
    BY <2>1, <2>2
<1>5. QueueIsTail(y)'
  <2>1. ASSUME NEW i \in 1 .. k
        PROVE  y.queue[i].generation + k = h + i
    <3>1. PICK e \in Nat : e = x.queue[i + 1].generation /\ e + m = h + (i + 1)
      BY <1>3, <1>4, <1>h, <1>i DEF QueueIsTail
    <3>2. e + k = h + i
      BY <1>h, <3>1
    <3> QED
      BY <1>1, <3>1, <3>2
  <2>2. y.queue = <<>> => k = 0
    BY <1>1
  <2>a. g + k = h
    BY <1>g
  <2>b. k = 0 => g = h
    BY <2>a
  <2>3. y.queue = <<>> => y.seen.generation = h
    BY <1>1, <1>g, <2>2, <2>b
  <2>4. y.seen.generation + k <= h
    BY <1>1, <1>g
  <2> QED
    BY <1>1, <1>h, <2>1, <2>3, <2>4 DEF QueueIsTail
<1>6. NumbersRise(y)'
  <2>0. /\ \A i \in 1 .. m : x.queue[i].sequence <= sequence
        /\ \A i, j \in 1 .. m : i < j => x.queue[i].sequence < x.queue[j].sequence
    BY <1>4 DEF NumbersRise
  <2>1. ASSUME NEW i \in 1 .. k
        PROVE  x.queue[1].sequence < y.queue[i].sequence /\ y.queue[i].sequence <= sequence
    BY <1>1, <1>i, <2>0
  <2>2. ASSUME NEW i \in 1 .. k, NEW j \in 1 .. k, i < j
        PROVE  y.queue[i].sequence < y.queue[j].sequence
    <3>1. i + 1 < j + 1
      BY <2>2
    <3> QED
      BY <1>1, <1>i, <2>0, <3>1
  <2>3. y.seen.sequence <= sequence
    BY <1>1, <1>i, <2>0
  <2> QED
    BY <1>1, <2>1, <2>2, <2>3 DEF NumbersRise
<1>7. Accounted(y)'
  <2>1. PICK f \in Nat, first \in Nat, pd \in Nat, dr \in Nat :
          /\ f = x.from /\ first = (IF x.from > 0 THEN 1 ELSE 0)
          /\ pd = x.polled /\ dr = x.dropped
          /\ f + pd + dr + m = h + first /\ f <= h
    BY <1>2, <1>4, <1>h DEF Accounted
  <2>a. f + pd + dr + m = h + first /\ m = k + 1 /\ g + k = h
    BY <1>g, <1>h, <2>1
  <2>2. f + (pd + 1) + dr + k = h + first /\ f + (pd + 1) + dr = g + first
    BY <2>a
  <2> QED
    BY <1>1, <1>g, <1>h, <2>1, <2>2 DEF Accounted
<1> QED
  BY <1>1, <1>5, <1>6, <1>7 DEF SubscriberInv

(* Other subscribers only see that a sequence number is used up.           *)
LEMMA OthersKeepInv ==
    ASSUME NEW x \in Subscriber, SubscriberInv(x), sequence \in Nat, sequence' \in Nat,
           sequence' >= sequence, HeadGeneration' = HeadGeneration
    PROVE  SubscriberInv(x)'
<1>1. /\ x.seen.sequence \in Nat
      /\ \A i \in DOMAIN x.queue : x.queue[i].sequence \in Nat
  BY SubscriberNumbers
<1>2. QueueIsTail(x)' /\ Accounted(x)'
  BY DEF SubscriberInv, QueueIsTail, Accounted
<1>3. NumbersRise(x)'
  BY <1>1 DEF SubscriberInv, NumbersRise
<1> QED
  BY <1>2, <1>3 DEF SubscriberInv

LEMMA InitFeedInv ==
    ASSUME Init
    PROVE  FeedInv
<1>1. DOMAIN subscribers = {} /\ subscribed = 0 /\ sequence = 0 /\ MaxSubscriptions \in Nat
  BY RuntimeAssumption DEF Init
<1>2. FeedTypes
  BY <1>1 DEF FeedTypes, IsFunctionOn
<1> QED
  BY <1>1, <1>2 DEF FeedInv

LEMMA FeedStepKeepsFeedInv ==
    ASSUME CoreInv, FeedInv, FeedStep
    PROVE  FeedInv'
<1>1. /\ DOMAIN subscribers \subseteq 1 .. MaxSubscriptions
      /\ \A s \in DOMAIN subscribers :
           subscribers[s] \in Subscriber /\ SubscriberInv(subscribers[s])
      /\ subscribed \in 0 .. MaxSubscriptions /\ sequence \in Nat
      /\ ~ up => DOMAIN subscribers = {}
  BY DEF FeedInv, FeedTypes, IsFunctionOn, SubscriberInv
<1>2. log \in Seq(Generation) /\ epoch \in Nat /\ incarnation \in Nat /\ MaxSubscriptions \in Nat
  BY RuntimeAssumption DEF CoreInv, CoreTypes
<1>3. HeadGeneration \in Nat
  BY <1>2 DEF HeadGeneration
<1> SUFFICES /\ DOMAIN subscribers' \subseteq 1 .. MaxSubscriptions
             /\ \A s \in DOMAIN subscribers' :
                  /\ subscribers'[s] \in Subscriber
                  /\ \A y : y = subscribers'[s] => SubscriberInv(y)'
             /\ subscribed' \in 0 .. MaxSubscriptions /\ sequence' \in Nat
             /\ ~ up' => DOMAIN subscribers' = {}
  BY DEF FeedInv, FeedTypes, IsFunctionOn, SubscriberInv, QueueIsTail, NumbersRise, Accounted
<1>o. ASSUME HeadGeneration' = HeadGeneration, sequence' \in Nat, sequence' >= sequence,
             NEW s \in DOMAIN subscribers
      PROVE  SubscriberInv(subscribers[s])
             /\ \A y : y = subscribers[s] => y \in Subscriber /\ SubscriberInv(y)'
  BY <1>1, <1>o, OthersKeepInv
<1>4. CASE UNCHANGED <<feed, log, up>>
  <2>1. UNCHANGED <<subscribers, subscribed, sequence, up>> /\ HeadGeneration' = HeadGeneration
    BY <1>4 DEF feed, HeadGeneration
  <2>2. sequence' \in Nat /\ sequence' >= sequence
    BY <1>1, <2>1
  <2> QED
    BY <1>1, <1>o, <2>1, <2>2
<1>5. ASSUME NEW id \in 1 .. MaxProposals, NEW t, CommitSucceeds(id, t)
      PROVE  /\ DOMAIN subscribers' \subseteq 1 .. MaxSubscriptions
             /\ \A s \in DOMAIN subscribers' :
                  /\ subscribers'[s] \in Subscriber
                  /\ \A y : y = subscribers'[s] => SubscriberInv(y)'
             /\ subscribed' \in 0 .. MaxSubscriptions /\ sequence' \in Nat
             /\ ~ up' => DOMAIN subscribers' = {}
  <2> DEFINE pub == [generation |-> HeadGeneration + 1, epoch |-> epoch,
                     incarnation |-> incarnation, sequence |-> sequence + 1]
  <2>1. /\ up' = up /\ subscribed' = subscribed /\ sequence' = sequence + 1
        /\ subscribers' = [s \in DOMAIN subscribers |-> Enqueue(subscribers[s], pub)]
    BY <1>5 DEF CommitSucceeds, Publish
  <2>2. HeadGeneration' = HeadGeneration + 1
    BY <1>5, CommitShape DEF CommitsTo, HeadGeneration
  <2>3. /\ pub \in Publication /\ pub.generation = HeadGeneration + 1
        /\ pub.sequence = sequence + 1
    BY <1>1, <1>2, <1>3 DEF Publication
  <2> HIDE DEF pub
  <2>4. ASSUME NEW s \in DOMAIN subscribers
        PROVE  /\ subscribers'[s] \in Subscriber
               /\ \A y : y = subscribers'[s] => SubscriberInv(y)'
    <3>1. subscribers'[s] = Enqueue(subscribers[s], pub)
      BY <2>1
    <3>2. subscribers[s] \in Subscriber /\ SubscriberInv(subscribers[s])
      BY <1>1
    <3>3. /\ Enqueue(subscribers[s], pub) \in Subscriber
          /\ \A y : y = Enqueue(subscribers[s], pub) => SubscriberInv(y)'
      BY <1>1, <1>3, <2>1, <2>2, <2>3, <3>2, EnqueueKeepsInv
    <3> QED
      BY <3>1, <3>3
  <2>5. DOMAIN subscribers' = DOMAIN subscribers /\ sequence' \in Nat
    BY <1>1, <2>1
  <2> QED
    BY <1>1, <2>1, <2>4, <2>5
<1>6. CASE Subscribe
  <2> DEFINE snapshot == IF log = <<>> THEN <<>> ELSE
                << [generation |-> HeadGeneration, epoch |-> epoch,
                    incarnation |-> incarnation, sequence |-> sequence + 1] >>
             new == [queue |-> snapshot, dropped |-> 0, from |-> HeadGeneration,
                     polled |-> 0, seen |-> NoPublication, told |-> 0]
  <2>1. /\ up /\ up' = up /\ subscribed < MaxSubscriptions /\ subscribed' = subscribed + 1
        /\ sequence' = (IF log # <<>> THEN sequence + 1 ELSE sequence)
        /\ subscribers' = [s \in DOMAIN subscribers \cup {subscribed + 1} |->
                              IF s \in DOMAIN subscribers THEN subscribers[s] ELSE new]
        /\ log' = log
    BY <1>6 DEF Subscribe, Admitting, store
  <2>2. HeadGeneration' = HeadGeneration /\ (log = <<>> <=> HeadGeneration = 0)
    BY <1>2, <2>1 DEF HeadGeneration
  <2>3. sequence' \in Nat /\ sequence' >= sequence
    BY <1>1, <2>1
  <2>4. new \in Subscriber /\ \A y : y = new => SubscriberInv(y)'
    <3>1. /\ NoPublication \in Publication
          /\ NoPublication.generation = 0 /\ NoPublication.sequence = 0
      BY DEF NoPublication, Publication
    <3>2. /\ new.queue = snapshot /\ new.dropped = 0 /\ new.from = HeadGeneration
          /\ new.polled = 0 /\ new.seen = NoPublication /\ new.told = 0
      OBVIOUS
    <3>3. CASE log = <<>>
      <4>1. snapshot = <<>> /\ snapshot \in Seq(Publication)
        BY <3>3
      <4>2. new \in Subscriber
        BY <1>3, <3>1, <4>1 DEF Subscriber
      <4> HIDE DEF snapshot, new
      <4>3. ASSUME NEW y, y = new
            PROVE  SubscriberInv(y)'
        <5>1. /\ DOMAIN y.queue = {} /\ Len(y.queue) = 0
              /\ y.from = 0 /\ y.polled = 0 /\ y.dropped = 0
              /\ y.seen.generation = 0 /\ y.seen.sequence = 0
              /\ HeadGeneration' = 0
          BY <2>2, <3>1, <3>2, <3>3, <4>1, <4>3
        <5> QED
          BY <2>3, <5>1 DEF SubscriberInv, QueueIsTail, NumbersRise, Accounted
      <4> QED
        BY <4>2, <4>3
    <3>4. CASE log # <<>>
      <4> DEFINE pub == [generation |-> HeadGeneration, epoch |-> epoch,
                         incarnation |-> incarnation, sequence |-> sequence + 1]
      <4>1. snapshot = <<pub>>
        BY <3>4
      <4>2. /\ pub \in Publication /\ pub.generation = HeadGeneration
            /\ pub.sequence = sequence + 1
        BY <1>1, <1>2, <1>3 DEF Publication
      <4> HIDE DEF pub, snapshot
      <4>3. /\ snapshot \in Seq(Publication) /\ Len(snapshot) = 1 /\ DOMAIN snapshot = {1}
            /\ snapshot[1] = pub /\ snapshot # <<>>
        BY <4>1, <4>2
      <4>4. new \in Subscriber
        BY <1>3, <3>1, <4>3 DEF Subscriber
      <4> HIDE DEF new
      <4>5. ASSUME NEW y, y = new
            PROVE  SubscriberInv(y)'
        <5>1. /\ DOMAIN y.queue = {1} /\ Len(y.queue) = 1 /\ y.queue # <<>>
              /\ y.queue[1].generation = HeadGeneration
              /\ y.queue[1].sequence = sequence + 1
              /\ y.from = HeadGeneration /\ y.polled = 0 /\ y.dropped = 0
              /\ y.seen.generation = 0 /\ y.seen.sequence = 0
              /\ HeadGeneration' = HeadGeneration /\ HeadGeneration > 0
              /\ sequence' = sequence + 1
          BY <1>3, <2>1, <2>2, <3>1, <3>2, <3>4, <4>2, <4>3, <4>5
        <5>2. QueueIsTail(y)'
          BY <1>3, <5>1 DEF QueueIsTail
        <5>3. NumbersRise(y)'
          BY <1>1, <5>1 DEF NumbersRise
        <5>4. Accounted(y)'
          BY <1>3, <5>1 DEF Accounted
        <5> QED
          BY <5>2, <5>3, <5>4 DEF SubscriberInv
      <4> QED
        BY <4>4, <4>5
    <3> QED
      BY <3>3, <3>4
  <2> HIDE DEF new, snapshot
  <2>5. ASSUME NEW s \in DOMAIN subscribers'
        PROVE  /\ subscribers'[s] \in Subscriber
               /\ \A y : y = subscribers'[s] => SubscriberInv(y)'
    <3>1. CASE s \in DOMAIN subscribers
      <4>1. subscribers'[s] = subscribers[s]
        BY <2>1, <3>1
      <4> QED
        BY <1>1, <1>o, <2>2, <2>3, <3>1, <4>1
    <3>2. CASE s \notin DOMAIN subscribers
      BY <2>1, <2>4, <3>2
    <3> QED
      BY <3>1, <3>2
  <2>6. /\ DOMAIN subscribers' \subseteq 1 .. MaxSubscriptions
        /\ subscribed' \in 0 .. MaxSubscriptions
    <3>1. subscribed + 1 \in 1 .. MaxSubscriptions
      BY <1>1, <1>2, <2>1
    <3> QED
      BY <1>1, <2>1, <3>1
  <2> QED
    BY <2>1, <2>3, <2>5, <2>6
<1>7. ASSUME NEW s \in DOMAIN subscribers, Unsubscribe(s)
      PROVE  /\ DOMAIN subscribers' \subseteq 1 .. MaxSubscriptions
             /\ \A r \in DOMAIN subscribers' :
                  /\ subscribers'[r] \in Subscriber
                  /\ \A y : y = subscribers'[r] => SubscriberInv(y)'
             /\ subscribed' \in 0 .. MaxSubscriptions /\ sequence' \in Nat
             /\ ~ up' => DOMAIN subscribers' = {}
  <2>1. /\ up /\ UNCHANGED <<log, up, subscribed, sequence>>
        /\ subscribers' = [x \in DOMAIN subscribers \ {s} |-> subscribers[x]]
    BY <1>7 DEF Unsubscribe, store
  <2>2. HeadGeneration' = HeadGeneration /\ sequence' \in Nat /\ sequence' >= sequence
    BY <1>1, <2>1 DEF HeadGeneration
  <2>3. \A r \in DOMAIN subscribers' : r \in DOMAIN subscribers /\ subscribers'[r] = subscribers[r]
    BY <2>1
  <2> QED
    BY <1>1, <1>o, <2>1, <2>2, <2>3
<1>8. ASSUME NEW s \in DOMAIN subscribers, Poll(s)
      PROVE  /\ DOMAIN subscribers' \subseteq 1 .. MaxSubscriptions
             /\ \A r \in DOMAIN subscribers' :
                  /\ subscribers'[r] \in Subscriber
                  /\ \A y : y = subscribers'[r] => SubscriberInv(y)'
             /\ subscribed' \in 0 .. MaxSubscriptions /\ sequence' \in Nat
             /\ ~ up' => DOMAIN subscribers' = {}
  <2> DEFINE x == subscribers[s]
             z == [x EXCEPT !.queue = Tail(x.queue), !.polled = x.polled + 1,
                            !.seen = Head(x.queue), !.told = x.dropped]
  <2>1. /\ up /\ UNCHANGED <<log, up, subscribed, sequence>> /\ x.queue # <<>>
        /\ subscribers' = [subscribers EXCEPT ![s] = z]
    <3>1. up /\ UNCHANGED <<log, up, subscribed, sequence>> /\ x.queue # <<>>
      BY <1>8 DEF Poll, store
    <3>2. subscribers' = [subscribers EXCEPT ![s] = z]
      BY <1>8 DEF Poll
    <3> QED
      BY <3>1, <3>2
  <2>2. HeadGeneration' = HeadGeneration /\ sequence' \in Nat /\ sequence' >= sequence
    BY <1>1, <2>1 DEF HeadGeneration
  <2>3. x \in Subscriber /\ SubscriberInv(x)
    BY <1>1
  <2>4. z \in Subscriber /\ \A y : y = z => SubscriberInv(y)'
    <3> HIDE DEF x
    <3>1. PollsTo(x, z)
      BY <2>1, <2>3, PollShape
    <3> HIDE DEF z
    <3> QED
      BY <1>1, <1>3, <2>1, <2>2, <2>3, <3>1, PollKeepsInv
  <2> HIDE DEF z
  <2>5. /\ DOMAIN subscribers' = DOMAIN subscribers
        /\ subscribers'[s] = z
        /\ \A r \in DOMAIN subscribers : r # s => subscribers'[r] = subscribers[r]
    BY <2>1
  <2>6. ASSUME NEW r \in DOMAIN subscribers
        PROVE  /\ subscribers'[r] \in Subscriber
               /\ \A y : y = subscribers'[r] => SubscriberInv(y)'
    <3>1. CASE r = s
      BY <2>4, <2>5, <3>1
    <3>2. CASE r # s
      BY <1>1, <1>o, <2>2, <2>5, <3>2
    <3> QED
      BY <3>1, <3>2
  <2> QED
    BY <1>1, <2>1, <2>2, <2>5, <2>6
<1>9. CASE Crash
  <2>1. DOMAIN subscribers' = {} /\ subscribed' = 0 /\ sequence' = 0
    BY <1>9 DEF Crash
  <2> QED
    BY <1>2, <2>1
<1>10. CASE Reopen
  <2>1. ~ up /\ UNCHANGED <<subscribers, subscribed, sequence>>
    BY <1>10 DEF Reopen, feed
  <2> QED
    BY <1>1, <2>1
<1> QED
  BY <1>4, <1>5, <1>6, <1>7, <1>8, <1>9, <1>10 DEF FeedStep

-----------------------------------------------------------------------------
(* The calls of submit *)

LEMMA NextKeepsCallTypes ==
    ASSUME CoreTypes, CallTypes, [Next]_vars
    PROVE  CallTypes'
<1> DEFINE Call == {Idle} \cup
             [step : {"validate", "commit"}, id : 1 .. MaxProposals, token : Token]
<1>1. /\ calls \in [Client -> Call]
      /\ Idle \in Call
  BY DEF CallTypes
<1>2. \A x \in Call : x # Idle => [x EXCEPT !.step = "commit"] \in Call
  OBVIOUS
<1>3. ASSUME NEW t \in Token, NEW id \in 1 .. MaxProposals
      PROVE  [step |-> "validate", id |-> id, token |-> t] \in Call
  OBVIOUS
<1> HIDE DEF Call
<1> SUFFICES calls' \in [Client -> Call]
  BY DEF CallTypes, Call
<1>4. ASSUME NEW c \in Client, NEW x \in Call, calls' = [calls EXCEPT ![c] = x]
      PROVE  calls' \in [Client -> Call]
  BY <1>1, <1>4
<1>5. CASE Submit
  <2>1. PICK c \in Client :
          \/ SubmitProposes(c) \/ SubmitValidates(c) \/ SubmitCannotRead(c)
          \/ SubmitLosesProposal(c) \/ SubmitCommits(c) \/ SubmitRefused(c)
    BY <1>5 DEF Submit
  <2>2. CASE SubmitProposes(c)
    <3>1. PICK a \in Actor, d \in Doc, oversized \in BOOLEAN, t \in Held :
            /\ Admit(a, d, oversized)
            /\ calls' = [calls EXCEPT ![c] =
                            [step |-> "validate", id |-> drawn + 1, token |-> t]]
      BY <2>2 DEF SubmitProposes
    <3>2. t \in Token
      BY DEF Held
    <3>3. drawn + 1 \in 1 .. MaxProposals
      BY <3>1, RuntimeAssumption DEF Admit, CoreTypes
    <3> QED
      BY <1>3, <1>4, <3>1, <3>2, <3>3
  <2>3. CASE SubmitValidates(c)
    <3>1. /\ calls[c] # Idle
          /\ calls' = [calls EXCEPT ![c] =
               IF Stale(Find(calls[c].id)) THEN Idle ELSE [calls[c] EXCEPT !.step = "commit"]]
      BY <2>3 DEF SubmitValidates
    <3>2. calls[c] \in Call
      BY <1>1
    <3> QED
      BY <1>1, <1>2, <1>4, <3>1, <3>2
  <2>4. CASE SubmitLosesProposal(c)
    <3>1. /\ calls[c] # Idle
          /\ calls' = [calls EXCEPT ![c] =
               IF /\ calls[c].id \in DOMAIN index
                  /\ Find(calls[c].id).state = "Committed"
               THEN [calls[c] EXCEPT !.step = "commit"] ELSE Idle]
      BY <2>4 DEF SubmitLosesProposal
    <3>2. calls[c] \in Call
      BY <1>1
    <3> QED
      BY <1>1, <1>2, <1>4, <3>1, <3>2
  <2>5. CASE SubmitCannotRead(c) \/ SubmitCommits(c) \/ SubmitRefused(c)
    <3>1. calls' = [calls EXCEPT ![c] = Idle]
      BY <2>5 DEF SubmitCannotRead, SubmitCommits, SubmitRefused
    <3> QED
      BY <1>1, <1>4, <3>1
  <2> QED
    BY <2>1, <2>2, <2>3, <2>4, <2>5
<1>6. CASE Crash
  <2>1. calls' = [c \in Client |-> Idle]
    BY <1>6 DEF Crash
  <2> QED
    BY <1>1, <2>1
<1>7. CASE UNCHANGED calls
  BY <1>1, <1>7
<1>8. CASE Propose \/ Validate \/ Commit \/ \E id \in 1 .. drawn : Cancel(id)
  BY <1>7, <1>8 DEF Propose, Validate, Commit, Cancel
<1>9. CASE Subscribe \/ \E s \in DOMAIN subscribers : Unsubscribe(s) \/ Poll(s)
  BY <1>7, <1>9 DEF Subscribe, Unsubscribe, Poll
<1>10. CASE RequestShutdown \/ Reopen
  BY <1>7, <1>10 DEF RequestShutdown, Reopen
<1>11. CASE UNCHANGED vars
  BY <1>7, <1>11 DEF vars
<1> QED
  BY <1>5, <1>6, <1>8, <1>9, <1>10, <1>11 DEF Next

-----------------------------------------------------------------------------
(* The theorems *)

RuntimeInv == CoreInv /\ CallTypes /\ FeedInv

(* The inductive invariant holds of every behaviour of the runtime.        *)
THEOREM RuntimeInvariant == Spec => []RuntimeInv
<1>1. ASSUME Init
      PROVE  RuntimeInv
  <2>1. CoreInv /\ FeedInv
    BY <1>1, InitCoreInv, InitFeedInv
  <2>2. CallTypes
    BY <1>1 DEF Init, CallTypes
  <2> QED
    BY <2>1, <2>2 DEF RuntimeInv
<1>2. ASSUME RuntimeInv, [Next]_vars
      PROVE  RuntimeInv'
  <2>1. CoreInv /\ CallTypes /\ FeedInv /\ CoreTypes
    BY <1>2 DEF RuntimeInv, CoreInv
  <2>2. CoreStep /\ FeedStep
    BY <1>2, <2>1, NextCoreStep, NextFeedStep
  <2>3. CoreInv'
    BY <2>1, <2>2, CoreStepKeepsCoreInv
  <2>4. FeedInv'
    BY <2>1, <2>2, FeedStepKeepsFeedInv
  <2>5. CallTypes'
    BY <1>2, <2>1, NextKeepsCallTypes
  <2> QED
    BY <2>3, <2>4, <2>5 DEF RuntimeInv
<1> QED
  BY <1>1, <1>2, PTL DEF Spec

(* Every variable keeps its type, and the table never holds more proposals *)
(* than its limit, with an index that never points past that.              *)
THEOREM TypeCorrect == Spec => []TypeOK
<1>1. RuntimeInv => TypeOK
  BY DEF RuntimeInv, CoreInv, CoreTypes, CallTypes, FeedInv, FeedTypes, TypeOK
<1> QED
  BY <1>1, RuntimeInvariant, PTL

(* However often the table is compacted, the index resolves the identities *)
(* in it, to their own proposals, as long as none was moved out.           *)
THEOREM IndexAlwaysExact == Spec => []IndexExact
<1>1. RuntimeInv => IndexExact
  BY CoreInvIndexExact DEF RuntimeInv
<1> QED
  BY <1>1, RuntimeInvariant, PTL

(* What a commit reported as its diff is computed against the generations  *)
(* it was put on.                                                          *)
THEOREM DiffAlwaysMatches == Spec => []DiffMatchesParent
<1>1. RuntimeInv => DiffMatchesParent
  BY DEF RuntimeInv, CoreInv
<1> QED
  BY <1>1, RuntimeInvariant, PTL

(* No proposal is committed twice, by any number of clients that retry     *)
(* with any token.                                                         *)
THEOREM CommittedOnce == Spec => []CommitOnce
<1>1. RuntimeInv => CommitOnce
  BY DEF RuntimeInv, CoreInv
<1> QED
  BY <1>1, RuntimeInvariant, PTL

(* A confirmed cancellation is final.                                      *)
THEOREM CancellationFinal == Spec => []CancelledNeverCommitted
<1>1. RuntimeInv => CancelledNeverCommitted
  BY DEF RuntimeInv, CoreInv
<1> QED
  BY <1>1, RuntimeInvariant, PTL

LEMMA FeedInvDropsAccounted ==
    ASSUME CoreInv, FeedInv
    PROVE  DropsAccounted
<1> SUFFICES ASSUME NEW s \in DOMAIN subscribers, NEW x, x = subscribers[s]
             PROVE  /\ x.polled + x.dropped + Len(x.queue)
                         = HeadGeneration - x.from + IF x.from > 0 THEN 1 ELSE 0
                    /\ MaxQueue > 0 =>
                         HeadGeneration = IF x.queue # <<>> THEN x.queue[Len(x.queue)].generation
                                          ELSE x.seen.generation
  BY DEF DropsAccounted
<1>1. x \in Subscriber /\ QueueIsTail(x) /\ Accounted(x)
  BY DEF FeedInv, FeedTypes, IsFunctionOn
<1> DEFINE h     == HeadGeneration
           m     == Len(x.queue)
           f     == x.from
           first == IF x.from > 0 THEN 1 ELSE 0
           pd    == x.polled
           dr    == x.dropped
<1>2. /\ h \in Nat /\ m \in Nat /\ f \in Nat /\ pd \in Nat /\ dr \in Nat
      /\ first \in Nat
  <2>1. HeadGeneration \in Nat
    BY DEF HeadGeneration, CoreInv, CoreTypes
  <2>2. /\ x.dropped \in Nat /\ x.from \in Nat /\ x.polled \in Nat /\ Len(x.queue) \in Nat
    BY <1>1, SubscriberNumbers
  <2> QED
    BY <2>1, <2>2
<1>3. f + pd + dr + m = h + first
  BY <1>1 DEF Accounted
<1>4. pd + dr + m = h - f + first
  <2> HIDE DEF h, m, f, first, pd, dr
  <2> QED
    BY <1>2, <1>3
<1>5. ASSUME x.queue # <<>>
      PROVE  x.queue[m].generation = h
  <2>1. /\ m \in DOMAIN x.queue
        /\ \A i \in DOMAIN x.queue : x.queue[i].generation \in Nat
    <3>1. x.queue \in Seq(Publication)
      BY <1>1 DEF Subscriber
    <3>2. m \in DOMAIN x.queue
      BY <1>2, <1>5, <3>1
    <3> QED
      BY <1>1, <3>2, SubscriberNumbers
  <2>2. x.queue[m].generation + m = h + m
    BY <1>1, <2>1 DEF QueueIsTail
  <2>3. x.queue[m].generation \in Nat
    BY <2>1
  <2> HIDE DEF h, m
  <2> QED
    BY <1>2, <2>2, <2>3
<1>6. MaxQueue > 0 /\ x.queue = <<>> => x.seen.generation = h
  BY <1>1 DEF QueueIsTail
<1> QED
  BY <1>4, <1>5, <1>6

LEMMA FeedInvGapsAnnounced ==
    ASSUME CoreInv, FeedInv
    PROVE  GapsAnnounced
<1> SUFFICES ASSUME NEW s \in DOMAIN subscribers, NEW x, x = subscribers[s],
                    NEW all, all = <<x.seen>> \o x.queue
             PROVE  /\ \A i \in 1 .. Len(all) - 1 :
                         /\ all[i].sequence < all[i + 1].sequence
                         /\ all[i].generation < all[i + 1].generation
                    /\ x.polled > 0 =>
                         x.from + x.polled + x.told
                             = x.seen.generation + IF x.from > 0 THEN 1 ELSE 0
  BY DEF GapsAnnounced
<1>1. x \in Subscriber /\ QueueIsTail(x) /\ NumbersRise(x) /\ Accounted(x)
  BY DEF FeedInv, FeedTypes, IsFunctionOn
<1>2. PICK h \in Nat, m \in Nat, q \in Seq(Publication), seen \in Publication :
        /\ h = HeadGeneration /\ q = x.queue /\ m = Len(q) /\ seen = x.seen
        /\ DOMAIN q = 1 .. m
  <2>1. HeadGeneration \in Nat
    BY DEF HeadGeneration, CoreInv, CoreTypes
  <2>2. x.queue \in Seq(Publication) /\ x.seen \in Publication
    BY <1>1 DEF Subscriber
  <2>3. Len(x.queue) \in Nat /\ DOMAIN x.queue = 1 .. Len(x.queue)
    BY <2>2
  <2> QED
    BY <2>1, <2>2, <2>3
<1>3. /\ \A i \in 1 .. m : q[i].generation \in Nat /\ q[i].sequence \in Nat
      /\ seen.generation \in Nat /\ seen.sequence \in Nat
  BY <1>1, <1>2, SubscriberNumbers
<1>4. Len(all) - 1 = m /\ all[1] = seen /\ \A i \in 1 .. m : all[i + 1] = q[i]
  BY <1>2
<1>5. ASSUME NEW i \in 1 .. m
      PROVE  /\ all[i].sequence < all[i + 1].sequence
             /\ all[i].generation < all[i + 1].generation
  <2>1. CASE i = 1
    <3>1. PICK g \in Nat, e \in Nat :
            /\ g = seen.generation /\ g + m <= h
            /\ e = q[1].generation /\ e + m = h + 1
      BY <1>1, <1>2, <1>3, <2>1 DEF QueueIsTail
    <3>2. g + m <= h /\ e + m = h + 1
      BY <3>1
    <3>3. g < e
      BY <3>2
    <3>4. seen.sequence < q[1].sequence
      BY <1>1, <1>2, <2>1 DEF NumbersRise
    <3> QED
      BY <1>4, <2>1, <3>1, <3>3, <3>4
  <2>2. CASE i # 1
    <3>1. PICK j \in 1 .. m : j + 1 = i
      BY <2>2
    <3>a. all[j + 1] = q[j] /\ all[i + 1] = q[i]
      BY <1>4
    <3>b. j < i
      BY <3>1
    <3>2. all[i] = q[j] /\ all[i + 1] = q[i] /\ j < i
      BY <3>1, <3>a, <3>b
    <3>3. PICK g \in Nat, e \in Nat :
            /\ g = q[j].generation /\ g + m = h + j
            /\ e = q[i].generation /\ e + m = h + i
      BY <1>1, <1>2, <1>3 DEF QueueIsTail
    <3>4. g + m = h + j /\ e + m = h + i
      BY <3>3
    <3>5. g < e
      BY <3>2, <3>4
    <3>6. q[j].sequence < q[i].sequence
      BY <1>1, <1>2, <3>2 DEF NumbersRise
    <3> QED
      BY <3>2, <3>3, <3>5, <3>6
  <2> QED
    BY <2>1, <2>2
<1>6. x.polled > 0 =>
        x.from + x.polled + x.told = x.seen.generation + IF x.from > 0 THEN 1 ELSE 0
  BY <1>1 DEF Accounted
<1> QED
  BY <1>4, <1>5, <1>6

(* Every generation since the subscription is polled, queued or counted as *)
(* dropped, for any number of subscribers and any size of queue.           *)
THEOREM DropsAlwaysAccounted == Spec => []DropsAccounted
<1>1. RuntimeInv => DropsAccounted
  BY FeedInvDropsAccounted DEF RuntimeInv
<1> QED
  BY <1>1, RuntimeInvariant, PTL

(* Publications arrive in order, and the drops told with one are exactly   *)
(* the generations that were skipped.                                      *)
THEOREM GapsAlwaysAnnounced == Spec => []GapsAnnounced
<1>1. RuntimeInv => GapsAnnounced
  BY FeedInvGapsAnnounced DEF RuntimeInv
<1> QED
  BY <1>1, RuntimeInvariant, PTL

(* The runtime implements the log of validated generations: a commit       *)
(* appends one, a crash stops, a reopening recovers, and every other step  *)
(* leaves it alone.                                                        *)
THEOREM ImplementsLog == Spec => LogSpec
<1>1. Init => Log!Init
  BY InitLog
<1>2. ASSUME RuntimeInv, [Next]_vars
      PROVE  [Log!Next]_(Log!vars)
  <2>1. CoreInv /\ CoreStep
    BY <1>2, NextCoreStep DEF RuntimeInv, CoreInv
  <2> QED
    BY <2>1, CoreStepLogs
<1> QED
  BY <1>1, <1>2, RuntimeInvariant, PTL DEF Spec, LogSpec, Log!Spec
=============================================================================
