----------------------- MODULE IntentDirectory_proofs -----------------------
(***************************************************************************)
(* Proofs about IntentDirectory for every set of processes, domains and    *)
(* lock files and every number of creations and commits: the lock admits   *)
(* one process; and until a creation replaces a descriptor, a holder is    *)
(* current, the directory stays serviceable and no commit is taken back.   *)
(***************************************************************************)
EXTENDS IntentDirectory, SequenceTheorems, TLAPS

(* The lock file stays once it is made, so that every process that has one *)
(* open has the same.                                                      *)
LockInv ==
    /\ \A p \in Process : proc[p].file \in {None, lockFile}
    /\ \A p \in Process : Inside(p) => proc[p].file # None
    /\ OneWriter

(* What holds whoever creates: where a process is says what is there.      *)
CreationInv ==
    /\ \A p \in Process : proc[p].at # "serve" => proc[p].log = <<>>
    /\ \A p \in Process : proc[p].at = "rename" =>
         /\ temp # None
         /\ temp.domain = proc[p].domain
    /\ \A p \in Process : proc[p].at \in {"open", "recover", "serve"} =>
         descriptor # None
    /\ descriptor = None => head = None /\ bak = None

(* What holds until a descriptor is replaced: all files are of one domain, *)
(* which every process works for that found a descriptor, and the one that *)
(* serves knows the head.                                                  *)
CurrentInv ==
    /\ \A p \in Process : proc[p].at \in {"open", "recover", "serve"} =>
         proc[p].domain = descriptor.domain
    /\ head # None => head.domain = descriptor.domain
    /\ bak # None => head # None /\ Len(bak.log) <= Len(head.log)
    /\ \A p \in Process : proc[p].at = "serve" => proc[p].log = DiskLog

IInv ==
    /\ TypeOK /\ LockInv /\ CreationInv
    /\ replaced = 0 => CurrentInv

-----------------------------------------------------------------------------
(* Types *)

(* Every variable keeps its type.                                          *)
LEMMA InitTypes == Init => TypeOK
BY FileAssumption DEF Init, TypeOK, Out, ProcState

(* A process moves to another well-formed state.                           *)
LEMMA Moves ==
    ASSUME TypeOK, NEW p \in Process, NEW s \in ProcState,
           s.at # "out" => s.domain \in Domain,
           proc' = [proc EXCEPT ![p] = s]
    PROVE  /\ proc' \in [Process -> ProcState]
           /\ \A q \in Process : proc'[q].at # "out" => proc'[q].domain \in Domain
BY DEF TypeOK

LEMMA StepTypes ==
    ASSUME TypeOK, [Next]_vars
    PROVE  TypeOK'
<1>1. CASE UNCHANGED vars
  BY <1>1 DEF vars, TypeOK
<1>2. ASSUME NEW p \in Process, Step(p)
      PROVE  TypeOK'
  <2> DEFINE At(a)   == [proc[p] EXCEPT !.at = a]
             Typed(s) == s \in ProcState /\ (s.at # "out" => s.domain \in Domain)
  <2>0. /\ proc[p] \in ProcState
        /\ proc[p].at # "out" => proc[p].domain \in Domain
        /\ Typed(Out)
    BY DEF TypeOK, Out, ProcState
  <2>1. ASSUME NEW d \in Domain, Create(p, d)
        PROVE  TypeOK'
    <3>1. Typed([proc[p] EXCEPT !.at = "create", !.domain = d])
      BY <2>0 DEF ProcState
    <3>2. proc' = [proc EXCEPT ![p] = [proc[p] EXCEPT !.at = "create", !.domain = d]]
      BY <2>1 DEF Create, TypeOK, ProcState
    <3> QED
      BY <2>1, <3>1, <3>2, Moves DEF Create, TypeOK
  <2>2. CASE Open(p)
    <3> DEFINE s == [proc[p] EXCEPT !.at = "open", !.domain = descriptor.domain]
    <3>1. Typed(s)
      BY <2>0, <2>2 DEF ProcState, Open
    <3>2. proc' = [proc EXCEPT ![p] = s]
      BY <2>2 DEF Open, TypeOK, ProcState
    <3> QED
      BY <2>2, <3>1, <3>2, Moves DEF Open, TypeOK
  <2>3. CASE OpenLockFile(p)
    <3>1. PICK f \in LockFile :
             lockFile' = f /\ proc' = [proc EXCEPT ![p].file = f]
      BY <2>3 DEF OpenLockFile
    <3>2. Typed([proc[p] EXCEPT !.file = f])
      BY <2>0 DEF ProcState
    <3>3. proc' = [proc EXCEPT ![p] = [proc[p] EXCEPT !.file = f]]
      BY <3>1 DEF TypeOK, ProcState
    <3> QED
      BY <2>3, <3>1, <3>2, <3>3, Moves DEF OpenLockFile, TypeOK
  <2>4. CASE Locks(p)
    <3> DEFINE s == At(IF proc[p].at = "create" THEN "write" ELSE "recover")
    <3>1. Typed(s)
      BY <2>0, <2>4 DEF ProcState, Locks
    <3>2. proc' = [proc EXCEPT ![p] = s]
      BY <2>4 DEF Locks, Enters, TypeOK, ProcState
    <3> QED
      BY <2>4, <3>1, <3>2, Moves DEF Locks, TypeOK
  <2>5. CASE WriteDescriptor(p)
    <3>1. Typed(At("rename"))
      BY <2>0, <2>5 DEF ProcState, WriteDescriptor
    <3>2. proc' = [proc EXCEPT ![p] = At("rename")]
      BY <2>5 DEF WriteDescriptor, TypeOK, ProcState
    <3>3. temp' \in Descriptor /\ created' \in Nat
      BY <2>0, <2>5 DEF WriteDescriptor, NewDescriptor, Descriptor, TypeOK
    <3> QED
      BY <2>5, <3>1, <3>2, <3>3, Moves DEF WriteDescriptor, TypeOK
  <2>6. CASE InstallDescriptor(p)
    <3>1. Typed(At("serve"))
      BY <2>0, <2>6 DEF ProcState, InstallDescriptor
    <3>2. proc' = [proc EXCEPT ![p] = At("serve")]
      BY <2>6 DEF InstallDescriptor, TypeOK, ProcState
    <3> QED
      BY <2>6, <3>1, <3>2, Moves DEF InstallDescriptor, TypeOK
  <2>7. CASE CreateFails(p)
    BY <2>0, <2>7, Moves DEF CreateFails, TypeOK
  <2>8. CASE Recovers(p)
    <3> DEFINE d == proc[p].domain
    <3>1. CASE head = None /\ bak = None /\ UNCHANGED head
                 /\ proc' = [proc EXCEPT ![p].at = "serve"]
      <4>1. Typed(At("serve"))
        BY <2>0, <2>8 DEF ProcState, Recovers
      <4>2. proc' = [proc EXCEPT ![p] = At("serve")]
        BY <3>1 DEF TypeOK, ProcState
      <4> QED
        BY <2>8, <3>1, <4>1, <4>2, Moves DEF Recovers, TypeOK
    <3>2. CASE /\ Usable(head, d) \/ Usable(bak, d)
               /\ head' = Chosen(d)
               /\ proc' = [proc EXCEPT ![p].at = "serve", ![p].log = Chosen(d).log]
      <4> DEFINE s == [proc[p] EXCEPT !.at = "serve", !.log = Chosen(d).log]
      <4>1. Chosen(d) \in HeadFile
        BY <3>2 DEF Chosen, Usable, TypeOK
      <4>2. Typed(s)
        BY <2>0, <2>8, <4>1 DEF ProcState, Recovers, HeadFile
      <4>3. proc' = [proc EXCEPT ![p] = s]
        BY <3>2 DEF TypeOK, ProcState
      <4> QED
        BY <2>8, <3>2, <4>1, <4>2, <4>3, Moves DEF Recovers, TypeOK
    <3> QED
      BY <2>8, <3>1, <3>2 DEF Recovers
  <2>9. ASSUME NEW c \in Payload, Commit(p, c)
         PROVE  TypeOK'
    <3> DEFINE l == Append(proc[p].log, c)
               s == [proc[p] EXCEPT !.log = l]
    <3>1. l \in Seq(Payload)
      BY <2>0 DEF ProcState
    <3>2. Typed(s)
      BY <2>0, <3>1 DEF ProcState
    <3>3. proc' = [proc EXCEPT ![p] = s]
      BY <2>9 DEF Commit, TypeOK, ProcState
    <3>4. head' \in HeadFile
      BY <2>0, <2>9, <3>1 DEF Commit, HeadFile
    <3> QED
      BY <2>9, <3>2, <3>3, <3>4, Moves DEF Commit, TypeOK
  <2>10. CASE Leave(p)
    BY <2>0, <2>10, Moves DEF Leave, TypeOK
  <2> QED
    BY <1>2, <2>1, <2>2, <2>3, <2>4, <2>5, <2>6, <2>7, <2>8, <2>9, <2>10
       DEF Step
<1> QED
  BY <1>1, <1>2 DEF Next

-----------------------------------------------------------------------------
(* The lock *)

LEMMA InitLock == Init => LockInv
BY DEF Init, Out, LockInv, Inside, OneWriter

(* What a step does to the process that takes it, as far as the lock is    *)
(* concerned; the others it leaves where they are.                         *)
LEMMA LockStep ==
    ASSUME TypeOK, NEW p \in Process, Step(p)
    PROVE  /\ proc' \in [Process -> ProcState]
           /\ \A q \in Process \ {p} : proc'[q] = proc[q]
           /\ lockFile # None => lockFile' = lockFile
           /\ \/ /\ proc'[p].file = None /\ ~ Inside(p)'
                 /\ lockFile' = lockFile
              \/ /\ proc'[p].file = proc[p].file /\ (Inside(p)' <=> Inside(p))
                 /\ lockFile' = lockFile
              \/ /\ proc'[p].file = lockFile' /\ lockFile' # None
                 /\ ~ Inside(p)' /\ proc[p].file = None
                 /\ lockFile = None \/ lockFile' = lockFile
              \/ /\ proc'[p].file = proc[p].file /\ proc[p].file # None
                 /\ ~ Locked(proc[p].file) /\ lockFile' = lockFile
<1>0. TypeOK'
  BY StepTypes DEF Next
<1>1. proc \in [Process -> ProcState] /\ proc' \in [Process -> ProcState]
  BY <1>0 DEF TypeOK
<1> USE DEF Inside, ProcState
<1>2. ASSUME NEW d \in Domain, Create(p, d)
      PROVE  /\ proc'[p].file = proc[p].file /\ (Inside(p)' <=> Inside(p))
             /\ lockFile' = lockFile /\ \A q \in Process \ {p} : proc'[q] = proc[q]
  BY <1>1, <1>2 DEF Create
<1>3. CASE Open(p)
  BY <1>1, <1>3 DEF Open
<1>4. CASE OpenLockFile(p)
  <2>1. PICK f \in LockFile :
           /\ lockFile \in {f, None}
           /\ lockFile' = f
           /\ proc' = [proc EXCEPT ![p].file = f]
    BY <1>4 DEF OpenLockFile
  <2>2. f # None
    BY DirectoryAssumption
  <2> QED
    BY <1>1, <1>4, <2>1, <2>2 DEF OpenLockFile
<1>5. CASE Locks(p)
  BY <1>1, <1>5 DEF Locks, Enters
<1>6. CASE WriteDescriptor(p)
  BY <1>1, <1>6 DEF WriteDescriptor
<1>7. CASE InstallDescriptor(p)
  BY <1>1, <1>7 DEF InstallDescriptor
<1>8. CASE CreateFails(p)
  BY <1>1, <1>8 DEF CreateFails, Out
<1>9. CASE Recovers(p)
  BY <1>1, <1>9 DEF Recovers
<1>10. ASSUME NEW c \in Payload, Commit(p, c)
       PROVE  /\ proc'[p].file = proc[p].file /\ (Inside(p)' <=> Inside(p))
              /\ lockFile' = lockFile /\ \A q \in Process \ {p} : proc'[q] = proc[q]
  BY <1>1, <1>10 DEF Commit
<1>11. CASE Leave(p)
  BY <1>1, <1>11 DEF Leave, Out
<1> QED
  BY <1>1, <1>2, <1>3, <1>4, <1>5, <1>6, <1>7, <1>8, <1>9, <1>10, <1>11
     DEF Step

LEMMA StepLock ==
    ASSUME TypeOK, LockInv, [Next]_vars
    PROVE  LockInv'
<1>1. CASE UNCHANGED vars
  BY <1>1 DEF vars, LockInv, OneWriter, Inside
<1>2. ASSUME NEW p \in Process, Step(p)
      PROVE  LockInv'
  <2>1. \A q \in Process \ {p} : proc'[q] = proc[q] /\ (Inside(q)' <=> Inside(q))
    BY <1>2, LockStep DEF Inside
  <2>2. \A q \in Process : proc[q].file \in {None, lockFile}
    BY DEF LockInv
  <2>3. \A q \in Process : proc'[q].file \in {None, lockFile'}
    <3>1. \A q \in Process \ {p} : proc'[q].file \in {None, lockFile'}
      BY <1>2, <2>1, <2>2, LockStep
    <3>2. proc'[p].file \in {None, lockFile'}
      BY <1>2, <2>2, LockStep
    <3> QED
      BY <3>1, <3>2
  <2>4. \A q \in Process : Inside(q)' => proc'[q].file # None
    BY <1>2, <2>1, LockStep DEF LockInv
  <2>5. ASSUME NEW q \in Process \ {p}, Inside(p)', Inside(q)'
        PROVE  FALSE
    <3>1. Inside(q) /\ proc[q].file # None /\ proc[q].file = lockFile
      BY <2>1, <2>2, <2>5 DEF LockInv
    <3>2. Inside(p) \/ (proc[p].file # None /\ ~ Locked(proc[p].file))
      BY <1>2, <2>5, LockStep
    <3>3. CASE Inside(p)
      BY <3>1, <3>3, <2>5 DEF LockInv, OneWriter
    <3>4. CASE proc[p].file # None /\ ~ Locked(proc[p].file)
      BY <2>2, <3>1, <3>4 DEF Locked
    <3> QED
      BY <3>2, <3>3, <3>4
  <2>6. OneWriter'
    <3> SUFFICES ASSUME NEW q \in Process, NEW r \in Process, Inside(q)', Inside(r)'
                 PROVE  q = r
      BY DEF OneWriter
    <3>1. CASE q = p \/ r = p
      BY <2>5, <3>1
    <3>2. CASE q # p /\ r # p
      BY <2>1, <3>2 DEF LockInv, OneWriter
    <3> QED
      BY <3>1, <3>2
  <2> QED
    BY <2>3, <2>4, <2>6 DEF LockInv
<1> QED
  BY <1>1, <1>2 DEF Next

(* The lock admits one process, whoever creates, opens, fails and is       *)
(* killed: every process that gets past acquire has the lock of the same   *)
(* file.                                                                   *)
THEOREM OneWriterHolds == Spec => []OneWriter
<1>1. Init => TypeOK /\ LockInv
  BY InitTypes, InitLock
<1>2. TypeOK /\ LockInv /\ [Next]_vars => (TypeOK /\ LockInv)'
  BY StepTypes, StepLock
<1>3. TypeOK /\ LockInv => OneWriter
  BY DEF LockInv
<1> QED
  BY <1>1, <1>2, <1>3, PTL DEF Spec

-----------------------------------------------------------------------------
(* The directory *)

LEMMA InitCurrent == Init => CreationInv /\ CurrentInv
BY DEF Init, Out, CreationInv, CurrentInv, DiskLog

LEMMA StepCreation ==
    ASSUME TypeOK, LockInv, CreationInv, [Next]_vars
    PROVE  CreationInv' /\ (replaced' = 0 => replaced = 0)
<1>1. CASE UNCHANGED vars
  BY <1>1 DEF vars, CreationInv
<1>2. ASSUME NEW p \in Process, Step(p)
      PROVE  CreationInv' /\ (replaced' = 0 => replaced = 0)
  <2>0. proc \in [Process -> ProcState]
    BY DEF TypeOK
  <2>00. ASSUME NEW q \in Process \ {p}, Inside(p)
         PROVE  ~ Inside(q)
    BY <2>00 DEF LockInv, OneWriter
  <2> USE DEF ProcState
  <2>1. ASSUME NEW d \in Domain, Create(p, d)
        PROVE  CreationInv' /\ (replaced' = 0 => replaced = 0)
    BY <2>0, <2>1 DEF CreationInv, Create
  <2>2. CASE Open(p)
    BY <2>0, <2>2 DEF CreationInv, Open
  <2>3. CASE OpenLockFile(p)
    <3>1. PICK f \in LockFile : proc' = [proc EXCEPT ![p].file = f]
      BY <2>3 DEF OpenLockFile
    <3> QED
      BY <2>0, <2>3, <3>1 DEF CreationInv, OpenLockFile
  <2>4. CASE Locks(p)
    BY <2>0, <2>4 DEF CreationInv, Locks, Enters
  <2>5. CASE WriteDescriptor(p)
    <3>1. temp' # None /\ temp'.domain = proc[p].domain
      BY <2>5, FileAssumption DEF WriteDescriptor, NewDescriptor, Descriptor, TypeOK
    <3>2. \A q \in Process \ {p} : proc[q].at # "rename"
      BY <2>00, <2>5 DEF WriteDescriptor, Inside
    <3> QED
      BY <2>0, <2>5, <3>1, <3>2 DEF CreationInv, WriteDescriptor
  <2>6. CASE InstallDescriptor(p)
    <3>1. \A q \in Process \ {p} : proc[q].at # "rename"
      BY <2>00, <2>6 DEF InstallDescriptor, Inside
    <3>2. replaced' = 0 => replaced = 0
      BY <2>6 DEF InstallDescriptor, TypeOK
    <3> QED
      BY <2>0, <2>6, <3>1, <3>2 DEF CreationInv, InstallDescriptor
  <2>7. CASE CreateFails(p)
    <3>1. \A q \in Process \ {p} : proc[q].at # "rename"
      BY <2>00, <2>7 DEF CreateFails, Inside
    <3> QED
      BY <2>0, <2>7, <3>1 DEF CreationInv, CreateFails, Out
  <2>8. CASE Recovers(p)
    <3>1. /\ descriptor # None
          /\ \A q \in Process \ {p} : proc'[q] = proc[q]
          /\ proc'[p].at = "serve"
      BY <2>0, <2>8 DEF CreationInv, Recovers
    <3> QED
      BY <2>0, <2>8, <3>1 DEF CreationInv, Recovers
  <2>9. ASSUME NEW c \in Payload, Commit(p, c)
        PROVE  CreationInv' /\ (replaced' = 0 => replaced = 0)
    BY <2>0, <2>9 DEF CreationInv, Commit
  <2>10. CASE Leave(p)
    BY <2>0, <2>10 DEF CreationInv, Leave, Out
  <2> QED
    BY <1>2, <2>1, <2>2, <2>3, <2>4, <2>5, <2>6, <2>7, <2>8, <2>9, <2>10 DEF Step
<1> QED
  BY <1>1, <1>2 DEF Next

LEMMA StepCurrent ==
    ASSUME TypeOK, LockInv, CreationInv, CurrentInv, replaced' = 0, [Next]_vars
    PROVE  CurrentInv' /\ PrefixOf(DiskLog, DiskLog')
<1>1. proc \in [Process -> ProcState]
  BY DEF TypeOK
<1>2. DiskLog \in Seq(Payload)
  BY DEF DiskLog, TypeOK, HeadFile
<1>3. PrefixOf(DiskLog, DiskLog)
  BY <1>2 DEF PrefixOf
<1>4. CASE UNCHANGED vars
  BY <1>3, <1>4 DEF vars, CurrentInv, DiskLog
<1>5. ASSUME NEW p \in Process, Step(p)
      PROVE  CurrentInv' /\ PrefixOf(DiskLog, DiskLog')
  <2> USE DEF ProcState
  <2>1. ASSUME NEW d \in Domain, Create(p, d)
        PROVE  CurrentInv' /\ DiskLog' = DiskLog
    BY <1>1, <2>1 DEF CurrentInv, DiskLog, Create
  <2>2. CASE Open(p)
    BY <1>1, <1>3, <2>2 DEF CurrentInv, DiskLog, Open
  <2>3. CASE OpenLockFile(p)
    <3>1. PICK f \in LockFile : proc' = [proc EXCEPT ![p].file = f]
      BY <2>3 DEF OpenLockFile
    <3> QED
      BY <1>1, <1>3, <2>3, <3>1 DEF CurrentInv, DiskLog, OpenLockFile
  <2>4. CASE Locks(p)
    <3>1. proc[p].at = "open" <=> proc'[p].at = "recover"
      BY <1>1, <2>4 DEF Locks, Enters
    <3> QED
      BY <1>1, <1>3, <2>4, <3>1 DEF CurrentInv, DiskLog, Locks, Enters
  <2>5. CASE WriteDescriptor(p)
    BY <1>1, <1>3, <2>5 DEF CurrentInv, DiskLog, WriteDescriptor
  <2>6. CASE InstallDescriptor(p)
    <3>1. /\ descriptor = None /\ head = None /\ bak = None
          /\ temp # None /\ temp.domain = proc[p].domain /\ proc[p].log = <<>>
      <4>1. descriptor = None
        BY <2>6 DEF InstallDescriptor, TypeOK
      <4> QED
        BY <2>6, <4>1 DEF InstallDescriptor, CreationInv
    <3>2. \A q \in Process : proc[q].at \notin {"open", "recover", "serve"}
      BY <3>1 DEF CreationInv
    <3> QED
      BY <1>1, <1>3, <2>6, <3>1, <3>2 DEF CurrentInv, DiskLog, InstallDescriptor
  <2>7. CASE CreateFails(p)
    BY <1>1, <1>3, <2>7 DEF CurrentInv, DiskLog, CreateFails, Out
  <2>8. CASE Recovers(p)
    <3>1. proc[p].domain = descriptor.domain /\ proc[p].log = <<>>
      BY <2>8 DEF CurrentInv, CreationInv, Recovers
    <3>2. head' = head /\ proc' = [proc EXCEPT ![p].at = "serve", ![p].log = DiskLog]
      <4>1. CASE head = None
        BY <1>1, <2>8, <3>1, <4>1 DEF Recovers, CurrentInv, Usable, DiskLog
      <4>2. CASE head # None
        <5>1. head.log \in Seq(Payload) /\ (bak # None => bak.log \in Seq(Payload))
          BY <4>2 DEF TypeOK, HeadFile
        <5>2. ~ (bak # None /\ Len(bak.log) > Len(head.log))
          BY <5>1 DEF CurrentInv
        <5>3. Chosen(proc[p].domain) = head
          BY <3>1, <4>2, <5>2 DEF CurrentInv, Usable, Chosen
        <5> QED
          BY <2>8, <4>2, <5>3 DEF Recovers, DiskLog
      <4> QED
        BY <4>1, <4>2
    <3> QED
      BY <1>1, <1>3, <2>8, <3>1, <3>2 DEF CurrentInv, DiskLog, Recovers
  <2>9. ASSUME NEW c \in Payload, Commit(p, c)
        PROVE  CurrentInv' /\ PrefixOf(DiskLog, DiskLog')
    <3> DEFINE l == Append(proc[p].log, c)
    <3>1. proc[p].domain = descriptor.domain /\ proc[p].log = DiskLog
      BY <2>9 DEF CurrentInv, Commit
    <3>2. head' = [domain |-> proc[p].domain, log |-> l]
      BY <2>9 DEF Commit
    <3>3. head' # None
      <4>1. proc[p].domain \in Domain /\ l \in Seq(Payload)
        BY <1>2, <2>9, <3>1 DEF TypeOK, Commit
      <4> HIDE DEF l
      <4>2. head' \in HeadFile
        BY ONLY <3>2, <4>1 DEF HeadFile
      <4> QED
        BY <4>2, FileAssumption
    <3>4. DiskLog' = l
      BY <3>2, <3>3 DEF DiskLog
    <3>5. \A q \in Process \ {p} : proc[q].at # "serve"
      BY <2>9 DEF LockInv, OneWriter, Inside, Commit
    <3>6. bak' # None => Len(bak'.log) <= Len(l)
      <4>1. CASE head = None
        BY <2>9, <4>1 DEF CurrentInv, Commit
      <4>2. CASE head # None
        BY <1>2, <2>9, <3>1, <4>2 DEF DiskLog, Commit
      <4> QED
        BY <4>1, <4>2
    <3>7. descriptor' = descriptor /\ proc' = [proc EXCEPT ![p].log = l]
      BY <1>1, <2>9 DEF Commit
    <3>8. CurrentInv'
      BY <1>1, <3>1, <3>2, <3>3, <3>4, <3>5, <3>6, <3>7 DEF CurrentInv
    <3>9. PrefixOf(DiskLog, l)
      BY <1>2, <3>1 DEF PrefixOf
    <3> QED
      BY <3>4, <3>8, <3>9
  <2>10. CASE Leave(p)
    BY <1>1, <1>3, <2>10 DEF CurrentInv, DiskLog, Leave, Out
  <2> QED
    BY <1>3, <1>5, <2>1, <2>2, <2>3, <2>4, <2>5, <2>6, <2>7, <2>8, <2>9, <2>10
       DEF Step
<1> QED
  BY <1>4, <1>5 DEF Next

LEMMA Invariance == Spec => []IInv
<1>1. Init => IInv
  BY InitTypes, InitLock, InitCurrent DEF IInv
<1>2. IInv /\ [Next]_vars => IInv'
  BY StepTypes, StepLock, StepCreation, StepCurrent DEF IInv
<1> QED
  BY <1>1, <1>2, PTL DEF Spec

(* While no descriptor has been replaced, whoever serves has the domain    *)
(* that the descriptor names and the head that is on disk, although it has *)
(* read the one before its lock and the other once after it.               *)
THEOREM HolderIsCurrentHolds == Spec => []HolderIsCurrent
<1>1. IInv => HolderIsCurrent
  BY DEF IInv, CreationInv, CurrentInv, HolderIsCurrent
<1> QED
  BY <1>1, Invariance, PTL

(* While no descriptor has been replaced, a kill at any point of create,   *)
(* open and commit leaves a directory that can be created or opened.       *)
THEOREM ServiceableHolds == Spec => []Serviceable
<1>1. IInv => Serviceable
  BY FileAssumption DEF IInv, TypeOK, Descriptor, CurrentInv, Serviceable, Usable
<1> QED
  BY <1>1, Invariance, PTL

(* While no descriptor has been replaced, no process takes back a commit   *)
(* of another.                                                             *)
THEOREM CommittedStayHolds == Spec => CommittedStay
<1>1. IInv /\ [Next]_vars => (replaced' = 0 => PrefixOf(DiskLog, DiskLog'))
  BY StepCreation, StepCurrent DEF IInv
<1> QED
  BY <1>1, Invariance, PTL DEF Spec, CommittedStay
=============================================================================
