------------------------ MODULE IntentStore_proofs ------------------------
(***************************************************************************)
(* Proofs about IntentStore for every number of records, generations,      *)
(* opens, failures and damaged files: its safety invariants, and that it   *)
(* implements IntentLog.                                                   *)
(***************************************************************************)
EXTENDS IntentStore, FiniteSetTheorems, SequenceTheorems, WellFoundedInduction, TLAPS

Up       == phase \in {"sweep", "idle"} \cup CommitPhases
Serves   == phase \in {"idle"} \cup CommitPhases
Commits  == phase \in CommitPhases

(* Every record was built by a commit, on the head it found.               *)
RecordsInv ==
    /\ \A r \in minted : r.generation = Len(r.parent) + 1
    /\ {head, bak} \ {None, Damaged} \subseteq minted
    /\ {authority, memHead, pending} \ {None} \subseteq minted

(* What is in memory while a process is up.                                *)
MemoryInv ==
    /\ Up => memHead = authority
    /\ Serves => head \in {authority, Damaged}
    /\ Commits => /\ pending.parent = HeadDigest(memHead)
                  /\ pending.generation = HeadGeneration + 1
    /\ ~ Commits => pending = None

(* head.json never disappears, and it is the authority unless it rotted.   *)
HeadInv ==
    /\ authority = None => head = None /\ bak = None
    /\ authority # None => head \in {authority, Damaged}

BackupInv ==
    /\ BackupTrails
    /\ phase = "replace" /\ bak \notin {None, Damaged} =>
         GenerationOf(authority) <= bak.generation + skipped

JournalInv ==
    /\ JournalBeforeHead
    /\ authority # None => authority \in journal
    /\ phase \in {"backup", "fill", "replace"} => pending \in journal

KeptInv ==
    /\ HeadRecordKept
    /\ phase \in {"lineage", "backup", "fill", "replace"} => pending \in records

(* The tokens of this process are no newer than its head, and those of its *)
(* generation saw exactly its head.                                        *)
FenceInv ==
    /\ \A t \in issued : t.incarnation <= incarnation
    /\ phase = "sweep" => \A t \in issued : t.incarnation < incarnation
    /\ Serves =>
        \A t \in issued : t.incarnation = incarnation =>
            /\ t.generation <= HeadGeneration
            /\ t.generation = HeadGeneration => t.saw = HeadDigest(memHead)

Types ==
    /\ TypeOK
    /\ IsFiniteSet(records)
    /\ Commits => pending \in Record

(* The inductive invariant, in layers: FenceInv and DiskInv are inductive  *)
(* relative to RecordInv, which is inductive relative to Types.            *)
RecordInv == Types /\ RecordsInv /\ MemoryInv /\ HeadInv
DiskInv   == JournalInv /\ KeptInv /\ BackupInv

-----------------------------------------------------------------------------
(* Types                                                                   *)

LEMMA RecordFields ==
    ASSUME NEW r \in Record
    PROVE  /\ r # None /\ r # Damaged
           /\ r.generation \in Nat /\ r.payload \in Payload
           /\ r.parent \in Seq(Payload) /\ r.epoch \in Nat
           /\ r.incarnation \in Nat
           /\ HeadDigest(r) = Append(r.parent, r.payload)
           /\ GenerationOf(r) = r.generation
BY MarkerAssumption DEF Record, HeadDigest, GenerationOf

LEMMA HeadDigestType ==
    ASSUME NEW r \in Record \cup {None}
    PROVE  HeadDigest(r) \in Seq(Payload) /\ GenerationOf(r) \in Nat
BY RecordFields DEF HeadDigest, GenerationOf, Record

LEMMA TokenType ==
    ASSUME NEW r \in Record \cup {None}, NEW e \in Nat, NEW i \in Nat
    PROVE  Token(r, e, i) \in Fence
BY HeadDigestType DEF Token, Fence

LEMMA NewRecordType ==
    ASSUME TypeOK, NEW r \in Request, NEW p \in Payload
    PROVE  NewRecord(r, p) \in Record
BY HeadDigestType, StoreAssumption DEF NewRecord, Record, Request, TypeOK

LEMMA TypesInit == Init => Types
<1> SUFFICES ASSUME Init PROVE Types
  OBVIOUS
<1>1. Token(None, 1, 1) \in Fence
  BY TokenType
<1>2. IsFiniteSet({})
  BY FS_EmptySet
<1> QED
  BY <1>1, <1>2 DEF Init, Types, TypeOK, Phases, Commits, CommitPhases

LEMMA TypesCommitStep == Types /\ CommitStep => Types'
<1> SUFFICES ASSUME Types, CommitStep PROVE Types'
  OBVIOUS
<1> USE DEF Types, TypeOK, Phases, CommitPhases, Commits
<1>1. ASSUME NEW f \in issued, NEW w \in Writer \cup {NoWriter},
             NEW r \in Request, NEW p \in Payload, BeginCommit(f, w, r, p)
      PROVE  Types'
  <2>1. NewRecord(r, p) \in Record
    BY NewRecordType
  <2> QED
    BY <1>1, <2>1 DEF BeginCommit, disk, memory
<1>2. CASE WriteRecord
  <2>1. pending \in Record => IsFiniteSet(records \cup {pending})
    BY FS_AddElement
  <2> QED
    BY <1>2, <2>1 DEF WriteRecord, memory, ghosts
<1>3. CASE AppendLineage
  BY <1>3 DEF AppendLineage, memory, ghosts
<1>4. CASE TruncateBackup
  BY <1>4 DEF TruncateBackup, memory, ghosts
<1>5. CASE FillBackup
  BY <1>5 DEF FillBackup, memory, ghosts
<1>6. CASE NoBackupNeeded
  BY <1>6 DEF NoBackupNeeded, disk, memory, ghosts
<1>7. CASE SkipBackup
  BY <1>7 DEF SkipBackup, disk, memory
<1>8. CASE ReplaceHead
  <2>1. Token(pending, epoch, incarnation) \in Fence
    BY TokenType
  <2> QED
    BY <1>8, <2>1 DEF ReplaceHead
<1>9. CASE CommitFails
  BY <1>9 DEF CommitFails, memory
<1> QED
  BY <1>1, <1>2, <1>3, <1>4, <1>5, <1>6, <1>7, <1>8, <1>9 DEF CommitStep

LEMMA TypesPrune == Types /\ Prune => Types'
<1> SUFFICES ASSUME Types, NEW k \in KeepCounts, NEW left \in SUBSET records,
                    k <= HeadGeneration + 1,
                    PruneBefore(HeadGeneration + 1 - k, left)
             PROVE  Types'
  BY DEF Prune
<1> DEFINE old == {r \in records : r.generation < HeadGeneration + 1 - k}
<1>1. IsFiniteSet(old) /\ IsFiniteSet(records \ (old \ left))
  BY FS_Subset DEF Types
<1>2. Cardinality(old) \in Nat
  BY <1>1, FS_CardinalityType
<1>3. retained' \in Nat
  <2> HIDE DEF old
  <2>1. retained' = IF Cardinality(old) > 0 /\ retained >= Cardinality(old)
                    THEN retained - Cardinality(old) ELSE 0
    BY DEF PruneBefore, old
  <2> QED
    BY <1>2, <2>1 DEF Types, TypeOK
<1>4. records' = records \ (old \ left) /\ rotten' = rotten \ (old \ left)
  BY DEF PruneBefore
<1>5. failures' \in Nat
  BY DEF PruneBefore, Types, TypeOK
<1> HIDE DEF old
<1> QED
  BY <1>1, <1>3, <1>4, <1>5
     DEF PruneBefore, Types, TypeOK, Phases, Commits, CommitPhases, ghosts

LEMMA TypesCrash ==
    ASSUME Types, NEW swept \in SUBSET records, Crash(swept)
    PROVE  Types'
<1>1. IsFiniteSet(records \ swept)
  BY FS_Subset DEF Types
<1> QED
  BY <1>1 DEF Crash, Types, TypeOK, Phases, Commits, CommitPhases

LEMMA ChosenIsValid ==
    ASSUME Types, CanRecover
    PROVE  /\ ChosenHead \in records
           /\ ChosenHead \in Record
           /\ ChosenHead = head \/ ChosenHead = bak
BY DEF CanRecover, ChosenHead, ValidHead, Types, TypeOK

LEMMA TypesOpen == Types /\ Open => Types'
<1> SUFFICES ASSUME Types, Open PROVE Types'
  OBVIOUS
<1> USE DEF Types, TypeOK, Phases, CommitPhases, Commits
<1>1. CASE OpenGenesis
  <2>0. incarnation + 1 \in Nat /\ 1 \in Nat /\ None \in Record \cup {None}
    OBVIOUS
  <2>1. Token(None, 1, incarnation + 1) \in Fence
    BY <2>0, TokenType
  <2> QED
    BY <1>1, <2>1 DEF OpenGenesis, disk
<1>2. CASE OpenCommitted
  <2>1. ChosenHead \in Record
    BY <1>2, ChosenIsValid DEF OpenCommitted
  <2>2. ChosenHead.epoch + 1 \in Nat
    BY <2>1, RecordFields
  <2> QED
    BY <1>2, <2>1, <2>2 DEF OpenCommitted
<1>3. CASE OpenEpochExhausted
  <2>1. ChosenHead \in Record
    BY <1>3, ChosenIsValid DEF OpenEpochExhausted
  <2> QED
    BY <1>3, <2>1 DEF OpenEpochExhausted, memory
<1>4. ASSUME NEW left \in SUBSET records, Sweep(left)
      PROVE  Types'
  <2> DEFINE kept == {r \in records : r.generation <= HeadGeneration}
  <2>1. IsFiniteSet(kept) /\ IsFiniteSet(records \ (Orphans \ left))
    BY FS_Subset
  <2>2. Cardinality(kept) \in Nat
    BY <2>1, FS_CardinalityType
  <2>3. Token(memHead, epoch, incarnation) \in Fence
    BY TokenType
  <2>4. retained' = Cardinality(kept)
    BY <1>4 DEF Sweep
  <2> HIDE DEF kept
  <2> QED
    BY <1>4, <2>1, <2>2, <2>3, <2>4 DEF Sweep
<1> QED
  BY <1>1, <1>2, <1>3, <1>4 DEF Open

LEMMA TypesDamage == Types /\ Damage => Types'
BY DEF Types, TypeOK, Phases, CommitPhases, Commits, Damage, DamageHead,
       DamageBackup, DamageRecord, memory, ghosts

LEMMA TypesNext == Types /\ [Next]_vars => Types'
<1>1. Types /\ UNCHANGED vars => Types'
  BY DEF Types, TypeOK, Commits, vars, disk, memory, ghosts
<1> QED
  BY <1>1, TypesCommitStep, TypesPrune, TypesCrash, TypesOpen, TypesDamage DEF Next

(* Type correctness.                                                       *)
THEOREM TypeCorrect == Spec => []TypeOK
<1>1. Types => TypeOK
  BY DEF Types
<1> QED
  BY <1>1, TypesInit, TypesNext, PTL DEF Spec

-----------------------------------------------------------------------------
(* Who built a record, and what is in memory                               *)

LEMMA RecordInit == Init => RecordsInv /\ MemoryInv /\ HeadInv
BY DEF Init, RecordsInv, MemoryInv, HeadInv, Up, Serves, Commits, CommitPhases

LEMMA PhasesDistinct ==
    /\ Up <=> phase \in {"sweep", "idle"} \/ Commits
    /\ Serves <=> phase = "idle" \/ Commits
    /\ phase \in {"down", "sweep", "idle"} => ~ Commits
BY DEF Up, Serves, Commits, CommitPhases

LEMMA NewRecordFields ==
    ASSUME RecordInv, NEW f \in issued, NEW w, NEW r \in Request,
           NEW p \in Payload, Admits(f, w, r)
    PROVE  /\ NewRecord(r, p).parent = HeadDigest(memHead)
           /\ NewRecord(r, p).generation = HeadGeneration + 1
           /\ NewRecord(r, p).generation = Len(NewRecord(r, p).parent) + 1
<1>1. NewRecord(r, p).parent = HeadDigest(memHead)
  BY DEF NewRecord
<1>2. NewRecord(r, p).generation = HeadGeneration + 1
  BY DEF NewRecord, Admits
<1>3. HeadGeneration = Len(HeadDigest(memHead))
  <2>1. CASE memHead = None
    BY <2>1 DEF HeadGeneration, GenerationOf, HeadDigest
  <2>2. CASE memHead # None
    <3>1. memHead \in Record /\ memHead \in minted
      BY <2>2 DEF RecordInv, Types, TypeOK, RecordsInv
    <3>2. memHead.generation = Len(memHead.parent) + 1
      BY <3>1 DEF RecordInv, RecordsInv
    <3>3. Len(Append(memHead.parent, memHead.payload)) = Len(memHead.parent) + 1
      BY <3>1, RecordFields
    <3> QED
      BY <2>2, <3>1, <3>2, <3>3, RecordFields DEF HeadGeneration
  <2> QED
    BY <2>1, <2>2
<1> QED
  BY <1>1, <1>2, <1>3

LEMMA RecordCommitStep == RecordInv /\ CommitStep => RecordsInv' /\ MemoryInv' /\ HeadInv'
<1> SUFFICES ASSUME RecordInv, CommitStep PROVE RecordsInv' /\ MemoryInv' /\ HeadInv'
  OBVIOUS
<1> USE DEF RecordInv, RecordsInv, MemoryInv, HeadInv, Up, Serves, Commits, CommitPhases,
            HeadGeneration
<1>1. ASSUME NEW f \in issued, NEW w \in Writer \cup {NoWriter},
             NEW r \in Request, NEW p \in Payload, BeginCommit(f, w, r, p)
      PROVE  RecordsInv' /\ MemoryInv' /\ HeadInv'
  <2> DEFINE new == NewRecord(r, p)
  <2>1. /\ new.parent = HeadDigest(memHead)
        /\ new.generation = HeadGeneration + 1
        /\ new.generation = Len(new.parent) + 1
    BY <1>1, NewRecordFields DEF BeginCommit
  <2>2. /\ phase = "idle" /\ phase' = "record"
        /\ pending' = new /\ minted' = minted \cup {new}
        /\ UNCHANGED <<head, bak, memHead, authority>>
    BY <1>1 DEF BeginCommit, disk, memory
  <2> HIDE DEF new
  <2> QED
    BY <2>1, <2>2
<1>2. CASE WriteRecord
  BY <1>2 DEF WriteRecord, memory, ghosts
<1>3. CASE AppendLineage
  BY <1>3 DEF AppendLineage, memory, ghosts
<1>4. CASE TruncateBackup
  BY <1>4 DEF TruncateBackup, memory, ghosts
<1>5. CASE FillBackup
  BY <1>5 DEF FillBackup, memory, ghosts
<1>6. CASE NoBackupNeeded
  BY <1>6 DEF NoBackupNeeded, disk, memory, ghosts
<1>7. CASE SkipBackup
  BY <1>7 DEF SkipBackup, disk, memory
<1>8. CASE ReplaceHead
  BY <1>8, MarkerAssumption DEF ReplaceHead, Types
<1>9. CASE CommitFails
  BY <1>9 DEF CommitFails, memory
<1> QED
  BY <1>1, <1>2, <1>3, <1>4, <1>5, <1>6, <1>7, <1>8, <1>9 DEF CommitStep

LEMMA RecordOpen == RecordInv /\ Open => RecordsInv' /\ MemoryInv' /\ HeadInv'
<1> SUFFICES ASSUME RecordInv, Open PROVE RecordsInv' /\ MemoryInv' /\ HeadInv'
  OBVIOUS
<1> USE DEF RecordInv, RecordsInv, MemoryInv, HeadInv, Up, Serves, Commits, CommitPhases,
            HeadGeneration
<1>1. CASE OpenGenesis
  BY <1>1, MarkerAssumption DEF OpenGenesis, disk
<1>2. CASE OpenCommitted
  <2>1. ChosenHead \in Record /\ (ChosenHead = head \/ ChosenHead = bak)
    BY <1>2, ChosenIsValid DEF OpenCommitted
  <2> QED
    BY <1>2, <2>1, MarkerAssumption DEF OpenCommitted
<1>3. CASE OpenEpochExhausted
  <2>1. ChosenHead \in Record /\ (ChosenHead = head \/ ChosenHead = bak)
    BY <1>3, ChosenIsValid DEF OpenEpochExhausted
  <2> QED
    BY <1>3, <2>1, MarkerAssumption DEF OpenEpochExhausted, memory
<1>4. ASSUME NEW left \in SUBSET records, Sweep(left)
      PROVE  RecordsInv' /\ MemoryInv' /\ HeadInv'
  BY <1>4 DEF Sweep
<1> QED
  BY <1>1, <1>2, <1>3, <1>4 DEF Open

LEMMA RecordOther ==
    ASSUME RecordInv,
           \/ Prune \/ Damage \/ UNCHANGED vars
           \/ \E swept \in SUBSET records : Crash(swept)
    PROVE  RecordsInv' /\ MemoryInv' /\ HeadInv'
<1> USE DEF RecordInv, RecordsInv, MemoryInv, HeadInv, Up, Serves, Commits, CommitPhases,
            HeadGeneration
<1>1. CASE Prune
  BY <1>1 DEF Prune, PruneBefore, ghosts
<1>2. CASE Damage
  BY <1>2, MarkerAssumption
     DEF Damage, DamageHead, DamageBackup, DamageRecord, memory, ghosts
<1>3. CASE UNCHANGED vars
  BY <1>3 DEF vars, disk, memory, ghosts
<1>4. CASE \E swept \in SUBSET records : Crash(swept)
  BY <1>4 DEF Crash
<1> QED
  BY <1>1, <1>2, <1>3, <1>4

LEMMA RecordNext == RecordInv /\ [Next]_vars => RecordInv'
BY TypesNext, RecordCommitStep, RecordOpen, RecordOther DEF RecordInv, Next

LEMMA RecordInvariant == Spec => []RecordInv
<1>1. Init => RecordInv
  BY TypesInit, RecordInit DEF RecordInv
<1> QED
  BY <1>1, RecordNext, PTL DEF Spec

-----------------------------------------------------------------------------
(* Fencing                                                                 *)

LEMMA IssuedFields ==
    ASSUME Types, NEW t \in issued
    PROVE  t.generation \in Nat /\ t.incarnation \in Nat
BY DEF Types, TypeOK, Fence

LEMMA FenceInit == Init => FenceInv
BY MarkerAssumption
   DEF Init, FenceInv, Serves, CommitPhases, Token, GenerationOf,
       HeadGeneration, HeadDigest

(* A step that leaves the tokens, the head in memory and the commit under  *)
(* way alone keeps FenceInv, if it does not open the store.                *)
LEMMA FenceFrame ==
    ASSUME FenceInv,
           UNCHANGED <<issued, incarnation>>,
           \/ phase' = "down"
           \/ Serves /\ Serves' /\ UNCHANGED memHead
           \/ UNCHANGED <<phase, memHead>>
    PROVE  FenceInv'
BY DEF FenceInv, Serves, CommitPhases, HeadGeneration

LEMMA FenceBegin ==
    ASSUME RecordInv, FenceInv, NEW f \in issued, NEW w \in Writer \cup {NoWriter},
           NEW r \in Request, NEW p \in Payload, BeginCommit(f, w, r, p)
    PROVE  FenceInv'
BY DEF BeginCommit, FenceInv, Serves, CommitPhases, HeadGeneration, memory

LEMMA FenceReplace ==
    ASSUME RecordInv, FenceInv, ReplaceHead
    PROVE  FenceInv'
<1>1. pending \in Record /\ pending.generation = HeadGeneration + 1
  BY DEF RecordInv, Types, MemoryInv, ReplaceHead, Commits, CommitPhases
<1>2. /\ memHead' = pending /\ HeadGeneration' = pending.generation
      /\ pending' = None /\ phase = "replace" /\ phase' = "idle"
      /\ UNCHANGED incarnation
      /\ issued' = issued \cup {Token(pending, epoch, incarnation)}
  BY <1>1, RecordFields DEF ReplaceHead, HeadGeneration
<1>3. HeadGeneration \in Nat /\ incarnation \in Nat
  BY HeadDigestType DEF HeadGeneration, RecordInv, Types, TypeOK
<1>4. SUFFICES ASSUME NEW t \in issued'
               PROVE  /\ t.incarnation <= incarnation
                      /\ t.incarnation = incarnation =>
                           /\ t.generation <= pending.generation
                           /\ t.generation = pending.generation =>
                                t.saw = HeadDigest(pending)
  BY <1>2 DEF FenceInv, Serves
<1>5. CASE t \in issued
  <2>1. /\ t.incarnation <= incarnation
        /\ t.incarnation = incarnation => t.generation <= HeadGeneration
    BY <1>2, <1>5 DEF FenceInv, Serves, CommitPhases
  <2>2. t.generation \in Nat
    BY <1>5, IssuedFields DEF RecordInv
  <2> QED
    BY <1>1, <1>3, <2>1, <2>2
<1>6. CASE t = Token(pending, epoch, incarnation)
  BY <1>1, <1>3, <1>6, RecordFields DEF Token
<1> QED
  BY <1>2, <1>4, <1>5, <1>6

LEMMA FenceOpen ==
    ASSUME RecordInv, FenceInv, Open
    PROVE  FenceInv'
<1>1. incarnation \in Nat /\ \A t \in issued : t.incarnation \in Nat
  BY IssuedFields DEF RecordInv, Types, TypeOK
<1>2. CASE OpenGenesis
  <2>1. Token(None, 1, incarnation + 1).incarnation = incarnation + 1
    BY DEF Token
  <2>2. Token(None, 1, incarnation + 1).saw = HeadDigest(None)
    BY DEF Token
  <2>3. Token(None, 1, incarnation + 1).generation = 0
    BY DEF Token, GenerationOf
  <2> QED
    BY <1>1, <1>2, <2>1, <2>2, <2>3
       DEF OpenGenesis, FenceInv, Serves, HeadGeneration, GenerationOf,
           RecordInv, MemoryInv, Commits, CommitPhases
<1>3. CASE OpenCommitted
  BY <1>1, <1>3
     DEF OpenCommitted, FenceInv, Serves, CommitPhases, RecordInv,
         MemoryInv, Commits
<1>4. CASE OpenEpochExhausted
  BY <1>4, FenceFrame DEF OpenEpochExhausted, memory
<1>5. ASSUME NEW left \in SUBSET records, Sweep(left)
      PROVE  FenceInv'
  <2>1. /\ Token(memHead, epoch, incarnation).incarnation = incarnation
        /\ Token(memHead, epoch, incarnation).generation = HeadGeneration
        /\ Token(memHead, epoch, incarnation).saw = HeadDigest(memHead)
    BY DEF Token, HeadGeneration
  <2>2. HeadGeneration \in Nat
    BY HeadDigestType DEF HeadGeneration, RecordInv, Types, TypeOK
  <2>3. \A t \in issued : t.incarnation < incarnation
    BY <1>5 DEF Sweep, FenceInv
  <2> QED
    BY <1>1, <1>5, <2>1, <2>2, <2>3
       DEF Sweep, FenceInv, Serves, CommitPhases, HeadGeneration,
           RecordInv, MemoryInv, Commits
<1> QED
  BY <1>2, <1>3, <1>4, <1>5 DEF Open

LEMMA FenceNext == RecordInv /\ FenceInv /\ [Next]_vars => FenceInv'
<1> SUFFICES ASSUME RecordInv, FenceInv, [Next]_vars PROVE FenceInv'
  OBVIOUS
<1>1. CASE CommitStep
  <2>1. CASE WriteRecord \/ AppendLineage \/ TruncateBackup \/ FillBackup
             \/ NoBackupNeeded \/ SkipBackup \/ CommitFails
    BY <2>1, FenceFrame
       DEF WriteRecord, AppendLineage, TruncateBackup, FillBackup, NoBackupNeeded,
           SkipBackup, CommitFails, Serves, CommitPhases, memory, ghosts, disk
  <2> QED
    BY <1>1, <2>1, FenceBegin, FenceReplace DEF CommitStep
<1>2. CASE Prune
  BY <1>2, FenceFrame DEF Prune, PruneBefore, ghosts
<1>3. ASSUME NEW swept \in SUBSET records, Crash(swept)
      PROVE  FenceInv'
  <2>1. /\ UNCHANGED <<issued, incarnation>>
        /\ pending' = None
        /\ phase' = "down"
    BY <1>3 DEF Crash
  <2> QED
    BY <2>1 DEF FenceInv, Serves, CommitPhases
<1>4. CASE Open
  BY <1>4, FenceOpen
<1>5. CASE Damage
  BY <1>5, FenceFrame DEF Damage, DamageHead, DamageBackup, DamageRecord, memory, ghosts
<1>6. CASE UNCHANGED vars
  BY <1>6, FenceFrame DEF vars, memory, ghosts
<1> QED
  BY <1>1, <1>2, <1>3, <1>4, <1>5, <1>6 DEF Next

(* A commit that passes commit's number checks builds on the head that its *)
(* token's holder had read, however often numbers and epochs were reused.  *)
THEOREM NoLostUpdateHolds == Spec => []NoLostUpdate
<1>1. Init => RecordInv /\ FenceInv
  BY TypesInit, RecordInit, FenceInit DEF RecordInv
<1>2. RecordInv /\ FenceInv /\ [Next]_vars => (RecordInv /\ FenceInv)'
  BY RecordNext, FenceNext
<1>3. RecordInv /\ FenceInv => NoLostUpdate
  BY DEF FenceInv, Serves, NoLostUpdate, Admits
<1> QED
  BY <1>1, <1>2, <1>3, PTL DEF Spec

(* Memory and disk agree on the head while the process serves.             *)
THEOREM MemoryMatchesDiskHolds == Spec => []MemoryMatchesDisk
<1>1. RecordInv => MemoryMatchesDisk
  BY DEF RecordInv, MemoryInv, MemoryMatchesDisk, Up, Serves, CommitPhases
<1> QED
  BY <1>1, RecordInvariant, PTL

-----------------------------------------------------------------------------
(* Journal, head record and backup                                         *)

LEMMA PrefixReflexive ==
    ASSUME NEW s \in Seq(Payload) PROVE PrefixOf(s, s)
BY DEF PrefixOf

LEMMA PrefixAppend ==
    ASSUME NEW s \in Seq(Payload), NEW t \in Seq(Payload), NEW p \in Payload,
           PrefixOf(s, t)
    PROVE  PrefixOf(s, Append(t, p))
<1>1. Len(Append(t, p)) = Len(t) + 1
  OBVIOUS
<1>2. \A i \in 1 .. Len(t) : Append(t, p)[i] = t[i]
  OBVIOUS
<1>3. Len(s) \in Nat /\ Len(t) \in Nat
  OBVIOUS
<1> QED
  BY <1>1, <1>2, <1>3 DEF PrefixOf

LEMMA DiskInit == Init => DiskInv
BY DEF Init, DiskInv, JournalInv, KeptInv, BackupInv, JournalBeforeHead, HeadRecordKept,
       BackupTrails

LEMMA JournalNext == RecordInv /\ JournalInv /\ [Next]_vars => JournalInv'
<1> SUFFICES ASSUME RecordInv, JournalInv, [Next]_vars PROVE JournalInv'
  OBVIOUS
<1> USE DEF JournalInv, JournalBeforeHead
<1>1. CASE CommitStep
  <2>1. HeadInv /\ Types
    BY DEF RecordInv
  <2> QED
    BY <1>1, <2>1, MarkerAssumption
       DEF CommitStep, BeginCommit, WriteRecord, AppendLineage, TruncateBackup,
           FillBackup, NoBackupNeeded, SkipBackup, ReplaceHead, CommitFails,
           memory, ghosts, disk
<1>2. CASE Prune
  BY <1>2 DEF Prune, PruneBefore, ghosts
<1>3. CASE \E swept \in SUBSET records : Crash(swept)
  BY <1>3 DEF Crash
<1>4. CASE Open
  <2>1. CanRecover => ChosenHead \in Record /\ ChosenHead \in {head, bak}
    BY ChosenIsValid DEF RecordInv
  <2> QED
    BY <1>4, <2>1, MarkerAssumption
       DEF Open, OpenGenesis, OpenCommitted, OpenEpochExhausted, Sweep, memory, disk
<1>5. CASE Damage
  BY <1>5 DEF Damage, DamageHead, DamageBackup, DamageRecord, memory, ghosts
<1>6. CASE UNCHANGED vars
  BY <1>6 DEF vars, disk, memory, ghosts
<1> QED
  BY <1>1, <1>2, <1>3, <1>4, <1>5, <1>6 DEF Next

LEMMA KeptNext == RecordInv /\ KeptInv /\ [Next]_vars => KeptInv'
<1> SUFFICES ASSUME RecordInv, KeptInv, [Next]_vars PROVE KeptInv'
  OBVIOUS
<1> USE DEF KeptInv, HeadRecordKept
<1>1. CASE CommitStep
  BY <1>1
     DEF CommitStep, BeginCommit, WriteRecord, AppendLineage, TruncateBackup,
         FillBackup, NoBackupNeeded, SkipBackup, ReplaceHead, CommitFails,
         memory, ghosts, disk
<1>2. ASSUME NEW k \in KeepCounts, NEW left \in SUBSET records,
             k <= HeadGeneration + 1, PruneBefore(HeadGeneration + 1 - k, left)
      PROVE  KeptInv'
  <2>1. phase = "idle" /\ phase' = "idle" /\ authority' = authority
    BY <1>2 DEF PruneBefore, ghosts
  <2>2. SUFFICES ASSUME 0 \notin KeepCounts, authority # None
                 PROVE  authority \in records'
    BY <2>1
  <2>3. k \in Nat /\ k # 0
    BY <2>2, StoreAssumption
  <2>4. authority \in Record /\ memHead = authority /\ HeadGeneration = authority.generation
    BY <2>1, <2>2, RecordFields
       DEF RecordInv, Types, TypeOK, MemoryInv, Up, HeadGeneration
  <2>5. ~ (authority.generation < HeadGeneration + 1 - k)
    BY <2>3, <2>4, RecordFields
  <2>6. records' = records \ ({r \in records : r.generation < HeadGeneration + 1 - k} \ left)
    BY <1>2 DEF PruneBefore
  <2> QED
    BY <2>2, <2>5, <2>6
<1>3. ASSUME NEW swept \in SUBSET records, Crash(swept)
      PROVE  KeptInv'
  <2>1. CASE phase # "sweep"
    BY <1>3, <2>1 DEF Crash
  <2>2. CASE phase = "sweep"
    <3>1. authority \notin Orphans
      BY <2>2, RecordFields
         DEF RecordInv, Types, TypeOK, MemoryInv, Up, Orphans, HeadGeneration,
             GenerationOf
    <3> QED
      BY <1>3, <2>2, <3>1 DEF Crash
  <2> QED
    BY <2>1, <2>2
<1>4. CASE Open
  <2>1. CanRecover => ChosenHead \in records
    BY ChosenIsValid DEF RecordInv
  <2>2. phase = "sweep" => authority \notin Orphans
    BY RecordFields
       DEF RecordInv, Types, TypeOK, MemoryInv, Up, Orphans, HeadGeneration, GenerationOf
  <2> QED
    BY <1>4, <2>1, <2>2
       DEF Open, OpenGenesis, OpenCommitted, OpenEpochExhausted, Sweep, memory, disk
<1>5. CASE Damage
  BY <1>5 DEF Damage, DamageHead, DamageBackup, DamageRecord, memory, ghosts
<1>6. CASE UNCHANGED vars
  BY <1>6 DEF vars, disk, memory, ghosts
<1> QED
  BY <1>1, <1>2, <1>3, <1>4, <1>5, <1>6 DEF Next, Prune

LEMMA DigestLength ==
    ASSUME RecordInv
    PROVE  GenerationOf(authority) = Len(HeadDigest(authority))
<1>1. CASE authority = None
  BY <1>1 DEF GenerationOf, HeadDigest
<1>2. CASE authority # None
  <2>1. authority \in Record /\ authority.generation = Len(authority.parent) + 1
    BY <1>2 DEF RecordInv, RecordsInv, Types, TypeOK
  <2>2. Len(Append(authority.parent, authority.payload)) = Len(authority.parent) + 1
    BY <2>1, RecordFields
  <2> QED
    BY <2>1, <2>2, RecordFields
<1> QED
  BY <1>1, <1>2

LEMMA ReplaceGrows ==
    ASSUME RecordInv, ReplaceHead
    PROVE  /\ pending \in Record
           /\ authority' = pending
           /\ HeadDigest(pending) = Append(HeadDigest(authority), pending.payload)
           /\ GenerationOf(pending) = GenerationOf(authority) + 1
<1>1. pending \in Record
  BY DEF RecordInv, Types, Commits, CommitPhases, ReplaceHead
<1>2. /\ pending.parent = HeadDigest(memHead)
      /\ pending.generation = HeadGeneration + 1
      /\ memHead = authority
  BY DEF RecordInv, MemoryInv, Up, Commits, CommitPhases, ReplaceHead
<1> QED
  BY <1>1, <1>2, RecordFields DEF ReplaceHead, HeadGeneration

LEMMA BackupNext == RecordInv /\ BackupInv /\ [Next]_vars => BackupInv'
<1> SUFFICES ASSUME RecordInv, BackupInv, [Next]_vars PROVE BackupInv'
  OBVIOUS
<1>0. /\ authority \in Record \cup {None} /\ bak \in Record \cup {None, Damaged}
      /\ head \in Record \cup {None, Damaged} /\ skipped \in Nat
  BY DEF RecordInv, Types, TypeOK
<1>1. HeadDigest(authority) \in Seq(Payload) /\ GenerationOf(authority) \in Nat
  BY <1>0, HeadDigestType
<1>2. \A r \in Record : r.generation \in Nat /\ HeadDigest(r) \in Seq(Payload)
                         /\ GenerationOf(r) = r.generation
  BY HeadDigestType, RecordFields
<1>3. CASE ReplaceHead
  <2>1. /\ bak' = bak /\ skipped' = skipped /\ phase' = "idle" /\ phase = "replace"
        /\ authority' = pending
    BY <1>3 DEF ReplaceHead
  <2>2. SUFFICES ASSUME bak \notin {None, Damaged}
                 PROVE  /\ PrefixOf(HeadDigest(bak), HeadDigest(pending))
                        /\ GenerationOf(pending) <= bak.generation + 1 + skipped
    BY <2>1 DEF BackupInv, BackupTrails
  <2>3. /\ PrefixOf(HeadDigest(bak), HeadDigest(authority))
        /\ GenerationOf(authority) <= bak.generation + skipped
    BY <2>1, <2>2 DEF BackupInv, BackupTrails
  <2>4. PrefixOf(HeadDigest(bak), HeadDigest(pending))
    BY <1>0, <1>1, <1>2, <1>3, <2>2, <2>3, ReplaceGrows, PrefixAppend, RecordFields
  <2>5. GenerationOf(pending) <= bak.generation + 1 + skipped
    BY <1>0, <1>1, <1>2, <1>3, <2>2, <2>3, ReplaceGrows
  <2> QED
    BY <2>4, <2>5
<1>4. CASE FillBackup
  <2>1. /\ bak' = head /\ authority' = authority /\ skipped' = skipped
        /\ head \in {authority, Damaged}
    BY <1>4 DEF FillBackup, ghosts, RecordInv, MemoryInv, Serves, CommitPhases
  <2>2. authority \notin {None, Damaged} =>
          /\ PrefixOf(HeadDigest(authority), HeadDigest(authority))
          /\ GenerationOf(authority) <= authority.generation + skipped
          /\ GenerationOf(authority) <= authority.generation + 1 + skipped
    BY <1>0, <1>1, <1>2, PrefixReflexive
  <2> QED
    BY <2>1, <2>2 DEF BackupInv, BackupTrails
<1>5. CASE SkipBackup
  <2>1. /\ bak' = bak /\ authority' = authority /\ skipped' = skipped + 1
    BY <1>5 DEF SkipBackup, disk
  <2>2. bak \notin {None, Damaged} =>
          /\ GenerationOf(authority) <= bak.generation + skipped'
          /\ GenerationOf(authority) <= bak.generation + 1 + skipped'
    BY <1>0, <1>1, <1>2, <2>1 DEF BackupInv, BackupTrails
  <2> QED
    BY <2>1, <2>2 DEF BackupInv, BackupTrails
<1>6. CASE OpenCommitted \/ OpenEpochExhausted
  <2>1. /\ bak' = bak /\ skipped' = skipped /\ authority' = ChosenHead
        /\ phase' # "replace" /\ CanRecover
    BY <1>6 DEF OpenCommitted, OpenEpochExhausted
  <2>2. /\ ChosenHead \in Record /\ (ChosenHead = head \/ ChosenHead = bak)
    BY <2>1, ChosenIsValid DEF RecordInv
  <2>3. ChosenHead = authority \/ ChosenHead = bak
    BY <2>2, MarkerAssumption DEF RecordInv, HeadInv
  <2>4. SUFFICES ASSUME bak \notin {None, Damaged}
                 PROVE  /\ PrefixOf(HeadDigest(bak), HeadDigest(ChosenHead))
                        /\ GenerationOf(ChosenHead) <= bak.generation + 1 + skipped
    BY <2>1 DEF BackupInv, BackupTrails
  <2>5. CASE ChosenHead = authority
    BY <2>4, <2>5 DEF BackupInv, BackupTrails
  <2>6. CASE ChosenHead = bak
    BY <1>0, <1>2, <2>4, <2>6, PrefixReflexive
  <2> QED
    BY <2>3, <2>5, <2>6
<1>7. CASE NoBackupNeeded
  <2>1. bak = None
    BY <1>7, MarkerAssumption DEF NoBackupNeeded, RecordInv, HeadInv
  <2> QED
    BY <1>7, <2>1 DEF NoBackupNeeded, disk, ghosts, BackupInv, BackupTrails
<1>8. CASE OpenGenesis
  BY <1>8 DEF OpenGenesis, disk, BackupInv, BackupTrails
<1>9. CASE TruncateBackup \/ DamageBackup
  BY <1>9 DEF TruncateBackup, DamageBackup, BackupInv, BackupTrails
<1>10. ASSUME UNCHANGED <<bak, authority, skipped>>, phase' # "replace" \/ UNCHANGED phase
       PROVE  BackupInv'
  BY <1>10 DEF BackupInv, BackupTrails
<1>11. CASE WriteRecord \/ AppendLineage \/ CommitFails \/ DamageHead \/ UNCHANGED vars
  BY <1>10, <1>11
     DEF WriteRecord, AppendLineage, CommitFails, DamageHead, vars, disk, memory, ghosts
<1>12. ASSUME NEW f \in issued, NEW w \in Writer \cup {NoWriter},
              NEW r \in Request, NEW p \in Payload, BeginCommit(f, w, r, p)
       PROVE  BackupInv'
  BY <1>10, <1>12 DEF BeginCommit, disk
<1>13. CASE Prune
  BY <1>10, <1>13 DEF Prune, PruneBefore, ghosts
<1>14. CASE \E swept \in SUBSET records : Crash(swept)
  BY <1>10, <1>14 DEF Crash
<1>15. CASE \E left \in SUBSET records : Sweep(left)
  BY <1>10, <1>15 DEF Sweep
<1>16. CASE \E r \in records : DamageRecord(r)
  BY <1>10, <1>16 DEF DamageRecord, ghosts
<1> QED
  BY <1>3, <1>4, <1>5, <1>6, <1>7, <1>8, <1>9, <1>11, <1>12, <1>13, <1>14, <1>15, <1>16
     DEF Next, CommitStep, Open, Damage

LEMMA DiskInvariant == Spec => [](RecordInv /\ DiskInv)
<1>1. Init => RecordInv /\ DiskInv
  BY TypesInit, RecordInit, DiskInit DEF RecordInv
<1>2. RecordInv /\ DiskInv /\ [Next]_vars => (RecordInv /\ DiskInv)'
  BY RecordNext, JournalNext, KeptNext, BackupNext DEF DiskInv
<1> QED
  BY <1>1, <1>2, PTL DEF Spec

(* No head pointer, current or backup, names a record that the lineage     *)
(* journal does not.                                                       *)
THEOREM JournalBeforeHeadHolds == Spec => []JournalBeforeHead
<1>1. DiskInv => JournalBeforeHead
  BY DEF DiskInv, JournalInv
<1> QED
  BY <1>1, DiskInvariant, PTL

(* Neither the sweep of an open, finished or cut short, nor a prune that   *)
(* keeps a generation removes the record that the head names.              *)
THEOREM HeadRecordKeptHolds == Spec => []HeadRecordKept
<1>1. DiskInv => HeadRecordKept
  BY DEF DiskInv, KeptInv
<1> QED
  BY <1>1, DiskInvariant, PTL

(* The backup pointer is an ancestor of the head, and at most one          *)
(* generation behind for each replacement since it was last written.       *)
THEOREM BackupTrailsHolds == Spec => []BackupTrails
<1>1. DiskInv => BackupTrails
  BY DEF DiskInv, BackupInv
<1> QED
  BY <1>1, DiskInvariant, PTL

-----------------------------------------------------------------------------
(* Recovery without loss                                                   *)

(* Every file was written by a commit, and nothing rots by itself.         *)
FilesInv ==
    /\ records \subseteq minted
    /\ damages = 0 => rotten = {} /\ head # Damaged

LEMMA FilesInit == Init => FilesInv
BY MarkerAssumption DEF Init, FilesInv

LEMMA FilesNext == RecordInv /\ FilesInv /\ [Next]_vars => FilesInv'
<1> SUFFICES ASSUME RecordInv, FilesInv, [Next]_vars PROVE FilesInv'
  OBVIOUS
<1> USE DEF FilesInv
<1>0. damages \in Nat /\ minted \in SUBSET Record /\ (Commits => pending \in Record)
  BY DEF RecordInv, Types, TypeOK
<1>1. CASE CommitStep
  <2>1. Commits => pending \in minted /\ pending # Damaged
    BY <1>0, MarkerAssumption DEF RecordInv, RecordsInv
  <2> QED
    BY <1>1, <2>1
       DEF CommitStep, BeginCommit, WriteRecord, AppendLineage, TruncateBackup,
           FillBackup, NoBackupNeeded, SkipBackup, ReplaceHead, CommitFails,
           memory, ghosts, disk, Commits, CommitPhases
<1>2. CASE Prune
  BY <1>2 DEF Prune, PruneBefore, ghosts
<1>3. CASE \E swept \in SUBSET records : Crash(swept)
  BY <1>3 DEF Crash
<1>4. CASE Open
  <2>1. CanRecover => ChosenHead # Damaged
    BY ChosenIsValid, MarkerAssumption DEF RecordInv
  <2> QED
    BY <1>4, <2>1
       DEF Open, OpenGenesis, OpenCommitted, OpenEpochExhausted, Sweep, memory, disk
<1>5. CASE Damage
  <2>1. damages' # 0 /\ UNCHANGED <<records, minted>>
    BY <1>0, <1>5 DEF Damage, DamageHead, DamageBackup, DamageRecord, ghosts
  <2> QED
    BY <2>1
<1>6. CASE UNCHANGED vars
  BY <1>6 DEF vars, disk, ghosts
<1> QED
  BY <1>1, <1>2, <1>3, <1>4, <1>5, <1>6 DEF Next

(* The digest of a record is as long as its number.                        *)
LEMMA MintedLength ==
    ASSUME RecordInv, NEW r \in minted
    PROVE  /\ r \in Record /\ r.generation \in Nat \ {0}
           /\ r.parent \in Seq(Payload) /\ Len(r.parent) = r.generation - 1
           /\ HeadDigest(r) \in Seq(Payload) /\ Len(HeadDigest(r)) = r.generation
           /\ \A i \in 1 .. Len(r.parent) : HeadDigest(r)[i] = r.parent[i]
           /\ HeadDigest(r)[r.generation] = r.payload
<1>1. r \in Record /\ r.generation = Len(r.parent) + 1
  BY DEF RecordInv, RecordsInv, Types, TypeOK
<1>2. r.parent \in Seq(Payload) /\ r.payload \in Payload /\ Len(r.parent) \in Nat
  BY <1>1, RecordFields
<1>3. HeadDigest(r) = Append(r.parent, r.payload)
  BY <1>1, RecordFields
<1>4. /\ Len(Append(r.parent, r.payload)) = Len(r.parent) + 1
      /\ \A i \in 1 .. Len(r.parent) : Append(r.parent, r.payload)[i] = r.parent[i]
      /\ Append(r.parent, r.payload)[Len(r.parent) + 1] = r.payload
      /\ Append(r.parent, r.payload) \in Seq(Payload)
  BY <1>2
<1> QED
  BY <1>1, <1>2, <1>3, <1>4

(* A lookup by number finds a file when there is one.                      *)
LEMMA LookupFinds ==
    ASSUME RecordInv, NEW n, FilesOf(n) # {}
    PROVE  RecordPathFor(n) \in records /\ RecordPathFor(n).generation = n
<1> DEFINE names == {r.payload : r \in FilesOf(n)}
<1>1. \A r \in FilesOf(n) : r.payload \in Nat
  BY StoreAssumption, RecordFields DEF FilesOf, RecordInv, Types, TypeOK
<1>2. names \in SUBSET Nat /\ names # {}
  BY <1>1
<1>3. PICK p \in names : \A q \in names : p <= q
  <2>1. IsWellFoundedOn(OpToRel(<, Nat), Nat)
    BY NatLessThanWellFounded
  <2>2. PICK p \in names : \A q \in names : ~ (<<q, p>> \in OpToRel(<, Nat))
    BY <1>2, <2>1, WFMin
  <2>3. \A q \in names : ~ (q < p)
    BY <1>2, <2>2 DEF OpToRel
  <2> HIDE DEF names
  <2> QED
    BY <1>2, <2>3
<1>4. \E r \in FilesOf(n) : \A s \in FilesOf(n) : r.payload <= s.payload
  BY <1>3
<1>5. RecordPathFor(n) \in FilesOf(n)
  BY <1>4 DEF RecordPathFor
<1> QED
  BY <1>5 DEF FilesOf

(* While nothing rotted and no stray record is in the way, the head that   *)
(* was installed last verifies.                                            *)
LEMMA AuthorityVerifies ==
    ASSUME RecordInv, DiskInv, FilesInv, authority # None,
           damages = 0, Strays = {}, 0 \notin KeepCounts
    PROVE  head = authority /\ ValidHead(head)
<1> DEFINE a == authority
           g == authority.generation
           parent == RecordPathFor(g - 1)
<1>1. /\ a \in minted /\ a \in Record /\ head = a /\ rotten = {} /\ a \in records
      /\ records \subseteq minted
  BY DEF RecordInv, RecordsInv, HeadInv, Types, TypeOK, FilesInv, DiskInv, KeptInv,
         HeadRecordKept
<1>2. /\ g \in Nat \ {0} /\ a.parent \in Seq(Payload) /\ Len(a.parent) = g - 1
      /\ \A i \in 1 .. g - 1 : HeadDigest(a)[i] = a.parent[i]
  BY <1>1, MintedLength
<1>3. ASSUME FilesOf(g - 1) # {}
      PROVE  HeadDigest(parent) = a.parent
  <2>1. parent \in records /\ parent.generation = g - 1
    BY <1>3, LookupFinds
  <2>2. /\ HeadDigest(parent) \in Seq(Payload) /\ Len(HeadDigest(parent)) = g - 1
    BY <1>1, <2>1, MintedLength
  <2>3. PrefixOf(HeadDigest(parent), HeadDigest(a))
    <3>1. GenerationOf(authority) = g
      BY <1>1, RecordFields
    <3>2. parent.generation <= GenerationOf(authority)
      BY <1>2, <2>1, <3>1
    <3> HIDE DEF parent
    <3> QED
      BY <2>1, <3>2 DEF Strays
  <2>4. \A i \in 1 .. g - 1 : HeadDigest(parent)[i] = a.parent[i]
    BY <1>2, <2>2, <2>3 DEF PrefixOf
  <2> HIDE DEF parent
  <2> QED
    BY <1>2, <2>2, <2>4, SeqEqual
<1>4. ChainHolds(head)
  BY <1>1, <1>3 DEF ChainHolds
<1>5. a # None /\ a # Damaged
  BY <1>1, RecordFields
<1> QED
  BY <1>1, <1>4, <1>5 DEF ValidHead

(* Then an open takes it.                                                  *)
LEMMA AuthorityChosen ==
    ASSUME RecordInv, DiskInv, FilesInv, CanRecover,
           damages = 0, Strays = {}, 0 \notin KeepCounts
    PROVE  ChosenHead = authority
<1>1. authority # None
  BY MarkerAssumption DEF RecordInv, HeadInv, CanRecover, ValidHead
<1>2. head = authority /\ ValidHead(head)
  BY <1>1, AuthorityVerifies
<1>3. ASSUME ValidHead(bak)
      PROVE  ~ (bak.generation > head.generation)
  <2>1. bak \notin {None, Damaged} /\ bak \in minted /\ authority \in minted
    BY <1>1, <1>3 DEF ValidHead, RecordInv, RecordsInv
  <2>2. PrefixOf(HeadDigest(bak), HeadDigest(authority))
    BY <2>1 DEF DiskInv, BackupInv, BackupTrails
  <2>3. /\ Len(HeadDigest(bak)) = bak.generation /\ bak.generation \in Nat
        /\ Len(HeadDigest(authority)) = authority.generation /\ authority.generation \in Nat
    BY <2>1, MintedLength
  <2> QED
    BY <1>2, <2>2, <2>3 DEF PrefixOf
<1> QED
  BY <1>2, <1>3 DEF ChosenHead

LEMMA FilesInvariant == Spec => [](RecordInv /\ DiskInv /\ FilesInv)
<1>1. Init => FilesInv
  BY FilesInit
<1>2. (RecordInv /\ DiskInv) /\ FilesInv /\ [Next]_vars => FilesInv'
  BY FilesNext
<1> QED
  BY <1>1, <1>2, DiskInvariant, PTL DEF Spec

(* A kill at any step of any operation leaves a store that opens again,    *)
(* unless files rotted or a stray record is in the way.                    *)
THEOREM ReopenableHolds == Spec => []Reopenable
<1>1. RecordInv /\ DiskInv /\ FilesInv => Reopenable
  <2> SUFFICES ASSUME RecordInv, DiskInv, FilesInv,
                      damages = 0, Strays = {}, 0 \notin KeepCounts
               PROVE  ~ StoreCorrupt
    BY DEF Reopenable
  <2>1. CASE authority = None
    BY <2>1 DEF RecordInv, HeadInv, StoreCorrupt
  <2>2. CASE authority # None
    BY <2>2, AuthorityVerifies DEF StoreCorrupt, CanRecover
  <2> QED
    BY <2>1, <2>2
<1> QED
  BY <1>1, FilesInvariant, PTL

(* Under the same conditions no step takes a committed generation back.    *)
THEOREM NoSilentLossHolds == Spec => NoSilentLoss
<1> DEFINE Keeps == damages = 0 /\ Strays = {} /\ 0 \notin KeepCounts =>
                      PrefixOf(HeadDigest(authority), HeadDigest(authority'))
<1>1. ASSUME RecordInv, DiskInv, FilesInv, [Next]_vars
      PROVE  [Keeps]_authority
  <2> SUFFICES ASSUME damages = 0, Strays = {}, 0 \notin KeepCounts, authority' # authority
               PROVE  PrefixOf(HeadDigest(authority), HeadDigest(authority'))
    OBVIOUS
  <2>1. HeadDigest(authority) \in Seq(Payload)
    BY <1>1, HeadDigestType DEF RecordInv, Types, TypeOK
  <2>2. CASE ReplaceHead
    <3>1. /\ HeadDigest(authority') = Append(HeadDigest(authority), pending.payload)
          /\ pending.payload \in Payload
      BY <1>1, <2>2, ReplaceGrows, RecordFields
    <3> QED
      BY <2>1, <3>1, PrefixAppend, PrefixReflexive
  <2>3. CASE OpenGenesis
    BY <1>1, <2>3, MarkerAssumption DEF OpenGenesis, RecordInv, HeadInv
  <2>4. CASE OpenCommitted \/ OpenEpochExhausted
    BY <1>1, <2>4, AuthorityChosen DEF OpenCommitted, OpenEpochExhausted
  <2> QED
    BY <1>1, <2>2, <2>3, <2>4
       DEF Next, CommitStep, BeginCommit, WriteRecord, AppendLineage, TruncateBackup,
           FillBackup, NoBackupNeeded, SkipBackup, CommitFails, Prune, PruneBefore, Crash,
           Open, Sweep, Damage, DamageHead, DamageBackup, DamageRecord, vars, ghosts
<1> QED
  BY <1>1, FilesInvariant, PTL DEF Spec, NoSilentLoss

-----------------------------------------------------------------------------
(* Reads by number                                                         *)

(* What the records of a number hold, as long as no operation failed:      *)
(* from generation 2 on they are those of the committed chain, and while   *)
(* the store serves none is beyond it but the one being committed.  (A     *)
(* store without a head is not swept, so a first generation that was never *)
(* committed may stay.)                                                    *)
Clean == PruneOrphans /\ failures = 0

OnChain(h) ==
    \A r \in records : r.generation \in 2 .. GenerationOf(h) =>
        PrefixOf(HeadDigest(r), HeadDigest(h))

Swept ==
    \A r \in records : r.generation > GenerationOf(authority) =>
        r.generation = 1 \/ (Commits /\ r = pending)

LoadInv ==
    Clean =>
        /\ OnChain(authority)
        /\ Serves => Swept
        /\ authority = None => \A r \in records : r.generation <= 1

LEMMA LoadInit == Init => LoadInv
BY DEF Init, LoadInv, OnChain, Swept

(* Steps that write no record, keep the authority and do not begin to      *)
(* serve.                                                                  *)
LEMMA LoadFrame ==
    ASSUME LoadInv, records' \subseteq records, authority' = authority,
           Clean' => Clean,
           Serves' => Serves /\ (Commits => Commits' /\ pending' = pending)
    PROVE  LoadInv'
BY DEF LoadInv, OnChain, Swept

(* A prefix of the chain that reaches as far as a record holds it too.     *)
LEMMA ShorterPrefix ==
    ASSUME NEW r, NEW s, NEW t, Len(r) \in Nat, Len(s) \in Nat, Len(r) <= Len(s),
           PrefixOf(r, t), PrefixOf(s, t)
    PROVE  PrefixOf(r, s)
BY DEF PrefixOf

LEMMA LoadReplaceHead ==
    ASSUME RecordInv, FilesInv, LoadInv, ReplaceHead
    PROVE  LoadInv'
<1>1. /\ pending \in Record /\ authority' = pending
      /\ HeadDigest(pending) = Append(HeadDigest(authority), pending.payload)
      /\ GenerationOf(pending) = GenerationOf(authority) + 1
      /\ GenerationOf(authority) \in Nat
  BY ReplaceGrows, HeadDigestType DEF RecordInv, Types, TypeOK
<1>2. /\ pending # None /\ pending.payload \in Payload
      /\ HeadDigest(authority) \in Seq(Payload) /\ HeadDigest(pending) \in Seq(Payload)
      /\ pending.generation = GenerationOf(pending)
  BY <1>1, RecordFields, HeadDigestType DEF RecordInv, Types, TypeOK
<1>3. /\ records' = records /\ failures' = failures /\ Commits /\ Serves
      /\ phase' = "idle"
  BY DEF ReplaceHead, Commits, Serves, CommitPhases
<1>4. SUFFICES ASSUME Clean
               PROVE  OnChain(pending) /\ Swept'
  BY <1>1, <1>2, <1>3 DEF LoadInv, Clean, OnChain
<1>5. ASSUME NEW r \in records
      PROVE  /\ r \in minted /\ r.generation \in Nat \ {0}
             /\ HeadDigest(r) \in Seq(Payload)
             /\ r.generation > GenerationOf(authority) => r.generation = 1 \/ r = pending
  BY <1>3, <1>4, MintedLength DEF FilesInv, LoadInv, Swept
<1>6. OnChain(pending)
  <2> SUFFICES ASSUME NEW r \in records, r.generation \in 2 .. GenerationOf(pending)
               PROVE  PrefixOf(HeadDigest(r), HeadDigest(pending))
    BY DEF OnChain
  <2>1. CASE r.generation > GenerationOf(authority)
    <3>1. r = pending
      BY <1>5, <2>1
    <3> QED
      BY <1>2, <3>1, PrefixReflexive
  <2>2. CASE ~ (r.generation > GenerationOf(authority))
    <3>1. r.generation \in 2 .. GenerationOf(authority)
      BY <1>1, <1>5, <2>2
    <3>2. PrefixOf(HeadDigest(r), HeadDigest(authority))
      BY <1>4, <3>1 DEF LoadInv, OnChain
    <3> QED
      BY <1>1, <1>2, <1>5, <3>2, PrefixAppend
  <2> QED
    BY <2>1, <2>2
<1>7. Swept'
  <2>1. \A r \in records : ~ (r.generation > GenerationOf(pending))
    BY <1>1, <1>2, <1>5
  <2> QED
    BY <1>1, <1>3, <2>1 DEF Swept
<1> QED
  BY <1>6, <1>7

LEMMA LoadWriteRecord ==
    ASSUME RecordInv, LoadInv, WriteRecord
    PROVE  LoadInv'
<1>1. /\ records' = records \cup {pending} /\ pending' = pending
      /\ UNCHANGED <<authority, failures>>
      /\ Commits /\ Serves /\ Commits'
  BY DEF WriteRecord, ghosts, Commits, Serves, CommitPhases
<1>2. pending.generation = GenerationOf(authority) + 1 /\ GenerationOf(authority) \in Nat
  BY <1>1, HeadDigestType
  DEF RecordInv, MemoryInv, Up, Commits, HeadGeneration, Types, TypeOK
<1>3. SUFFICES ASSUME Clean
               PROVE  /\ OnChain(authority)' /\ Swept'
                      /\ authority = None => \A r \in records' : r.generation <= 1
  BY <1>1 DEF LoadInv, Clean
<1>4. OnChain(authority)'
  BY <1>1, <1>2, <1>3 DEF LoadInv, OnChain
<1>5. Swept'
  BY <1>1, <1>3 DEF LoadInv, Swept
<1>6. authority = None => \A r \in records' : r.generation <= 1
  BY <1>1, <1>2, <1>3 DEF LoadInv, GenerationOf
<1> QED
  BY <1>4, <1>5, <1>6

LEMMA LoadOpen ==
    ASSUME RecordInv, DiskInv, FilesInv, LoadInv, OpenCommitted \/ OpenEpochExhausted
    PROVE  LoadInv'
<1> DEFINE h == ChosenHead
<1>1. /\ authority' = h /\ CanRecover /\ UNCHANGED <<records, failures>> /\ ~ Serves'
  BY DEF OpenCommitted, OpenEpochExhausted, Serves, CommitPhases
<1>2. /\ h \in Record /\ (h = head \/ h = bak)
  BY <1>1, ChosenIsValid DEF RecordInv
<1>3. /\ authority # None /\ (h = authority \/ h = bak) /\ h # None /\ h # Damaged
      /\ h \in minted
  BY <1>2, MarkerAssumption, RecordFields DEF RecordInv, HeadInv, RecordsInv
<1>4. HeadDigest(h) \in Seq(Payload) /\ HeadDigest(authority) \in Seq(Payload)
  BY <1>2, HeadDigestType DEF RecordInv, Types, TypeOK
<1>5. PrefixOf(HeadDigest(h), HeadDigest(authority))
  BY <1>3, <1>4, PrefixReflexive DEF DiskInv, BackupInv, BackupTrails
<1>6. /\ GenerationOf(h) = Len(HeadDigest(h)) /\ Len(HeadDigest(h)) \in Nat
      /\ GenerationOf(authority) = Len(HeadDigest(authority))
      /\ Len(HeadDigest(authority)) \in Nat
  BY <1>2, <1>3, <1>4, MintedLength, RecordFields, DigestLength
<1> HIDE DEF h
<1>7. ASSUME Clean, NEW r \in records, r.generation \in 2 .. GenerationOf(h)
      PROVE  PrefixOf(HeadDigest(r), HeadDigest(h))
  <2>1. Len(HeadDigest(r)) = r.generation /\ r.generation \in Nat
    BY MintedLength DEF FilesInv
  <2>2. r.generation \in 2 .. GenerationOf(authority)
    BY <1>5, <1>6, <1>7, <2>1 DEF PrefixOf
  <2>3. PrefixOf(HeadDigest(r), HeadDigest(authority))
    BY <1>7, <2>2 DEF LoadInv, OnChain
  <2>4. Len(HeadDigest(r)) <= Len(HeadDigest(h))
    BY <1>6, <1>7, <2>1
  <2> QED
    BY <1>5, <1>6, <2>1, <2>3, <2>4, ShorterPrefix
<1> QED
  BY <1>1, <1>3, <1>7 DEF LoadInv, Clean, OnChain

LEMMA LoadNext == RecordInv /\ DiskInv /\ FilesInv /\ LoadInv /\ [Next]_vars => LoadInv'
<1> SUFFICES ASSUME RecordInv, DiskInv, FilesInv, LoadInv, [Next]_vars PROVE LoadInv'
  OBVIOUS
<1>0. /\ failures \in Nat /\ (~ Commits => pending = None)
      /\ Up => memHead = authority
  BY DEF RecordInv, Types, TypeOK, MemoryInv
<1>1. ASSUME records' \subseteq records, authority' = authority, failures' = failures,
             Serves' => Serves /\ (Commits => Commits' /\ pending' = pending)
      PROVE  LoadInv'
  BY <1>1, LoadFrame DEF Clean
<1>2. ASSUME NEW f \in issued, NEW w \in Writer \cup {NoWriter},
             NEW r \in Request, NEW p \in Payload, BeginCommit(f, w, r, p)
      PROVE  LoadInv'
  BY <1>1, <1>2 DEF BeginCommit, disk, Serves, Commits, CommitPhases
<1>3. CASE WriteRecord
  BY <1>3, LoadWriteRecord
<1>4. CASE AppendLineage \/ TruncateBackup \/ FillBackup \/ NoBackupNeeded
  BY <1>1, <1>4 DEF AppendLineage, TruncateBackup, FillBackup, NoBackupNeeded, disk, ghosts,
                    Serves, Commits, CommitPhases
<1>5. CASE SkipBackup \/ CommitFails
  <2>1. failures' # 0
    BY <1>0, <1>5 DEF SkipBackup, CommitFails
  <2> QED
    BY <2>1 DEF LoadInv, Clean
<1>6. CASE ReplaceHead
  BY <1>6, LoadReplaceHead
<1>7. CASE Prune
  <2>1. /\ records' \subseteq records /\ authority' = authority
        /\ UNCHANGED phase /\ phase = "idle" /\ (failures' = failures \/ failures' # 0)
    BY <1>0, <1>7 DEF Prune, PruneBefore, ghosts
  <2>2. CASE failures' # 0
    BY <2>2 DEF LoadInv, Clean
  <2> QED
    BY <1>1, <2>1, <2>2 DEF Serves, Commits, CommitPhases
<1>8. CASE \E swept \in SUBSET records : Crash(swept)
  BY <1>1, <1>8 DEF Crash, Serves, CommitPhases
<1>9. CASE OpenGenesis
  <2>1. /\ authority = None /\ authority' = None /\ UNCHANGED <<records, failures>>
    BY <1>9, MarkerAssumption DEF OpenGenesis, disk, RecordInv, HeadInv
  <2>2. \A r \in records : r.generation \in Nat \ {0}
    BY MintedLength DEF FilesInv
  <2> QED
    BY <2>1, <2>2 DEF LoadInv, Clean, OnChain, Swept
<1>10. CASE OpenCommitted \/ OpenEpochExhausted
  BY <1>10, LoadOpen
<1>11. ASSUME NEW left \in SUBSET records, Sweep(left)
       PROVE  LoadInv'
  <2>1. /\ phase = "sweep" /\ authority' = authority
        /\ records' = records \ (Orphans \ left)
        /\ (left = {} /\ failures' = failures) \/ failures' # 0
    BY <1>0, <1>11 DEF Sweep
  <2>2. CASE failures' # 0
    BY <2>2 DEF LoadInv, Clean
  <2>3. CASE left = {} /\ failures' = failures
    <3>1. HeadGeneration = GenerationOf(authority)
      BY <1>0, <2>1 DEF Up, HeadGeneration
    <3>2. PruneOrphans => \A r \in records' : ~ (r.generation > GenerationOf(authority))
      BY <2>1, <2>3, <3>1 DEF Orphans
    <3> QED
      BY <2>1, <2>3, <3>2 DEF LoadInv, Clean, OnChain, Swept
  <2> QED
    BY <2>1, <2>2, <2>3
<1>12. CASE Damage \/ UNCHANGED vars
  BY <1>1, <1>12 DEF Damage, DamageHead, DamageBackup, DamageRecord, vars, disk, memory, ghosts,
                     Serves, Commits, CommitPhases
<1> QED
  BY <1>2, <1>3, <1>4, <1>5, <1>6, <1>7, <1>8, <1>9, <1>10, <1>11, <1>12
     DEF Next, CommitStep, Open

(* While no operation reports an error, a read by number from generation 2 *)
(* on answers with the committed record or not at all, whatever debris the *)
(* kills left.                                                             *)
THEOREM LoadServesCommittedHolds == Spec => []LoadServesCommitted
<1>1. RecordInv /\ FilesInv /\ LoadInv => LoadServesCommitted
  <2> SUFFICES ASSUME RecordInv, FilesInv, LoadInv, phase = "idle", Clean,
                      NEW n \in 2 .. HeadGeneration,
                      Load(n) \notin {NotFound, Pruned, Damaged}
               PROVE  HeadDigest(memHead)[n] = Load(n).payload
    BY DEF LoadServesCommitted, Clean
  <2> DEFINE r == RecordPathFor(n)
  <2>1. memHead = authority /\ HeadGeneration = GenerationOf(authority)
    BY DEF RecordInv, MemoryInv, Up, HeadGeneration
  <2>2. Load(n) = r /\ FilesOf(n) # {}
    BY DEF Load
  <2>3. r \in records /\ r.generation = n
    BY <2>2, LookupFinds
  <2>4. /\ PrefixOf(HeadDigest(r), HeadDigest(authority))
    BY <2>1, <2>3 DEF LoadInv, OnChain
  <2>5. /\ Len(HeadDigest(r)) = n /\ HeadDigest(r)[n] = r.payload /\ n \in Nat \ {0}
    BY <2>3, MintedLength DEF FilesInv
  <2> HIDE DEF r
  <2> QED
    BY <2>1, <2>2, <2>4, <2>5 DEF PrefixOf
<1>2. Init => LoadInv
  BY LoadInit
<1>3. (RecordInv /\ DiskInv /\ FilesInv) /\ LoadInv /\ [Next]_vars => LoadInv'
  BY LoadNext
<1> QED
  BY <1>1, <1>2, <1>3, FilesInvariant, PTL DEF Spec

-----------------------------------------------------------------------------
(* Refinement                                                              *)

LEMMA PrefixIsSubSeq ==
    ASSUME NEW s \in Seq(Payload), NEW t \in Seq(Payload), PrefixOf(s, t)
    PROVE  Len(s) \in 0 .. Len(t) /\ s = SubSeq(t, 1, Len(s))
<1>1. Len(s) \in 0 .. Len(t)
  BY DEF PrefixOf
<1>2. /\ SubSeq(t, 1, Len(s)) \in Seq(Payload)
      /\ Len(SubSeq(t, 1, Len(s))) = Len(s)
      /\ \A i \in 1 .. Len(s) : SubSeq(t, 1, Len(s))[i] = t[i]
  BY <1>1
<1>3. \A i \in 1 .. Len(s) : SubSeq(t, 1, Len(s))[i] = s[i]
  BY <1>2 DEF PrefixOf
<1> QED
  BY <1>1, <1>2, <1>3, SeqEqual

LEMMA LogInit == Init => Log!Init
BY DEF Init, Log!Init, HeadDigest

(* An open takes a candidate that is the authority or an ancestor of it.   *)
LEMMA OpenRecovers ==
    ASSUME RecordInv, DiskInv, OpenCommitted \/ OpenEpochExhausted
    PROVE  Log!Recover
<1>1. /\ CanRecover /\ phase = "down" /\ authority' = ChosenHead
  BY DEF OpenCommitted, OpenEpochExhausted
<1>2. ChosenHead \in Record /\ (ChosenHead = head \/ ChosenHead = bak)
  BY <1>1, ChosenIsValid DEF RecordInv
<1>3. authority \in Record /\ (ChosenHead = authority \/ ChosenHead = bak)
  BY <1>2, MarkerAssumption DEF RecordInv, HeadInv, Types, TypeOK
<1>4. HeadDigest(ChosenHead) \in Seq(Payload) /\ HeadDigest(authority) \in Seq(Payload)
  BY <1>2, <1>3, HeadDigestType
<1>5. PrefixOf(HeadDigest(ChosenHead), HeadDigest(authority))
  BY <1>2, <1>3, <1>4, PrefixReflexive, RecordFields DEF DiskInv, BackupInv, BackupTrails
<1>6. Len(HeadDigest(ChosenHead)) # 0
  BY <1>2, RecordFields
<1> DEFINE n == Len(HeadDigest(ChosenHead))
<1>7. n \in 0 .. Len(HeadDigest(authority))
      /\ HeadDigest(ChosenHead) = SubSeq(HeadDigest(authority), 1, n)
  BY <1>4, <1>5, PrefixIsSubSeq
<1>8. HeadDigest(authority)' = HeadDigest(ChosenHead)
  BY <1>1 DEF HeadDigest
<1> HIDE DEF n
<1>9. \E m \in 0 .. Len(HeadDigest(authority)) :
        /\ m = 0 => HeadDigest(authority) = <<>>
        /\ HeadDigest(authority)' = SubSeq(HeadDigest(authority), 1, m)
  <2>1. n # 0
    BY <1>6 DEF n
  <2> QED
    BY <1>7, <1>8, <2>1
<1> QED
  BY <1>1, <1>9 DEF Log!Recover

LEMMA LogNext ==
    RecordInv /\ DiskInv /\ [Next]_vars => [Log!Next]_(Log!vars)
<1> SUFFICES ASSUME RecordInv, DiskInv, [Next]_vars
             PROVE  Log!Next \/ UNCHANGED Log!vars
  BY DEF Log!Next
<1>1. CASE ReplaceHead
  <2>1. /\ pending.payload \in Payload
        /\ HeadDigest(authority)' = Append(HeadDigest(authority), pending.payload)
    BY <1>1, ReplaceGrows, RecordFields DEF HeadDigest
  <2>2. phase # "down" /\ phase' # "down"
    BY <1>1 DEF ReplaceHead
  <2> QED
    BY <2>1, <2>2 DEF Log!Next, Log!Commit
<1>2. ASSUME NEW swept \in SUBSET records, Crash(swept)
      PROVE  Log!Stop
  BY <1>2 DEF Crash, Log!Stop, HeadDigest
<1>3. CASE OpenCommitted \/ OpenEpochExhausted
  BY <1>3, OpenRecovers DEF Log!Next
<1>4. CASE OpenGenesis
  <2>1. authority = None /\ authority' = None /\ phase = "down"
    BY <1>4, MarkerAssumption DEF OpenGenesis, RecordInv, HeadInv
  <2>2. HeadDigest(authority) = <<>> /\ HeadDigest(authority)' = <<>>
    BY <2>1 DEF HeadDigest
  <2>3. SubSeq(<<>>, 1, 0) = <<>>
    OBVIOUS
  <2>4. 0 \in 0 .. Len(HeadDigest(authority))
    BY <2>2
  <2> QED
    BY <2>1, <2>2, <2>3, <2>4 DEF Log!Next, Log!Recover
<1>5. ASSUME authority' = authority,
             \/ phase' = phase
             \/ phase # "down" /\ phase' # "down"
      PROVE  UNCHANGED Log!vars
  BY <1>5 DEF Log!vars, HeadDigest
<1>6. ASSUME NEW f \in issued, NEW w \in Writer \cup {NoWriter},
             NEW r \in Request, NEW p \in Payload, BeginCommit(f, w, r, p)
      PROVE  UNCHANGED Log!vars
  BY <1>5, <1>6 DEF BeginCommit
<1>7. CASE WriteRecord \/ AppendLineage \/ TruncateBackup \/ FillBackup
            \/ NoBackupNeeded \/ SkipBackup \/ CommitFails
  BY <1>5, <1>7
     DEF WriteRecord, AppendLineage, TruncateBackup, FillBackup, NoBackupNeeded,
         SkipBackup, CommitFails, CommitPhases, ghosts
<1>8. CASE Prune
  BY <1>5, <1>8 DEF Prune, PruneBefore, ghosts
<1>9. CASE \E left \in SUBSET records : Sweep(left)
  BY <1>5, <1>9 DEF Sweep
<1>10. CASE Damage \/ UNCHANGED vars
  <2>1. authority' = authority /\ phase' = phase
    BY <1>10 DEF Damage, DamageHead, DamageBackup, DamageRecord, vars, ghosts
  <2> QED
    BY <2>1 DEF Log!vars, HeadDigest
<1> QED
  BY <1>1, <1>2, <1>3, <1>4, <1>6, <1>7, <1>8, <1>9, <1>10
     DEF Next, CommitStep, Open, Log!Next

(* The directory of files behaves as the log: each commit adds one         *)
(* generation at the end, and a recovery only ever cuts generations off    *)
(* the end, and never the last one.                                        *)
THEOREM StoreImplementsLog == Spec => LogSpec
<1>1. Init => Log!Init
  BY LogInit
<1>2. RecordInv /\ DiskInv /\ [Next]_vars => [Log!Next]_(Log!vars)
  BY LogNext
<1> QED
  BY <1>1, <1>2, DiskInvariant, PTL DEF Spec, LogSpec, Log!Spec
=============================================================================
