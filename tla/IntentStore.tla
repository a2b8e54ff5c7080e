---------------------------- MODULE IntentStore ----------------------------
(***************************************************************************)
(* The durable store of one intent domain (src/store.cpp, src/io.cpp): a   *)
(* directory of immutable generation records, a head pointer, its backup   *)
(* and a journal, and the process that holds the directory's lock.  A      *)
(* commit is several file operations; the process may stop between any     *)
(* two of them, any of them may fail, and files may rot while at rest.     *)
(*                                                                         *)
(* A SHA-256 digest is a value that distinct inputs never share.  The      *)
(* payload digest stands for a record's identity: it covers the document   *)
(* with its digests and it names the record's file.  The head digest       *)
(* covers the payload digest and the parent's head digest, so it is the    *)
(* sequence of the payload digests of the generation and its ancestors;    *)
(* the lineage digest follows from it.                                     *)
(***************************************************************************)
EXTENDS Naturals, Sequences, FiniteSets

CONSTANTS
    Writer,         \* actors a commit can name
    NoWriter,       \* the empty actor
    Payload,        \* payload digests, ordered as the file names are
    None,           \* no such file; no committed generation
    Damaged,        \* a file that is there and cannot be verified
    NotFound,       \* a read of a number beyond the head
    Pruned,         \* a read of a number whose record is gone
    MaxGeneration,  \* GenerationNumber::kMax
    MaxEpoch,       \* Epoch::kMax (the same number in the code)
    MaxGenerations, \* StoreOptions::max_generations
    PruneOrphans,   \* StoreOptions::prune_orphans
    KeepCounts,     \* how many generations a caller of prune_before keeps
    MaxIncarnation, \* bound: how often the store is opened
    MaxFailures,    \* bound: file operations that report an error
    MaxDamages      \* bound: files that rot

ASSUME StoreAssumption ==
    /\ Payload \subseteq Nat
    /\ MaxGeneration \in Nat \ {0}
    /\ MaxEpoch \in Nat \ {0}
    /\ MaxGenerations \in Nat
    /\ PruneOrphans \in BOOLEAN
    /\ KeepCounts \subseteq Nat
    /\ MaxIncarnation \in Nat \ {0}
    /\ MaxFailures \in Nat
    /\ MaxDamages \in Nat

(* A record's file: the envelope of encode_record, as decode_record reads  *)
(* it back.  A file it refuses is among rotten, whatever the reason.       *)
Record ==
    [generation  : Nat,
     payload     : Payload,
     parent      : Seq(Payload),     \* head digest of the parent; none is <<>>
     epoch       : Nat,
     incarnation : Nat]

ASSUME MarkerAssumption ==
    /\ None \notin Record
    /\ Damaged \notin Record
    /\ None # Damaged

(* FenceToken; saw is not in the code: the head its holder had read.       *)
Fence ==
    [generation : Nat, epoch : Nat, incarnation : Nat, saw : Seq(Payload)]

CommitPhases == {"record", "lineage", "backup", "fill", "replace"}
Phases == {"down", "sweep", "idle"} \cup CommitPhases

VARIABLES
    records,    \* files of records/
    rotten,     \* those of them that fail verification
    head,       \* head.json
    bak,        \* head.json.bak
    journal,    \* lineage.log: the records it names
    phase,      \* where the process is; "down" when none holds the lock
    memHead,    \* head_: the head the process answers with
    epoch,      \* epoch_
    incarnation,\* incarnation_, counted: every open draws a fresh one
    retained,   \* retained_generations_
    pending     \* the record a commit is writing

(* History, read by properties only, but for minted: it keeps digests      *)
(* distinct.                                                               *)
VARIABLES
    minted,     \* every record a commit has built
    issued,     \* every fence token that was ever current
    authority,  \* the head last installed by a commit or taken by an open
    skipped,    \* head replacements that left the backup behind unnoticed
    failures,
    damages

disk   == <<records, rotten, head, bak, journal>>
memory == <<memHead, epoch, incarnation, retained>>
ghosts == <<minted, issued, authority, skipped>>
vars   == <<disk, phase, memory, pending, ghosts, failures, damages>>

(* Types; those of retained and incarnation also say that the counters the *)
(* code keeps unsigned never go below zero (prune_before guards its own).  *)
TypeOK ==
    /\ records \in SUBSET Record
    /\ rotten \in SUBSET Record
    /\ head \in Record \cup {None, Damaged}
    /\ bak \in Record \cup {None, Damaged}
    /\ journal \in SUBSET Record
    /\ phase \in Phases
    /\ memHead \in Record \cup {None}
    /\ epoch \in Nat
    /\ incarnation \in Nat
    /\ retained \in Nat
    /\ pending \in Record \cup {None}
    /\ minted \in SUBSET Record
    /\ issued \in SUBSET Fence
    /\ authority \in Record \cup {None}
    /\ skipped \in Nat
    /\ failures \in Nat
    /\ damages \in Nat

-----------------------------------------------------------------------------
(* Reading the store                                                       *)

GenerationOf(r) == IF r = None THEN 0 ELSE r.generation
HeadDigest(r)   == IF r = None THEN <<>> ELSE Append(r.parent, r.payload)

HeadGeneration == GenerationOf(memHead)

(* The token runtime and clients capture to fence a later commit.          *)
Token(h, e, i) ==
    [generation |-> GenerationOf(h), epoch |-> e, incarnation |-> i,
     saw |-> HeadDigest(h)]

FilesOf(n) == {r \in records : r.generation = n}

(* The first file, in name order, that carries the number.                 *)
RecordPathFor(n) ==
    CHOOSE r \in FilesOf(n) : \A s \in FilesOf(n) : r.payload <= s.payload

Load(n) ==
    CASE n = 0 \/ n > HeadGeneration -> NotFound
      [] FilesOf(n) = {} -> Pruned
      [] RecordPathFor(n) \in rotten -> Damaged
      [] OTHER -> RecordPathFor(n)

(* Mutant: a parent that was pruned counts as a broken chain.              *)
ChainHoldsUnpruned(h) ==
    h.parent # <<>> =>
        /\ FilesOf(h.generation - 1) # {}
        /\ RecordPathFor(h.generation - 1) \notin rotten
        /\ HeadDigest(RecordPathFor(h.generation - 1)) = h.parent

(* The chain check finds the parent's file by number, not by digest.       *)
ChainHolds(h) ==
    h.parent # <<>> /\ FilesOf(h.generation - 1) # {} =>
        /\ RecordPathFor(h.generation - 1) \notin rotten
        /\ HeadDigest(RecordPathFor(h.generation - 1)) = h.parent

ValidHead(h) ==
    /\ h \notin {None, Damaged}
    /\ h \in records \ rotten
    /\ ChainHolds(h)

-----------------------------------------------------------------------------
(* IntentStore::create on an empty directory.                              *)
Init ==
    /\ records = {}
    /\ rotten = {}
    /\ head = None
    /\ bak = None
    /\ journal = {}
    /\ phase = "idle"
    /\ memHead = None
    /\ epoch = 1
    /\ incarnation = 1
    /\ retained = 0
    /\ pending = None
    /\ minted = {}
    /\ issued = {Token(None, 1, 1)}
    /\ authority = None
    /\ skipped = 0
    /\ failures = 0
    /\ damages = 0

-----------------------------------------------------------------------------
(* commit                                                                  *)

(* What a caller passes: the fence f with its writer w, and the record.    *)
Request ==
    [own : BOOLEAN,         \* it names this store's domain
     writer : Writer, generation : 1 .. MaxGeneration]

(* Mutant: fencing by generation and epoch only.                           *)
AdmitsAnyIncarnation(f, w, r) ==
    /\ w # NoWriter
    /\ f.generation = HeadGeneration
    /\ f.epoch = epoch
    /\ r.own
    /\ r.writer = w
    /\ HeadGeneration < MaxGeneration
    /\ r.generation = HeadGeneration + 1
    /\ retained < MaxGenerations

Admits(f, w, r) ==
    /\ w # NoWriter
    /\ f.generation = HeadGeneration
    /\ f.epoch = epoch
    /\ f.incarnation = incarnation
    /\ r.own
    /\ r.writer = w
    /\ HeadGeneration < MaxGeneration
    /\ r.generation = HeadGeneration + 1
    /\ retained < MaxGenerations

NewRecord(r, p) ==
    [generation |-> r.generation, payload |-> p, parent |-> HeadDigest(memHead),
     epoch |-> epoch, incarnation |-> incarnation]

BeginCommit(f, w, r, p) ==
    /\ phase = "idle"
    /\ Admits(f, w, r)
    /\ \A m \in minted : m.payload = p => m = NewRecord(r, p)
    /\ pending' = NewRecord(r, p)
    /\ minted' = minted \cup {NewRecord(r, p)}
    /\ phase' = "record"
    /\ UNCHANGED <<disk, memory, issued, authority, skipped, failures, damages>>

WriteRecord ==
    /\ phase = "record"
    /\ records' = records \cup {pending}
    /\ rotten' = rotten \ {pending}
    /\ phase' = "lineage"
    /\ UNCHANGED <<head, bak, journal, memory, pending, ghosts, failures, damages>>

AppendLineage ==
    /\ phase = "lineage"
    /\ journal' = journal \cup {pending}
    /\ phase' = "backup"
    /\ UNCHANGED <<records, rotten, head, bak, memory, pending, ghosts,
                   failures, damages>>

(* The backup is rewritten in place, so it is torn until it is complete.   *)
TruncateBackup ==
    /\ phase = "backup"
    /\ head # None
    /\ bak' = Damaged
    /\ phase' = "fill"
    /\ UNCHANGED <<records, rotten, head, journal, memory, pending, ghosts,
                   failures, damages>>

(* Mutant: the backup is made of the new head, not of the one it replaces. *)
FillBackupWithNew ==
    /\ phase = "fill"
    /\ bak' = pending
    /\ phase' = "replace"
    /\ UNCHANGED <<records, rotten, head, journal, memory, pending, ghosts,
                   failures, damages>>

FillBackup ==
    /\ phase = "fill"
    /\ bak' = head
    /\ phase' = "replace"
    /\ UNCHANGED <<records, rotten, head, journal, memory, pending, ghosts,
                   failures, damages>>

(* No head to keep yet.                                                    *)
NoBackupNeeded ==
    /\ phase = "backup"
    /\ head = None
    /\ phase' = "replace"
    /\ UNCHANGED <<disk, memory, pending, ghosts, failures, damages>>

(* The current head cannot be read back: write_file_atomic goes on without *)
(* a backup and without an error.                                          *)
SkipBackup ==
    /\ phase = "backup"
    /\ head # None
    /\ failures < MaxFailures
    /\ failures' = failures + 1
    /\ skipped' = skipped + 1
    /\ phase' = "replace"
    /\ UNCHANGED <<disk, memory, pending, minted, issued, authority,
                   damages>>

ReplaceHead ==
    /\ phase = "replace"
    /\ head' = pending
    /\ memHead' = pending
    /\ retained' = retained + 1
    /\ authority' = pending
    /\ issued' = issued \cup {Token(pending, epoch, incarnation)}
    /\ phase' = "idle"
    /\ pending' = None
    /\ UNCHANGED <<records, rotten, bak, journal, epoch, incarnation, minted,
                   skipped, failures, damages>>

(* Mutant: the head in memory moves before the files are written.          *)
CommitFailsAhead ==
    /\ phase \in CommitPhases
    /\ failures < MaxFailures
    /\ failures' = failures + 1
    /\ memHead' = pending
    /\ phase' = "idle"
    /\ pending' = None
    /\ UNCHANGED <<disk, epoch, incarnation, retained, minted, issued, authority,
                   skipped, damages>>

(* A file operation of a commit reports an error and commit returns it.    *)
(* Nothing is undone: the record stays, a line may be in the journal, and  *)
(* a backup caught half written stays torn.                                *)
CommitFails ==
    /\ phase \in CommitPhases
    /\ failures < MaxFailures
    /\ failures' = failures + 1
    /\ \/ UNCHANGED journal
       \/ phase = "lineage" /\ journal' = journal \cup {pending}
    /\ phase' = "idle"
    /\ pending' = None
    /\ UNCHANGED <<records, rotten, head, bak, memory, minted, issued, authority,
                   skipped, damages>>

-----------------------------------------------------------------------------
(* prune_before                                                            *)

(* Mutant: the counter is not kept from going below zero.                  *)
PruneBeforeUnguarded(keepFrom, left) ==
    /\ phase = "idle"
    /\ LET old == {r \in records : r.generation < keepFrom}
       IN  /\ left \subseteq old
           /\ records' = records \ (old \ left)
           /\ rotten' = rotten \ (old \ left)
           /\ retained' = retained - Cardinality(old)
    /\ \/ left = {} /\ UNCHANGED failures
       \/ left # {} /\ failures < MaxFailures /\ failures' = failures + 1
    /\ UNCHANGED <<head, bak, journal, phase, memHead, epoch, incarnation, pending,
                   ghosts, damages>>

(* Removing a file is not checked: one that cannot be removed is counted   *)
(* as removed.  When no file is older, the counter is cleared.             *)
PruneBefore(keepFrom, left) ==
    /\ phase = "idle"
    /\ LET old == {r \in records : r.generation < keepFrom}
           removed == Cardinality(old)
       IN  /\ left \subseteq old
           /\ records' = records \ (old \ left)
           /\ rotten' = rotten \ (old \ left)
           /\ retained' = IF removed > 0 /\ retained >= removed
                          THEN retained - removed ELSE 0
    /\ \/ left = {} /\ UNCHANGED failures
       \/ left # {} /\ failures < MaxFailures /\ failures' = failures + 1
    /\ UNCHANGED <<head, bak, journal, phase, memHead, epoch, incarnation, pending,
                   ghosts, damages>>

-----------------------------------------------------------------------------
(* The process ends: a clean close or a kill at any point.                 *)

(* Mutants: the sweep starts one generation too early, or one too late.    *)
OrphansFromHead ==
    IF PruneOrphans THEN {r \in records : r.generation >= HeadGeneration} ELSE {}
OrphansPastNext ==
    IF PruneOrphans THEN {r \in records : r.generation > HeadGeneration + 1} ELSE {}

Orphans ==
    IF PruneOrphans THEN {r \in records : r.generation > HeadGeneration} ELSE {}

(* A kill during the sweep leaves any part of it done.                     *)
Crash(swept) ==
    /\ phase # "down"
    /\ swept \subseteq IF phase = "sweep" THEN Orphans ELSE {}
    /\ records' = records \ swept
    /\ rotten' = rotten \ swept
    /\ phase' = "down"
    /\ memHead' = None
    /\ epoch' = 0
    /\ retained' = 0
    /\ pending' = None
    /\ UNCHANGED <<head, bak, journal, incarnation, minted, issued, authority,
                   skipped, failures, damages>>

-----------------------------------------------------------------------------
(* open                                                                    *)

(* Mutant: the backup wins whenever it verifies.                           *)
ChosenBackup == IF ValidHead(bak) THEN bak ELSE head

(* The backup wins only when head.json does not verify or is older.        *)
ChosenHead ==
    IF ValidHead(head) /\ ~ (ValidHead(bak) /\ bak.generation > head.generation)
    THEN head ELSE bak

CanRecover == ValidHead(head) \/ ValidHead(bak)

(* Neither candidate verifies: open fails, and so does every later one.    *)
StoreCorrupt == {head, bak} # {None} /\ ~ CanRecover

(* Mutant: a store none of whose candidates verifies counts as a new one.  *)
OpenGenesisAnyway ==
    /\ phase = "down"
    /\ incarnation < MaxIncarnation
    /\ ~ CanRecover
    /\ phase' = "idle"
    /\ memHead' = None
    /\ authority' = None
    /\ epoch' = 1
    /\ incarnation' = incarnation + 1
    /\ issued' = issued \cup {Token(None, 1, incarnation + 1)}
    /\ UNCHANGED <<disk, retained, pending, minted, skipped, failures,
                   damages>>

(* No head pointer and no backup: the domain has no committed generation.  *)
(* The records directory is not looked at.                                 *)
OpenGenesis ==
    /\ phase = "down"
    /\ incarnation < MaxIncarnation
    /\ head = None
    /\ bak = None
    /\ phase' = "idle"
    /\ memHead' = None
    /\ authority' = None
    /\ epoch' = 1
    /\ incarnation' = incarnation + 1
    /\ issued' = issued \cup {Token(None, 1, incarnation + 1)}
    /\ UNCHANGED <<disk, retained, pending, minted, skipped, failures,
                   damages>>

(* The chosen head is written back to head.json when it was the backup.    *)
OpenCommitted ==
    /\ phase = "down"
    /\ incarnation < MaxIncarnation
    /\ CanRecover
    /\ ChosenHead.epoch < MaxEpoch
    /\ head' = ChosenHead
    /\ memHead' = ChosenHead
    /\ authority' = ChosenHead
    /\ epoch' = ChosenHead.epoch + 1
    /\ incarnation' = incarnation + 1
    /\ phase' = "sweep"
    /\ UNCHANGED <<records, rotten, bak, journal, retained, pending, minted, issued,
                   skipped, failures, damages>>

(* No epoch follows the committed one: the open fails after the rewrite.   *)
OpenEpochExhausted ==
    /\ phase = "down"
    /\ CanRecover
    /\ ChosenHead.epoch >= MaxEpoch
    /\ head' = ChosenHead
    /\ authority' = ChosenHead
    /\ UNCHANGED <<records, rotten, bak, journal, phase, memory, pending, minted,
                   issued, skipped, failures, damages>>

(* Debris beyond the head goes, unless a removal fails, which is ignored;  *)
(* every other file counts as a retained generation.                       *)
Sweep(left) ==
    /\ phase = "sweep"
    /\ left \subseteq Orphans
    /\ records' = records \ (Orphans \ left)
    /\ rotten' = rotten \ (Orphans \ left)
    /\ retained' = Cardinality({r \in records : r.generation <= HeadGeneration})
    /\ issued' = issued \cup {Token(memHead, epoch, incarnation)}
    /\ \/ left = {} /\ UNCHANGED failures
       \/ left # {} /\ failures < MaxFailures /\ failures' = failures + 1
    /\ phase' = "idle"
    /\ UNCHANGED <<head, bak, journal, memHead, epoch, incarnation, pending, minted,
                   authority, skipped, damages>>

-----------------------------------------------------------------------------
(* Media faults, while no commit is under way.                             *)

Rests == phase \in {"down", "idle"} /\ damages < MaxDamages

DamageHead ==
    /\ Rests
    /\ head \notin {None, Damaged}
    /\ head' = Damaged
    /\ damages' = damages + 1
    /\ UNCHANGED <<records, rotten, bak, journal, phase, memory, pending, ghosts,
                   failures>>

DamageBackup ==
    /\ Rests
    /\ bak \notin {None, Damaged}
    /\ bak' = Damaged
    /\ damages' = damages + 1
    /\ UNCHANGED <<records, rotten, head, journal, phase, memory, pending, ghosts,
                   failures>>

DamageRecord(r) ==
    /\ Rests
    /\ r \in records \ rotten
    /\ rotten' = rotten \cup {r}
    /\ damages' = damages + 1
    /\ UNCHANGED <<records, head, bak, journal, phase, memory, pending, ghosts,
                   failures>>

-----------------------------------------------------------------------------
CommitStep ==
    \/ \E f \in issued, w \in Writer \cup {NoWriter}, r \in Request, p \in Payload :
        BeginCommit(f, w, r, p)
    \/ WriteRecord
    \/ AppendLineage
    \/ TruncateBackup
    \/ FillBackup
    \/ NoBackupNeeded
    \/ SkipBackup
    \/ ReplaceHead
    \/ CommitFails

Prune ==
    \E k \in KeepCounts, left \in SUBSET records :
        k <= HeadGeneration + 1 /\ PruneBefore(HeadGeneration + 1 - k, left)

Open ==
    \/ OpenGenesis
    \/ OpenCommitted
    \/ OpenEpochExhausted
    \/ \E left \in SUBSET records : Sweep(left)

Damage ==
    \/ DamageHead
    \/ DamageBackup
    \/ \E r \in records : DamageRecord(r)

Next ==
    \/ CommitStep
    \/ Prune
    \/ \E swept \in SUBSET records : Crash(swept)
    \/ Open
    \/ Damage

Spec == Init /\ [][Next]_vars

-----------------------------------------------------------------------------
(* Properties                                                              *)

PrefixOf(s, t) == Len(s) <= Len(t) /\ \A i \in 1 .. Len(s) : s[i] = t[i]

(* Records that were never committed under a number that is: a commit that *)
(* failed or was killed left one, and the number was committed again.      *)
Strays ==
    {r \in records : /\ r.generation <= GenerationOf(authority)
                     /\ ~ PrefixOf(HeadDigest(r), HeadDigest(authority))}

(* No lost update: a token that commit admits comes from a writer who read *)
(* the very head the commit builds on, although commit compares numbers    *)
(* only, and numbers and epochs are used again after a recovery or an idle *)
(* restart.                                                                *)
NoLostUpdate ==
    phase = "idle" =>
        \A f \in issued :
            (\E w \in Writer, r \in Request : Admits(f, w, r)) =>
                f.saw = HeadDigest(memHead)

(* The process answers with the head that is on disk, whatever commits     *)
(* failed in between: a failed commit leaves both untouched.               *)
MemoryMatchesDisk ==
    phase \in {"idle"} \cup CommitPhases =>
        memHead = authority /\ head \in {memHead, Damaged}

(* The backup is never foreign to the head: it is an ancestor of it, and   *)
(* no further back than one generation more than the replacements that     *)
(* silently kept no backup.                                                *)
BackupTrails ==
    bak \notin {None, Damaged} =>
        /\ PrefixOf(HeadDigest(bak), HeadDigest(authority))
        /\ GenerationOf(authority) <= bak.generation + 1 + skipped

(* Whatever a head pointer can name was recorded in the journal first.     *)
JournalBeforeHead == {head, bak} \ {None, Damaged} \subseteq journal

(* The record of the current head is never removed, by a sweep or by a     *)
(* prune that keeps at least one generation.                               *)
HeadRecordKept ==
    0 \notin KeepCounts => (authority # None => authority \in records)

(* A kill at any step of any operation leaves a store that opens again,    *)
(* unless files rotted or a stray record is in the way.                    *)
Reopenable ==
    damages = 0 /\ Strays = {} /\ 0 \notin KeepCounts => ~ StoreCorrupt

(* Committed generations are not taken back, unless files rotted or a      *)
(* stray record is in the way, or a caller pruned them all.                *)
NoSilentLoss ==
    [][damages = 0 /\ Strays = {} /\ 0 \notin KeepCounts =>
        PrefixOf(HeadDigest(authority), HeadDigest(authority'))]_authority

(* Records are found by number, and a kill leaves records whose number is  *)
(* given out again: still, while no file operation reports an error, every *)
(* read from generation 2 on answers with the record that was committed.   *)
(* (Generation 1 is the exception: OpenGenesis does not sweep.)            *)
LoadServesCommitted ==
    phase = "idle" /\ failures = 0 /\ PruneOrphans =>
        \A n \in 2 .. HeadGeneration :
            Load(n) \notin {NotFound, Pruned, Damaged} =>
                HeadDigest(memHead)[n] = Load(n).payload

(* The committed generations are the log; it is served while the store is  *)
(* open.                                                                   *)
Log == INSTANCE IntentLog
        WITH Content <- Payload, log <- HeadDigest(authority),
             serving <- phase # "down"

(* The store implements the log of committed generations.                  *)
LogSpec == Log!Spec

-----------------------------------------------------------------------------
(* Claims of the documentation that the code does not keep.                *)

(* Committed generations survive kills and failed file operations.         *)
CommitsAreDurable ==
    [][damages = 0 =>
        PrefixOf(HeadDigest(authority), HeadDigest(authority'))]_authority
=============================================================================
