-------------------------- MODULE IntentDirectory --------------------------
(***************************************************************************)
(* One store directory and the processes that create, open and use it      *)
(* (IntentStore::create and open in src/store.cpp, FileLock and            *)
(* write_file_atomic in src/io.cpp): what they do before they hold the     *)
(* lock, and what they find once they have it.  A process may be killed    *)
(* between any two steps.                                                  *)
(*                                                                         *)
(* The files of a commit are IntentStore's, with the kills between them:   *)
(* here a commit replaces the head and its backup in one step, and a head  *)
(* verifies if it names the domain of its reader.                          *)
(***************************************************************************)
EXTENDS Naturals, Sequences

CONSTANTS
    Process,
    Domain,
    Payload,
    LockFile,       \* the files that can be reached as "lock", one at a time
    None,
    MaxCreations,   \* bound: descriptors written
    MaxCommits      \* bound: generations

ASSUME DirectoryAssumption ==
    /\ None \notin Domain
    /\ None \notin LockFile
    /\ {MaxCreations, MaxCommits} \subseteq Nat

Descriptor == [domain : Domain, store_id : Nat]     \* store.json
HeadFile   == [domain : Domain, log : Seq(Payload)] \* head.json

ProcState ==
    [at : {"out", "create", "open", "write", "rename", "recover", "serve"},
     domain : Domain \cup {None}, file : LockFile \cup {None},
     log : Seq(Payload)]

ASSUME FileAssumption == None \notin Descriptor \cup HeadFile

VARIABLES
    descriptor, \* store.json
    temp,       \* store.json.tmp
    lockFile,   \* the file at "lock"
    head,       \* head.json: the generations it ends
    bak,        \* head.json.bak
    proc,       \* each process: where it is in create or open, the domain it
                \* works for, the lock file it has open, and its head
    created,    \* descriptors written: store_id is drawn fresh
    replaced    \* history: descriptors that another creation has replaced

vars == <<descriptor, temp, lockFile, head, bak, proc, created, replaced>>

(* Types; a descriptor on disk is a whole one, and a process that is in    *)
(* the store works for some domain.                                        *)
TypeOK ==
    /\ descriptor \in Descriptor \cup {None}
    /\ temp \in Descriptor \cup {None}
    /\ lockFile \in LockFile \cup {None}
    /\ {head, bak} \subseteq HeadFile \cup {None}
    /\ proc \in [Process -> ProcState]
    /\ \A p \in Process : proc[p].at # "out" => proc[p].domain \in Domain
    /\ created \in Nat
    /\ replaced \in Nat

(* Out of the store: no lock, nothing in memory.                           *)
Out == [at |-> "out", domain |-> None, file |-> None, log |-> <<>>]

Init ==
    /\ descriptor = None
    /\ temp = None
    /\ lockFile = None
    /\ head = None
    /\ bak = None
    /\ proc = [p \in Process |-> Out]
    /\ created = 0
    /\ replaced = 0

-----------------------------------------------------------------------------
(* Before the lock                                                         *)

(* create goes on only where there is no descriptor.                       *)
Create(p, d) ==
    /\ proc[p].at = "out"
    /\ descriptor = None
    /\ proc' = [proc EXCEPT ![p].at = "create", ![p].domain = d]
    /\ UNCHANGED <<descriptor, temp, lockFile, head, bak, created, replaced>>

(* open takes its domain from the descriptor it finds.                     *)
Open(p) ==
    /\ proc[p].at = "out"
    /\ descriptor # None
    /\ descriptor.domain \in Domain
    /\ proc' = [proc EXCEPT ![p].at = "open", ![p].domain = descriptor.domain]
    /\ UNCHANGED <<descriptor, temp, lockFile, head, bak, created, replaced>>

(* FileLock::acquire opens the lock file, or makes one,                    *)
OpenLockFile(p) ==
    /\ proc[p].at \in {"create", "open"}
    /\ proc[p].file = None
    /\ \E f \in LockFile :
        /\ lockFile \in {f, None}
        /\ lockFile = None => \A q \in Process : proc[q].file # f
        /\ lockFile' = f
        /\ proc' = [proc EXCEPT ![p].file = f]
    /\ UNCHANGED <<descriptor, temp, head, bak, created, replaced>>

(* A process past acquire has the lock of the file it opened.              *)
Inside(p) == proc[p].at \in {"write", "rename", "recover", "serve"}

Locked(f) == \E q \in Process : Inside(q) /\ proc[q].file = f

Enters(p) ==
    proc' = [proc EXCEPT ![p].at = IF proc[p].at = "create" THEN "write" ELSE "recover"]

(* Mutant: a shared lock.                                                  *)
LocksShared(p) ==
    /\ proc[p].at \in {"create", "open"}
    /\ proc[p].file # None
    /\ Enters(p)
    /\ UNCHANGED <<descriptor, temp, lockFile, head, bak, created, replaced>>

(* and locks it, without waiting.  One that is locked is StoreLockBusy,    *)
(* and the process gives up: Leave.                                        *)
Locks(p) ==
    /\ proc[p].at \in {"create", "open"}
    /\ proc[p].file # None
    /\ ~ Locked(proc[p].file)
    /\ Enters(p)
    /\ UNCHANGED <<descriptor, temp, lockFile, head, bak, created, replaced>>

-----------------------------------------------------------------------------
(* Under the lock                                                          *)

NewDescriptor(p) == [domain |-> proc[p].domain, store_id |-> created + 1]

(* Mutant: the descriptor is written in place, and has no domain yet.      *)
WriteDescriptorInPlace(p) ==
    /\ proc[p].at = "write"
    /\ created < MaxCreations
    /\ created' = created + 1
    /\ temp' = NewDescriptor(p)
    /\ descriptor' = [NewDescriptor(p) EXCEPT !.domain = None]
    /\ proc' = [proc EXCEPT ![p].at = "rename"]
    /\ UNCHANGED <<lockFile, head, bak, replaced>>

(* create does not look again for a descriptor: it writes its own,         *)
WriteDescriptor(p) ==
    /\ proc[p].at = "write"
    /\ created < MaxCreations
    /\ created' = created + 1
    /\ temp' = NewDescriptor(p)
    /\ proc' = [proc EXCEPT ![p].at = "rename"]
    /\ UNCHANGED <<descriptor, lockFile, head, bak, replaced>>

(* puts it in place, and serves a domain that has no committed generation. *)
InstallDescriptor(p) ==
    /\ proc[p].at = "rename"
    /\ descriptor' = temp
    /\ temp' = None
    /\ proc' = [proc EXCEPT ![p].at = "serve"]
    /\ replaced' = replaced + (IF descriptor = None THEN 0 ELSE 1)
    /\ UNCHANGED <<lockFile, head, bak, created>>

(* A write or rename that fails takes the temporary file with it.          *)
CreateFails(p) ==
    /\ proc[p].at \in {"write", "rename"}
    /\ temp' = None
    /\ proc' = [proc EXCEPT ![p] = Out]
    /\ UNCHANGED <<descriptor, lockFile, head, bak, created, replaced>>

(* Mutant: the head pointer is not read.                                   *)
RecoversFresh(p) ==
    /\ proc[p].at = "recover"
    /\ proc' = [proc EXCEPT ![p].at = "serve"]
    /\ UNCHANGED <<descriptor, temp, lockFile, head, bak, created, replaced>>

(* open takes the head, or its backup where only that one is of the domain *)
(* or is newer, and puts it back.  Where there is neither, nothing has     *)
(* been committed; where neither can be used it gives up: Leave.           *)
Usable(h, d) == h # None /\ h.domain = d

Chosen(d) ==
    IF Usable(head, d) /\ ~ (Usable(bak, d) /\ Len(bak.log) > Len(head.log))
    THEN head ELSE bak

Recovers(p) ==
    /\ proc[p].at = "recover"
    /\ LET d == proc[p].domain IN
        \/ /\ head = None /\ bak = None
           /\ proc' = [proc EXCEPT ![p].at = "serve"]
           /\ UNCHANGED head
        \/ /\ Usable(head, d) \/ Usable(bak, d)
           /\ head' = Chosen(d)
           /\ proc' = [proc EXCEPT ![p].at = "serve", ![p].log = Chosen(d).log]
    /\ UNCHANGED <<descriptor, temp, lockFile, bak, created, replaced>>

(* commit builds on the head in memory and does not read the one on disk.  *)
Commit(p, c) ==
    /\ proc[p].at = "serve"
    /\ Len(proc[p].log) < MaxCommits
    /\ head' = [domain |-> proc[p].domain, log |-> Append(proc[p].log, c)]
    /\ bak' = IF head = None THEN bak ELSE head
    /\ proc' = [proc EXCEPT ![p].log = Append(@, c)]
    /\ UNCHANGED <<descriptor, temp, lockFile, created, replaced>>

(* Mutant: the lock file goes with the lock.                               *)
LeaveUnlinks(p) ==
    /\ proc[p].at # "out"
    /\ lockFile' = IF Inside(p) THEN None ELSE lockFile
    /\ proc' = [proc EXCEPT ![p] = Out]
    /\ UNCHANGED <<descriptor, temp, head, bak, created, replaced>>

(* The process closes the store, gives up with an error or is killed,      *)
(* wherever it is: its lock goes, its files stay.                          *)
Leave(p) ==
    /\ proc[p].at # "out"
    /\ proc' = [proc EXCEPT ![p] = Out]
    /\ UNCHANGED <<descriptor, temp, lockFile, head, bak, created, replaced>>

Step(p) ==
    \/ \E d \in Domain : Create(p, d)
    \/ Open(p)
    \/ OpenLockFile(p)
    \/ Locks(p)
    \/ WriteDescriptor(p)
    \/ InstallDescriptor(p)
    \/ CreateFails(p)
    \/ Recovers(p)
    \/ \E c \in Payload : Commit(p, c)
    \/ Leave(p)

Next == \E p \in Process : Step(p)

Spec == Init /\ [][Next]_vars

-----------------------------------------------------------------------------
(* Properties                                                              *)

DiskLog == IF head = None THEN <<>> ELSE head.log

(* The lock excludes: whoever creates, opens and is killed, at most one    *)
(* process is past acquire, although the lock is on the file and not on    *)
(* its name.                                                               *)
OneWriter ==
    \A p, q \in Process : Inside(p) /\ Inside(q) => p = q

(* The next three hold while no creation has replaced a descriptor.  Two   *)
(* that overlap can do that: one ends after the other found no descriptor. *)

(* A process that serves works for the domain of the descriptor and has    *)
(* the committed head in memory, although it read the descriptor before it *)
(* had the lock and does not read the head again.                          *)
HolderIsCurrent ==
    \A p \in Process : proc[p].at = "serve" /\ replaced = 0 =>
        /\ descriptor # None
        /\ proc[p].domain = descriptor.domain
        /\ proc[p].log = DiskLog

(* Whatever was killed where: a directory nobody is in has no descriptor,  *)
(* and can be created, or has one that opens.                              *)
Serviceable ==
    (\A p \in Process : ~ Inside(p)) /\ descriptor # None /\ replaced = 0 =>
        /\ descriptor.domain \in Domain
        /\ \/ head = None /\ bak = None
           \/ Usable(head, descriptor.domain)
           \/ Usable(bak, descriptor.domain)

PrefixOf(s, t) == Len(s) <= Len(t) /\ \A i \in 1 .. Len(s) : s[i] = t[i]

(* No process takes back what another one committed.                       *)
CommittedStay == [][replaced' = 0 => PrefixOf(DiskLog, DiskLog')]_vars
=============================================================================
