---------------------------- MODULE CampaignLock ----------------------------
(***************************************************************************)
(* The lock that guards one campaign state file (src/campaign.rs,          *)
(* CampaignLock).  `acquire` opens, and creates when absent, a guard file  *)
(* beside the state, takes a non-blocking exclusive advisory lock on the   *)
(* opened inode, and writes a metadata file that names the holder.  `drop` *)
(* removes the metadata file, removes the guard *path*, and only then      *)
(* unlocks the inode.                                                      *)
(*                                                                         *)
(* The lock belongs to an inode and the path belongs to a directory, so    *)
(* the two are separate state: `guard` is what the path names now, `fd`    *)
(* what each process has opened.  Every system call is a step of its own,  *)
(* because other processes run between any two of them.                    *)
(***************************************************************************)
EXTENDS FiniteSets

CONSTANTS
  Procs,   \* processes that run, claim or resolve on one state file
  Inodes,  \* inode numbers the file system can hand out
  None     \* no inode, no process, no file

ASSUME NoneAssumption == None \notin Procs /\ None \notin Inodes

VARIABLES
  guard,      \* the inode the guard path names, or None
  meta,       \* the process the metadata file records, or None
  fd,         \* fd[p]: the guard inode process p has open
  holder,     \* holder[i]: the process with the exclusive lock on inode i
  pc,         \* pc[p]: how far p is in acquire or drop
  abnormal,   \* history: a process crashed or failed to write its metadata
  overlapped  \* history: a guard was removed while another process had it
              \*          open and had not tried to lock it yet

vars == <<guard, meta, fd, holder, pc, abnormal, overlapped>>

\* Program points between `try_lock_exclusive` and `unlink` of the guard.
Critical == {"locked", "held", "unmeta"}
Points == {"idle", "opened", "unguarded"} \union Critical

InCritical(p) == pc[p] \in Critical

\* An inode number is free for reuse once no path and no descriptor names it.
InUse == {guard} \union {fd[p] : p \in Procs}

Init ==
  /\ guard = None
  /\ meta = None
  /\ fd = [p \in Procs |-> None]
  /\ holder = [i \in Inodes |-> None]
  /\ pc = [p \in Procs |-> "idle"]
  /\ abnormal = FALSE
  /\ overlapped = FALSE

\* OpenOptions::create(true): open what the path names, or create it.
Open(p) ==
  /\ pc[p] = "idle"
  /\ \/ /\ guard # None
        /\ fd' = [fd EXCEPT ![p] = guard]
        /\ UNCHANGED guard
     \/ /\ guard = None
        /\ \E i \in Inodes \ InUse :
             /\ guard' = i
             /\ fd' = [fd EXCEPT ![p] = i]
  /\ pc' = [pc EXCEPT ![p] = "opened"]
  /\ UNCHANGED <<meta, holder, abnormal, overlapped>>

\* Mutant of TryLock: the lock is taken in shared mode.
TryLockShared(p) ==
  /\ pc[p] = "opened"
  /\ holder' = [holder EXCEPT ![fd[p]] = p]
  /\ pc' = [pc EXCEPT ![p] = "locked"]
  /\ UNCHANGED <<guard, meta, fd, abnormal, overlapped>>

\* try_lock_exclusive succeeds on the opened inode.
TryLock(p) ==
  /\ pc[p] = "opened"
  /\ holder[fd[p]] = None
  /\ holder' = [holder EXCEPT ![fd[p]] = p]
  /\ pc' = [pc EXCEPT ![p] = "locked"]
  /\ UNCHANGED <<guard, meta, fd, abnormal, overlapped>>

\* try_lock_exclusive is contended: acquire returns Busy and closes the file.
Busy(p) ==
  /\ pc[p] = "opened"
  /\ holder[fd[p]] # None
  /\ fd' = [fd EXCEPT ![p] = None]
  /\ pc' = [pc EXCEPT ![p] = "idle"]
  /\ UNCHANGED <<guard, meta, holder, abnormal, overlapped>>

\* The metadata file is created or truncated and the record is flushed.
WriteMetadata(p) ==
  /\ pc[p] = "locked"
  /\ meta' = p
  /\ pc' = [pc EXCEPT ![p] = "held"]
  /\ UNCHANGED <<guard, fd, holder, abnormal, overlapped>>

\* Mutant of Abandon: the lock outlives its process, as a lock file would.
AbandonKeepsLock(p) ==
  /\ fd' = [fd EXCEPT ![p] = None]
  /\ pc' = [pc EXCEPT ![p] = "idle"]
  /\ abnormal' = TRUE
  /\ UNCHANGED <<guard, holder, overlapped>>

\* The descriptor is closed without `drop`: the system releases the lock and
\* both files stay where they are.
Abandon(p) ==
  /\ holder' = IF InCritical(p) \/ pc[p] = "unguarded"
                 THEN [holder EXCEPT ![fd[p]] = None] ELSE holder
  /\ fd' = [fd EXCEPT ![p] = None]
  /\ pc' = [pc EXCEPT ![p] = "idle"]
  /\ abnormal' = TRUE
  /\ UNCHANGED <<guard, overlapped>>

\* Writing the metadata fails: acquire returns an error before a CampaignLock
\* exists, so nothing is unlinked.  The file may have been created already.
MetadataFails(p) ==
  /\ pc[p] = "locked"
  /\ meta' \in {meta, p}
  /\ Abandon(p)

\* The process dies anywhere between open and unlock.
Crash(p) ==
  /\ pc[p] # "idle"
  /\ Abandon(p)
  /\ UNCHANGED meta

\* drop: remove_file(metadata_path).
RemoveMetadata(p) ==
  /\ pc[p] = "held"
  /\ meta' = None
  /\ pc' = [pc EXCEPT ![p] = "unmeta"]
  /\ UNCHANGED <<guard, fd, holder, abnormal, overlapped>>

\* Mutant of RemoveGuard: the guard file stays.
KeepGuard(p) ==
  /\ pc[p] = "unmeta"
  /\ pc' = [pc EXCEPT ![p] = "unguarded"]
  /\ UNCHANGED <<guard, meta, fd, holder, abnormal, overlapped>>

\* drop: remove_file(guard_path), whatever inode the path names by now.
RemoveGuard(p) ==
  /\ pc[p] = "unmeta"
  /\ guard' = None
  /\ pc' = [pc EXCEPT ![p] = "unguarded"]
  /\ overlapped' = (overlapped \/ \E q \in Procs : pc[q] = "opened" /\ fd[q] = guard)
  /\ UNCHANGED <<meta, fd, holder, abnormal>>

\* Mutant of Unlock: the metadata file is removed last.
UnlockRemovesMetadata(p) ==
  /\ pc[p] = "unguarded"
  /\ meta' = None
  /\ holder' = [holder EXCEPT ![fd[p]] = None]
  /\ fd' = [fd EXCEPT ![p] = None]
  /\ pc' = [pc EXCEPT ![p] = "idle"]
  /\ UNCHANGED <<guard, abnormal, overlapped>>

\* drop: unlock, then close.
Unlock(p) ==
  /\ pc[p] = "unguarded"
  /\ holder' = [holder EXCEPT ![fd[p]] = None]
  /\ fd' = [fd EXCEPT ![p] = None]
  /\ pc' = [pc EXCEPT ![p] = "idle"]
  /\ UNCHANGED <<guard, meta, abnormal, overlapped>>

Next ==
  \E p \in Procs :
    \/ Open(p) \/ TryLock(p) \/ Busy(p) \/ WriteMetadata(p) \/ MetadataFails(p)
    \/ RemoveMetadata(p) \/ RemoveGuard(p) \/ Unlock(p) \/ Crash(p)

Spec == Init /\ [][Next]_vars

-----------------------------------------------------------------------------
(* Properties                                                              *)

TypeOK ==
  /\ guard \in Inodes \union {None}
  /\ meta \in Procs \union {None}
  /\ fd \in [Procs -> Inodes \union {None}]
  /\ holder \in [Inodes -> Procs \union {None}]
  /\ pc \in [Procs -> Points]
  /\ abnormal \in BOOLEAN
  /\ overlapped \in BOOLEAN
  /\ \A p \in Procs : fd[p] = None <=> pc[p] = "idle"

\* What run_campaign's comment promises: while one process works on the state
\* file under the lock, no other does.  The code does not keep it: a process
\* that opened the guard before its unlink locks the unlinked inode, while a
\* later one creates and locks a new guard.
MutualExclusion ==
  \A p, q \in Procs : p # q => ~(pc[p] = "held" /\ pc[q] = "held")

\* The defect has one cause.  As long as no guard was removed under a process
\* that had opened it and not locked it yet, two processes never work under
\* the lock together, whatever crashes and failures happen.
ExclusiveWithoutOverlap ==
  ~overlapped =>
    \A p, q \in Procs : p # q => ~(InCritical(p) /\ InCritical(q))

\* The metadata file is there to tell an operator who holds the lock: while a
\* process holds it, the file names that process (under the same condition).
MetadataNamesHolder ==
  ~overlapped => \A p \in Procs : pc[p] = "held" => meta = p

\* The comment on drop: a failed claim cannot leave the guard behind.  When
\* every process is done and none crashed or failed on its metadata, neither
\* file is left, in every interleaving of claims, refusals and drops.
NothingLeftBehind ==
  (~abnormal /\ \A p \in Procs : pc[p] = "idle") => guard = None /\ meta = None

\* A dead controller never blocks a retry: an inode is locked only by a live
\* process that has it open, so a leftover guard file can be locked again.
OnlyLiveProcessesHold ==
  \A i \in Inodes : holder[i] # None =>
    /\ fd[holder[i]] = i
    /\ InCritical(holder[i]) \/ pc[holder[i]] = "unguarded"
=============================================================================
