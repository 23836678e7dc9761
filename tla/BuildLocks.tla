----------------------------- MODULE BuildLocks -----------------------------
(***************************************************************************)
(* Builds of several eb-stack servers into one install path, and the lock  *)
(* directories that EasyBuild leaves when a build is killed at its time    *)
(* limit (src/eb_run.rs, run_eb_build).                                    *)
(*                                                                         *)
(* EasyBuild keeps an empty directory per module in <installpath>/software *)
(* /.locks while it builds the module, refuses to build one whose lock is  *)
(* there, and logs the lock's path before it makes it.  A server knows the *)
(* install path only when its caller gave it.  That nothing of a killed    *)
(* build goes on is what ProcessTree is about.                             *)
(***************************************************************************)
EXTENDS Naturals

CONSTANTS
  Runs,    \* calls of run_eb_build, each of some server
  Modules, \* the modules built; the lock of a module has its name
  None,    \* no lock, or no module
  Old      \* the owner of a lock that a build of the past has left

ASSUME ConstantsAssumption ==
  /\ None \notin Runs \cup Modules \cup {Old}
  /\ Old \notin Runs

VARIABLES
  lock,    \* who made the lock directory of each module
  pc,      \* where each run is
  eb,      \* what its EasyBuild is doing
  at,      \* the module that this is about to lock or builds
  hasPath, \* its arguments have --installpath
  before,  \* the locks it saw before it started EasyBuild
  logged,  \* the locks named in the first 1 MiB of its output
  todo,    \* what its clean-up has yet to look at
  stolen   \* for checking: locks that a clean-up took from a build going on
run == <<pc, eb, at, hasPath, before, logged, todo>>
vars == <<lock, run, stolen>>

Points == {"idle", "wait", "list", "clean", "killed", "ended"}

TypeOK ==
  /\ lock \in [Modules -> Runs \cup {None, Old}]
  /\ pc \in [Runs -> Points]
  /\ eb \in [Runs -> {"off", "on", "announced", "build"}]
  /\ at \in [Runs -> Modules \cup {None}]
  /\ \A r \in Runs : /\ at[r] # None <=> eb[r] \in {"announced", "build"}
                     /\ eb[r] # "off" <=> pc[r] = "wait"
  /\ hasPath \in [Runs -> BOOLEAN]
  /\ before \in [Runs -> SUBSET Modules]
  /\ logged \in [Runs -> SUBSET Modules]
  /\ todo \in [Runs -> SUBSET Modules]
  /\ stolen \in SUBSET Modules

Present == {m \in Modules : lock[m] # None}

Building(r, m) == eb[r] = "build" /\ at[r] = m

Init ==
  /\ lock \in [Modules -> {None, Old}]
  /\ pc = [r \in Runs |-> "idle"]
  /\ eb = [r \in Runs |-> "off"]
  /\ at = [r \in Runs |-> None]
  /\ hasPath \in [Runs -> BOOLEAN]
  /\ before = [r \in Runs |-> {}]
  /\ logged = [r \in Runs |-> {}]
  /\ todo = [r \in Runs |-> {}]
  /\ stolen = {}

-----------------------------------------------------------------------------
(* EasyBuild                                                               *)

\* check_lock finds no lock; the line that announces the lock may lie beyond
\* the part of the output that the clean-up reads.
Announce(r, m) ==
  /\ eb[r] = "on" /\ lock[m] = None
  /\ eb' = [eb EXCEPT ![r] = "announced"]
  /\ at' = [at EXCEPT ![r] = m]
  /\ \E read \in SUBSET {m} : logged' = [logged EXCEPT ![r] = @ \cup read]
  /\ UNCHANGED <<lock, pc, hasPath, before, todo, stolen>>

\* mkdir makes the directory or, if another build was faster, fails.
CreateLock(r, m) ==
  /\ eb[r] = "announced" /\ at[r] = m /\ lock[m] = None
  /\ eb' = [eb EXCEPT ![r] = "build"]
  /\ lock' = [lock EXCEPT ![m] = r]
  /\ UNCHANGED <<pc, at, hasPath, before, logged, todo, stolen>>

\* Built or not, the lock is removed by its path.
FinishModule(r, m) ==
  /\ Building(r, m)
  /\ lock' = [lock EXCEPT ![m] = None]
  /\ eb' = [eb EXCEPT ![r] = "on"]
  /\ at' = [at EXCEPT ![r] = None]
  /\ UNCHANGED <<pc, hasPath, before, logged, todo, stolen>>

-----------------------------------------------------------------------------
(* run_eb_build                                                            *)

\* Mutant of Start: the locks that are there already are not looked at.
StartBlind(r) ==
  /\ pc[r] = "idle"
  /\ pc' = [pc EXCEPT ![r] = "wait"]
  /\ eb' = [eb EXCEPT ![r] = "on"]
  /\ UNCHANGED <<lock, at, hasPath, before, logged, todo, stolen>>

Start(r) ==
  /\ pc[r] = "idle"
  /\ before' = [before EXCEPT ![r] = IF hasPath[r] THEN Present ELSE {}]
  /\ pc' = [pc EXCEPT ![r] = "wait"]
  /\ eb' = [eb EXCEPT ![r] = "on"]
  /\ UNCHANGED <<lock, at, hasPath, logged, todo, stolen>>

\* EasyBuild has ended: all is built, a build failed, or a lock is in the way.
\* There is nothing to clean up.
End(r) ==
  /\ pc[r] = "wait"
  /\ eb[r] = "on" \/ (eb[r] = "announced" /\ lock[at[r]] # None)
  /\ pc' = [pc EXCEPT ![r] = "ended"]
  /\ eb' = [eb EXCEPT ![r] = "off"]
  /\ at' = [at EXCEPT ![r] = None]
  /\ UNCHANGED <<lock, hasPath, before, logged, todo, stolen>>

\* Mutant of TimeOut: what EasyBuild has started goes on.
StopChildOnly(r) ==
  /\ pc[r] = "wait"
  /\ pc' = [pc EXCEPT ![r] = "list"]
  /\ UNCHANGED <<lock, eb, at, hasPath, before, logged, todo, stolen>>

\* The limit has passed: EasyBuild and all it started are killed.
TimeOut(r) ==
  /\ pc[r] = "wait"
  /\ pc' = [pc EXCEPT ![r] = "list"]
  /\ eb' = [eb EXCEPT ![r] = "off"]
  /\ at' = [at EXCEPT ![r] = None]
  /\ UNCHANGED <<lock, hasPath, before, logged, todo, stolen>>

\* Mutant of ListLocks: only the output says what is to be removed.
ListLogged(r) ==
  /\ pc[r] = "list"
  /\ todo' = [todo EXCEPT ![r] = logged[r] \ before[r]]
  /\ pc' = [pc EXCEPT ![r] = "clean"]
  /\ UNCHANGED <<lock, eb, at, hasPath, before, logged, stolen>>

ListLocks(r) ==
  /\ pc[r] = "list"
  /\ LET listed == IF hasPath[r] THEN Present ELSE {}
     IN  todo' = [todo EXCEPT ![r] = (listed \cup logged[r]) \ before[r]]
  /\ pc' = [pc EXCEPT ![r] = "clean"]
  /\ UNCHANGED <<lock, eb, at, hasPath, before, logged, stolen>>

\* Some other run builds under the lock of m.
InUse(r, m) == lock[m] \in Runs \ {r} /\ Building(lock[m], m)

\* The next path of the list, if it still is an empty directory.
RemoveLock(r, m) ==
  /\ pc[r] = "clean" /\ m \in todo[r]
  /\ lock' = [lock EXCEPT ![m] = None]
  /\ stolen' = IF InUse(r, m) THEN stolen \cup {m} ELSE stolen
  /\ todo' = [todo EXCEPT ![r] = @ \ {m}]
  /\ UNCHANGED <<pc, eb, at, hasPath, before, logged>>

Done(r) ==
  /\ pc[r] = "clean" /\ todo[r] = {}
  /\ pc' = [pc EXCEPT ![r] = "killed"]
  /\ UNCHANGED <<lock, eb, at, hasPath, before, logged, todo, stolen>>

Next == \E r \in Runs :
  \/ Start(r) \/ End(r) \/ TimeOut(r) \/ ListLocks(r) \/ Done(r)
  \/ \E m \in Modules : \/ Announce(r, m) \/ CreateLock(r, m)
                        \/ FinishModule(r, m) \/ RemoveLock(r, m)

Spec == Init /\ [][Next]_vars

-----------------------------------------------------------------------------
(* Properties                                                              *)

\* Two runs build one module at a time only when a clean-up has taken the
\* lock of a build that was going on: nothing else the locks go through, no
\* kill, stale lock or lost race for a lock, leads there.
ExclusiveUntilStolen ==
  \A r, s \in Runs, m \in Modules :
    Building(r, m) /\ Building(s, m) => r = s \/ m \in stolen

\* A run that was killed has left no lock of its own in the way of a retry,
\* except one whose name it had seen before it started, which was another's
\* then, and one that only a log read too short could tell of.
OwnLocksGone ==
  \A r \in Runs, m \in Modules :
    pc[r] = "killed" /\ lock[m] = r =>
      IF hasPath[r] THEN m \in before[r] ELSE m \notin logged[r]

\* No clean-up removes a lock that was there before every run, whether it
\* knows the install path or has only the output of its EasyBuild.
OldLocksStay == [][\A m \in Modules : lock[m] = Old => lock'[m] = Old]_vars

\* A lock stays for as long as the build that made it goes on.
LiveLockStays ==
  [][\A r \in Runs, m \in Modules :
       lock[m] = r /\ Building(r, m) => lock'[m] = r \/ ~Building(r, m)']_vars
=============================================================================
