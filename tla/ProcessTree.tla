---------------------------- MODULE ProcessTree ----------------------------
(***************************************************************************)
(* A program that eb-stack runs with a time limit, and how it is stopped   *)
(* with everything it has started (src/eb_run.rs, run_program_with and     *)
(* stop_tree).  The program is an `eb` with its children: they start other *)
(* processes and exit while they are being looked for.                     *)
(*                                                                         *)
(* One reading of /proc is one step: what starts during it and is missed   *)
(* might as well have started after it.  So is one call of kill(1), since  *)
(* a process that forks between two of its signals might as well have      *)
(* forked before the first.                                                *)
(***************************************************************************)
EXTENDS Naturals

CONSTANTS
  Pids,    \* process numbers; none is used twice
  child,   \* the process that run_program_with spawns
  Rounds,  \* how often stop_tree looks for processes, 5 in the code
  NoParent \* the parent of a process that is not below another one of Pids

ASSUME ProcessAssumption ==
  /\ child \in Pids
  /\ Rounds \in Nat \ {0}
  /\ NoParent \notin Pids

VARIABLES
  state,    \* what each process is doing; a dead one may still be a zombie
  parent,   \* the parent in /proc/<pid>/stat
  phase,    \* where eb-stack is
  rounds,   \* how many readings of /proc stop_tree has made
  found,    \* what the last one added
  tree,     \* what has been sent a SIGSTOP and will be sent a SIGKILL
  timedOut, \* EbRun::timed_out
  orphaned, \* for checking: a process has exited before one of its children
  late      \* for checking: a process has started after the last reading
processes == <<state, parent>>
stopper == <<phase, rounds, found, tree, timedOut>>
history == <<orphaned, late>>
ptVars == <<processes, stopper, history>>

Phases == {"wait", "scan", "stop", "kill", "killtree", "reap", "done"}

PTTypeOK ==
  /\ state \in [Pids -> {"free", "running", "stopped", "dead"}]
  /\ parent \in [Pids -> Pids \cup {NoParent}]
  /\ phase \in Phases
  /\ rounds \in 0..Rounds
  /\ found \in SUBSET Pids /\ tree \in SUBSET Pids
  /\ found \cap tree = {}
  /\ child \notin found \cup tree
  /\ timedOut \in BOOLEAN /\ orphaned \in BOOLEAN /\ late \in BOOLEAN

Alive(p) == state[p] \in {"running", "stopped"}

\* A set that holds the children of `child` and of its own members.
ClosedBelow(S) == \A q \in Pids : parent[q] \in S \cup {child} => q \in S

\* Every process below `child`, by parent: the least such set.
Descendants == {p \in Pids : \A S \in SUBSET Pids : ClosedBelow(S) => p \in S}

PTInit ==
  /\ state = [p \in Pids |-> IF p = child THEN "running" ELSE "free"]
  /\ parent = [p \in Pids |-> NoParent]
  /\ phase = "wait" /\ rounds = 0
  /\ found = {} /\ tree = {}
  /\ timedOut = FALSE /\ orphaned = FALSE /\ late = FALSE

-----------------------------------------------------------------------------
(* What the program and its processes do                                   *)

\* stop_tree will not read /proc again.
NoMoreScans == phase = "kill" \/ (phase = "stop" /\ rounds = Rounds)

Fork(p, q) ==
  /\ state[p] = "running" /\ state[q] = "free"
  /\ state' = [state EXCEPT ![q] = "running"]
  /\ parent' = [parent EXCEPT ![q] = p]
  /\ late' = (late \/ NoMoreScans)
  /\ UNCHANGED <<stopper, orphaned>>

\* The parents after the processes of S have died: their children belong to
\* the system, which also buries those that are dead.
Reparented(S) ==
  [q \in Pids |-> IF parent[q] \in S THEN NoParent ELSE parent[q]]

\* A process exits by itself and stays in /proc until its parent waits for it.
Exit(p) ==
  /\ state[p] = "running"
  /\ state' = [state EXCEPT ![p] = "dead"]
  /\ parent' = Reparented({p})
  /\ orphaned' = (orphaned \/ \E q \in Pids : parent[q] = p /\ Alive(q))
  /\ UNCHANGED <<stopper, late>>

Bury(p, q) ==
  /\ state[p] = "running" /\ state[q] = "dead" /\ parent[q] = p
  /\ parent' = [parent EXCEPT ![q] = NoParent]
  /\ UNCHANGED <<state, stopper, history>>

-----------------------------------------------------------------------------
(* run_program_with and stop_tree                                          *)

\* try_wait has an exit status: the run is over and nothing is stopped.
ChildEnded ==
  /\ phase = "wait" /\ state[child] = "dead"
  /\ phase' = "done"
  /\ UNCHANGED <<processes, rounds, found, tree, timedOut, history>>

\* try_wait has none and the limit has passed.
LimitPassed ==
  /\ phase = "wait" /\ state[child] # "dead"
  /\ phase' = "scan"
  /\ timedOut' = TRUE
  /\ UNCHANGED <<processes, rounds, found, tree, history>>

Scan ==
  /\ phase = "scan"
  /\ found' = Descendants \ tree
  /\ rounds' = rounds + 1
  /\ phase' = IF found' = {} THEN "kill" ELSE "stop"
  /\ UNCHANGED <<processes, tree, timedOut, history>>

\* Mutant of StopFound: one reading of /proc has to do.
StopOnce ==
  /\ phase = "stop"
  /\ state' = [p \in Pids |->
                IF p \in found /\ state[p] = "running" THEN "stopped" ELSE state[p]]
  /\ tree' = tree \cup found
  /\ found' = {}
  /\ phase' = "kill"
  /\ UNCHANGED <<parent, rounds, timedOut, history>>

StopFound ==
  /\ phase = "stop"
  /\ state' = [p \in Pids |->
                IF p \in found /\ state[p] = "running" THEN "stopped" ELSE state[p]]
  /\ tree' = tree \cup found
  /\ found' = {}
  /\ phase' = IF rounds = Rounds THEN "kill" ELSE "scan"
  /\ UNCHANGED <<parent, rounds, timedOut, history>>

\* Mutant of KillChild: the child gets a signal that it can leave for later.
TerminateChild ==
  /\ phase = "kill"
  /\ phase' = "killtree"
  /\ UNCHANGED <<processes, rounds, found, tree, timedOut, history>>

\* child.kill(); a child that has exited meanwhile stays as it is.
KillChild ==
  /\ phase = "kill"
  /\ state' = [state EXCEPT ![child] = "dead"]
  /\ parent' = Reparented({child})
  /\ phase' = "killtree"
  /\ UNCHANGED <<rounds, found, tree, timedOut, history>>

\* Mutant of KillTree: only processes that still are below the child are
\* killed, but the child is dead.
KillBelow ==
  /\ phase = "killtree"
  /\ state' = [p \in Pids |-> IF p \in tree \cap Descendants THEN "dead" ELSE state[p]]
  /\ parent' = Reparented(tree \cap Descendants)
  /\ phase' = "reap"
  /\ UNCHANGED <<rounds, found, tree, timedOut, history>>

KillTree ==
  /\ phase = "killtree"
  /\ state' = [p \in Pids |-> IF p \in tree THEN "dead" ELSE state[p]]
  /\ parent' = Reparented(tree)
  /\ phase' = "reap"
  /\ UNCHANGED <<rounds, found, tree, timedOut, history>>

\* child.wait() blocks until the child is dead.
Wait ==
  /\ phase = "reap" /\ state[child] = "dead"
  /\ phase' = "done"
  /\ UNCHANGED <<processes, rounds, found, tree, timedOut, history>>

Program == \E p, q \in Pids : Fork(p, q) \/ Bury(p, q) \/ Exit(p)
StopTree == Scan \/ StopFound \/ KillChild \/ KillTree \/ Wait
PTNext == Program \/ ChildEnded \/ LimitPassed \/ StopTree

PTSpec == PTInit /\ [][PTNext]_ptVars

\* stop_tree is straight-line code: it goes on as long as it is not blocked.
PTFairSpec == PTSpec /\ WF_ptVars(StopTree)

-----------------------------------------------------------------------------
(* Properties                                                              *)

\* Of a run that was stopped at its limit nothing goes on, unless a process
\* exited before one of its children, or one was started after the last
\* reading of /proc: by the child, which is the only one that is never sent a
\* SIGSTOP, or by one that the last of the allowed rounds has found.
StoppedRunIsGone ==
  phase = "done" /\ timedOut /\ ~orphaned /\ ~late => \A p \in Pids : ~Alive(p)

\* Whatever the processes do meanwhile, none is left suspended for ever: what
\* stop_tree has stopped it also kills.
NoneLeftStopped == phase = "done" => \A p \in Pids : state[p] # "stopped"

\* stop_tree returns, however busily the processes start others.
StopReturns == timedOut ~> phase = "done"
=============================================================================
