# A TLA+ model of eb-stack

eb-stack plans EasyBuild stacks, runs the builds of a planned package on a
target, and keeps a ledger of what was installed. Most of it is a library of
parsers, resolvers and reports that compute an answer from files. A few parts
keep state that several processes change and that must survive crashes. Those
parts are modelled here, checked with TLC on small instances, and proved with
TLAPS for every value of the constants.

`PROJECT.json` lists the components, the runs, the source lines behind every
definition (`map`), the hazards, the findings and the theorems.

    tlc -workers 2 -config MCLedger.cfg MCLedger    # one run
    tlapm LedgerProofs.tla                          # one module of proofs

## Inventory

| part | state it keeps | operations | hard about it |
|---|---|---|---|
| campaign lock (`campaign.rs`, CampaignLock) | guard and metadata file beside the state, an advisory lock on the guard's inode | acquire, drop | system calls of several processes between each other; crashes; a lock on an inode, taken through a path |
| campaigns (`campaign.rs`, run_campaign, claim_finding, resolve_finding) | one JSON state file: attempts, claims, findings, history | run, claim, resolve | death of the controller between two writes, builds that outlive it, retries, claims by workers in between |
| ledger log and heads (`ledger.rs`, append, sign_head) | log file, its copies of torn tails, head file | append (with retry and repair), sign, show, verify | kills in each write, failed flushes, loss of power, retries of what was done already, signers beside writers |
| ledger lock (`ledger.rs`, LedgerLock) | gate on the log, a slot in each process, a POSIX record lock | acquire, acquire_shared, drop | record locks belong to processes, threads share them; three locks taken in turn |
| EasyBuild runner (`eb_run.rs`) | a child process and what it started; lock directories of an install path | run, stop at the limit, clean up locks | processes that start others while they are being stopped; two builds in one install path |
| MCP server (`mcp.rs`, `workspace_fs.rs`) | the recipes as first seen, in two maps | read, write, edit, lint, rebaseline, run | long sequences of edits and rebaselines; two servers in one workspace |
| shard-tree cache (`shard_trees.rs`) | one directory per commit or pull request | look up, fill | two processes fill one entry; an entry stays for ever |
| shards, batches, merge order, rebuild set | none; a plan, and the builds that are made of it at the same time | graph algorithms | cycles; what two groups share; what is rebuilt under another's feet |
| package closure, resolver, hierarchies, versions | none (a memo in the resolver's provider) | work lists and comparisons | termination, comparison at boundaries |
| target staging, source fetching and probing | files on a target, a download | one command or request after the other | retries with a bound |
| parsers, emitters, lint, adapters, reports, command line | none | conversion of data | nothing that several steps or actors decide |

How they interact: the command line and the MCP server call everything else. A
campaign takes its lock, loads the bundle that the package workflow wrote,
stages it and runs commands through `target.rs`, which waits for each of them;
the failure classifier names a finding's class. Workers claim and resolve
findings through the same lock and file. The ledger is called by the command
line and by the MCP server, so by several processes; it takes its own lock, and
nothing else touches its files. The EasyBuild runner is used by the MCP
server's build and dry-run tools.

What makes the parts correct, in short:

- campaign lock: one process at a time; a dead holder blocks nobody; nothing
  is left behind; the metadata names the holder.
- campaigns: a claim is backed by evidence of the same attempt; no attempt and
  no failure gets lost or counted twice; findings are an audit trail; a build
  never writes where another may still be writing.
- ledger: what was reported stays; an event is recorded once; a head is the log
  at some moment and never goes back; a repair destroys nothing.
- ledger lock: writers alone, signers together, and no cycle of waits.
- runner: nothing that a stopped run has started goes on; a run's clean-up
  removes its own locks and no other.
- recipes: an error against the first version of a file stays visible until
  it is repaired; an edit that is answered as not applied is not there.
- tree cache: an entry is the whole tree of its commit.
- algorithms: an order puts dependencies first; groups that are built apart
  share nothing; cycles lose nothing but the order inside them.

## Modules

    CampaignLock    <- CampaignLockProofs, MCCampaignLock
    Campaign        (INSTANCE ClaimLadder)    <- CampaignProofs, MCCampaign
    Ledger          (INSTANCE AppendOnlyLog)  <- LedgerProofs, MCLedger
    LedgerLock      (INSTANCE SharedLock)     <- LedgerLockProofs, MCLedgerLock
    ProcessTree, BuildLocks        <- RunnerProofs
    BuildLocks      <- MCBuildLocks
    Shards, Batches, MergeOrder    <- PlanProofs, MCPlans
    TreeCache       <- TreeCacheProofs, MCTreeCache
    Workspace       <- WorkspaceProofs, MCWorkspace

An arrow reads "is extended by"; where one module of proofs extends several,
their names differ (PTInit, BatchInit, OrderInit, ...). The components meet at the locks. Campaign
takes its lock as a promise: at most one controller, and no claim beside it.
That promise is what the finding about CampaignLock is about, and Campaign says
what is true as long as it holds. Ledger takes its lock as SharedLock states it
(`FreeToWrite`, `FreeToSign`), and LedgerLock is proved to implement
SharedLock. BuildLocks takes from ProcessTree that a killed build does nothing
more, which ProcessTree shows with two exceptions. Shards, Batches and
MergeOrder read the same build sets.

**CampaignLock.** One action per system call: `Open`, `TryLock` or `Busy`,
`WriteMetadata` for acquire; `RemoveMetadata`, `RemoveGuard`, `Unlock` for
drop; `MetadataFails` for the error return after the lock was taken, and
`Crash` anywhere. The path (`guard`) and the locked inode (`holder`, `fd`) are
separate, and an inode number is handed out again once nothing names it.

**Campaign.** `disk` is the CampaignState in the file and `mem` the
controller's copy, so a change that waits for the next `write_state` can be
lost. `Start` is everything up to the first write (load, record an
interruption, count the attempt, withdraw the claims); then one action for each
way a stage ends; `Crash` is the death of the controller, or a failed write, at
any of these points, and leaves a launched build running (`remote`). `Claim`
and `Resolve` are the two calls of workers. Names of recipes and profiles, and
class and text of findings, are abstract. `ClaimLadder` is what a reader of the
state file may rely on: claims rise in order within one attempt, each with its
evidence.

**Ledger.** `append` is `BeginAppend` or `BeginRetry` (everything up to the
last check, under the lock), `CopyTail` and `CutTail` (repair of a torn tail),
`WriteLine`, `Flush`, `Link`, `Report`; with `--head-out` also `WriteHead` and
`FlushHead`, which are the steps of `sign_head` after `BeginSigning`. `Tear`,
`CutBack`, `CutUnflushed` and `Kill` are the failures, and `LosePower` leaves
what was flushed and any initial part of what was not. `log` and `tail` are
what a process reads, `synced` and `syncedTail` what is on stable storage,
`surviving` the head files a loss of power may leave. A head is represented by
the lines it covers, because the Merkle tree (a library) makes equal roots
equal lines. `AppendOnlyLog` is the promise: flushed lines only get longer,
record an event once, and contain what was reported.

**LedgerLock.** A writer goes through gate, slot and record lock, a signer
through slot and record lock; each wait, open and close is an action of a
thread, and `Kill` ends a process with all its threads. `record[p]` belongs to
the process: a second request would replace it, and closing drops it. That is
what the slot is there to prevent, and what `LockIsNotLost` and
`NeverHoldsAndWaits` are about.

**ProcessTree.** `Fork`, `Exit` and `Bury` are what the program and its
processes do; `ChildEnded` and `LimitPassed` end the loop of run_program_with, and
`Scan`, `StopFound`, `KillChild`, `KillTree` and `Wait` are the calls of
stop_tree. Parents are those of `/proc/<pid>/stat`: a process whose parent has
died belongs to the system and is not found below the child any more. A scan
and a call of kill(1) are one step each.

**BuildLocks.** `Announce`, `CreateLock` and `FinishModule` are EasyBuild at a
module (external, as eb_run.rs relies on it: an empty directory per module,
logged before it is made). `Start` lists the locks before a run, `TimeOut`
kills it, `ListLocks` collects what to remove from the directory and from the
first MiB of the output, `RemoveLock` removes one path, as the code does, by
its name. The only caller outside the tests gives no install path: then only the
output tells.

**Shards.** The plan is made in the order of the code: `Merge` (union of lines),
`Split` (prelude and loads), `Pack` (heaviest group to the lightest shard). A
closure is the least set closed under the dependencies that are not installed,
where a module that any line rebuilds does not count as installed. Then the
prelude is built, in any order that agrees with the dependencies, and the
shards build side by side: a shard takes its lines by line_order, and each
line builds, module by module, what is missing at that moment. That part is
external: easystacks are run by Jenkins and EasyBuild, as the how-to says.

**Batches.** `Unite` is one root's turn in the loop that unites roots which
share a module: the owner of a module is the first root that builds it, and the
smallest representative stands for all groups that the root meets. `Place` is
one component's turn in the first-fit loop, the largest first.

**MergeOrder.** `MergeOne` is one turn of the loop: of the pull requests that
wait for none that is left, the one with least left to build. What waits for
what is `Binds`, without the edges inside a cycle (`After`); a cycle is a set
of pull requests that reach each other (`OneCycle`).

**TreeCache.** A planner looks for a commit and downloads its archive, or reads
the head of a pull request, pages of its file list and the texts (`ReadHead`,
`ReadPage`, `ReadTexts`), writes them into a directory of its own (`Write`) and
renames that (`Rename`, `NotRenamed`). `Push` moves the pull request at any
time: the list is that of where it is now, the texts are those of the head that
was read. Requests and writes fail (`RequestFails`), planners die (`Crash`).

**Workspace.** One recipe (or module) with the server's two memories of it,
`pristine` and `firstSeen`. A call begins with `Begin` (which remembers the
file when it is new) and goes through its reads and writes in steps, so that
`Outside`, someone else's write, comes in between: `StartEdit`, then `ReadBefore`
and `Edit` (eb_recipe_edit) or `ReadSuggested` and `Replace`
(eb_recipe_apply_suggestion), `CheckPython`, `Undo`, `EnforceGuard`, `Revert` for
edits, `StartLint`, `Compare`, `Rebaseline`, `Lint` for lints. A text is what
these steps tell apart, its size included: read_workspace and write_workspace
refuse what is over 2 MiB (`LimitedReads`, `ReadFails`, `WriteBack`), the two
functions that edit do not look at the size of what they write (`Replaced`).
Every read may fail; some callers pass that on (`ReadFails`), others go on as if
there were no text (`Reads`). write_file empties the file before it writes, so a
write that fails leaves what was there or any part of the new text
(`PartWritten`). The answers keep three kinds of errors apart: "refused" is
the code's own ("not applied", or nothing found to replace), "too large" comes
from the size limit, "failed" from a read or a write. Of the file after
"failed" nothing can be said, and no property does.

## Runs

Every property of a passing run has a mutant of the code (a definition named
"Mutant of ..." in the module) under which TLC finds it violated.

| run | states | what it shows |
|---|---|---|
| lock | 853 (symmetric) | Three processes, four inodes. Two of them work under the lock together only after a guard was removed under a process that had opened it (`ExclusiveWithoutOverlap`); under the same condition the metadata names the holder; clean drops leave nothing behind; only a live process that has the inode open has it locked. |
| lock_race | violation | `MutualExclusion` itself does not hold, see the findings. |
| campaign | 587,071 | Three attempts over four bundles of one package and two workers: the safety properties of Campaign about findings, attempts and builds in flight, `ImplementsLadder`, and, under fairness, `AttemptsConclude`. |
| ledger | 725,000 (symmetric) | Two writers and two signers, three records of which two share an event, two lines, one loss of power: every safety property of Ledger, and `KeepsPromise`. |
| ledger_lock | 31,122 | Four threads in three processes, one of which cannot write: `LockIsNotLost`, `NeverHoldsAndWaits`, `ImplementsSharedLock`, and, under fairness, `EveryCallReturns`. |
| process_tree | 166,473 | A child and four processes below it, two readings of /proc: `StoppedRunIsGone` (but for the two ways it names), `NoneLeftStopped`, and, under fairness, `StopReturns`. |
| build_locks | 3.3 million (symmetric) | Three runs, two modules, with and without an install path, with locks of the past: `ExclusiveUntilStolen`, `OwnLocksGone`, `OldLocksStay`. |
| build_locks_live | violation | A clean-up takes the lock of a build that goes on, see the findings. |
| plans | 2,310,314 | The three planners one at a time. All 32,768 lists of three lines over four modules described in MCPlans, planned and built: `BuiltInOneShard`, `RootsBuiltByTheirLines`, `LoadsAreQuiet`. Four roots with all sets of up to two of four modules, sizes 0, 2 and 3: `BatchesBuildApart`. Three pull requests with all sets they may ask for and build out of three modules: `MergesInOrder`. |
| tree_cache | 1,505,361 (symmetric) | Two planners, a commit, and a pull request that moves between three heads, one of them with more files than GitHub lists: `EntryIsItsCommit`. |
| workspace | 2,233,099 | Eight versions of one file, one of them over the size limit, calls in any order and number, reads and writes that fail, another writer, deaths of the server: `CleanMeansKept`, `RefusedMeansUnchanged`, `EditedMeansSound`. |
| rebaseline | violation | A removed template is silenced, see the findings. |

### Bounds

- *Inodes* (4 for 3 processes): one more than can be open at once, so that the
  creation of a guard never has to wait for a free number; fewer would hide
  the race, more add nothing but other numbers.
- *MaxAttempts* (3): a finding of the first attempt, a claim of it and a
  failure in the second, and its closing in the third. The state that crosses
  attempts is one finding per attempt, so a fourth adds only repetition.
- *Bundles*: one with two recipes and a command (the order of builds), one with
  one recipe that the other contains too and no command (a completed run that
  verified nothing), one whose manifest cannot be used (a run that ends without
  an outcome), and one without recipes (refused before the state is touched).
- *MaxLines* (2), *MaxLosses* (1): lines that are started, so a torn, a lost or
  a cut-back line counts. Two are enough for a torn line and its retry, for two
  appends after one head, and for a line under a head that a second one
  follows. The theorems hold for any number.
- *MaxCalls* (1): each thread calls once. Four threads are a writer at the
  gate, a second in the slot's queue, and a signer in each other process. What
  a second call of the same thread does is done by another thread.

- *Rounds* (2, 5 in the code) and *Pids* (5): with two rounds the limit is
  reached with few processes: one is found in each round and one starts after
  the last. The theorems hold for any number of both.
- *Runs* (3) and *Modules* (2) of BuildLocks: a run that is killed, one whose
  lock it takes, and a third that then builds the same module; a second module
  for a list with more than one path.
- *Lists* of Shards: three lines are a group of two and a group of one, three
  groups with one shard too few, or a chain; four modules are three roots and
  what they share, or a diamond. Every graph in which modules need smaller ones
  is tried, and, for the second line, a tree in which one module differs.
- *Requests* of Batches: four roots are a chain, two pairs or a star, or four
  singles that fill two batches; a chain of three is larger than the size 2.
  Two modules for each root make every such graph. *Queues* of MergeOrder: three
  pull requests are a cycle of two and one behind it, or one cycle; rows add the
  edges that sets do not. The theorems hold for any number of both.
- *Heads* (3): one that adds two files on two pages, one that takes the first
  back, so that a list is read across the move, and one beyond the limit (2
  files here, 3000 in the code). *PageSize* is 1, so that every page is full.
- *Texts* of Workspace: the recipe, and seven that differ from it in one or two
  of the things a step can tell apart; nothing bounds the number of calls.

### Runs that may stop

Deadlock is checked in `lock`, `lock_race`, `tree_cache`, `workspace` and
`rebaseline`. The other runs say `CHECK_DEADLOCK FALSE`. A campaign stops when
the last attempt the bound allows is over and all findings are closed. The
ledger stops when its lines are used up, and for good when a kill leaves a whole
last line without its newline: append refuses that log and leaves it to the
operator. The calls of LedgerLock are used up; that nobody is waiting then is
`EveryCallReturns`. A stopped or ended program (ProcessTree), runs that have
each been made once (BuildLocks), a list that has been built (Shards) and a plan
that is made (Batches, MergeOrder) are done; that stop_tree gets there is `StopReturns`.

### Fairness

`Campaign!FairSpec` assumes weak fairness of the controller and of retries: the
controller waits for one command at a time and goes on when it returns
(`execute` in `target.rs`; a command that hangs for ever is excluded here), and
an operator retries a campaign that is over or whose controller is gone, as
campaigns.org describes. Crashes, claims and resolutions are not assumed to
happen. `AttemptsConclude` speaks of all attempts but the last, because the
bound allows no retry of that one.

`LedgerLock!FairSpec` assumes that a thread that can go on does: the system
wakes a process that waits for a file lock, `notify_all` a thread that waits
for a slot, and the caller drops the lock at last. A refusal is never assumed,
except where it is the only way on (a process that cannot create the lock
file). Writers can starve under a stream of signers that never ends; with
bounded calls there is none.

`ProcessTree!PTFairSpec` assumes that stop_tree, which is straight-line code, goes
on while it is not blocked. Nothing is assumed of the processes.

The other modules are only asked for safety: a contended campaign lock is
refused and not waited for, an append returns, a build ends or is killed, and a
plan is computed by loops over what is left.

## Findings

Each of the first three is the violated property of a run; PROJECT.json quotes
the documentation.

1. `lock_race`. `drop` removes the guard path before it unlocks the inode. A
   process that opened the guard before can then lock an inode without a name
   while another creates a new one: two controllers on one state file.
2. `build_locks_live` (with and without an install path). After a kill, run_eb_build removes every empty lock
   directory that was not there before it started, also that of another run
   which is building; a third run can then build the same module. The comment
   speaks of the locks that this run created.
3. `rebaseline`. The rules whose errors refuse a rebaseline do not include
   EB_FMT_TEMPLATE_REMOVED, so a removed template is silenced by a rebaseline,
   which the comment on PRISTINE rules out.

The following were met while the code was modelled. No run is about them; the
properties that hold are stated so that they allow for them.

- Campaign: verification findings are matched by profile, so the first command
  of a profile closes the finding of the second one before that is run again.
  Findings of the stages preflight and stage are never superseded, although the
  tutorial says that successful stages supersede. A retry from another bundle of
  the same package and version keeps the old bundle's name in the state. A
  manifest that cannot be read for verification ends a run with the state still
  saying Running.
- Ledger: sign_head publishes, with flushed file and directory, a head over a
  line that a killed writer had not flushed. After a loss of power the head
  covers a line that is gone (`~stranded` in the properties of Ledger).
- stop_tree: the comment says that nothing in the tree can start another
  process while it is collected, but the child itself is never stopped; what
  it starts after the last reading goes on (`late`), and so does a process whose
  parent exited first (`orphaned`).
- run_eb_build: a lock whose name was there before the run is not removed, also
  when its owner had removed it since and this run had made it again.
- Shards: with trees that resolve a module differently, the prelude or another
  line's robot can build a root before its own line does, without that line's
  options (`TreesAgree`; the head of shard.rs speaks of one robot path). A line
  that rebuilds a module which an installed module needs can do so while
  another shard loads it through that one (the exception in `LoadsAreQuiet`).
- MergeOrder: the branch for the case that no pull request is ready is never
  taken (ReadyTheorem), since no edge inside a cycle is kept.
- TreeCache: a pull request that moves between the read of its head and that of
  its file list leaves an entry of the old head with the new one's list, which
  may lack files, and stays for ever. The module says that an entry that exists
  is complete.
- Workspace: the guard puts the text back that the server first saw, so a
  refused edit also takes accepted ones with it, although the comment says that
  an edit is rolled back. The undo of an edit that broke Python writes back a
  text read earlier and loses what someone else wrote in between. An edit that
  takes a file over 2 MiB is written and then answered as an error when the
  file is read again: neither the check of Python nor the guard takes place, and
  the edit stays, although the comments on edit_workspace_checked,
  apply_suggestion_workspace and enforce_model_guard say that the file is
  written back; after that only eb_recipe_write, with a text below the limit,
  can change it. A first version over 2 MiB cannot be put back by the guard.
  These are the exceptions in `RefusedMeansUnchanged`. A write that fails, also
  that of an undo or of a revert, leaves the file empty or cut off. A
  module whose text cannot be read before the edit is edited without the
  check, should the read after that succeed. A lost
  sanity entry can be silenced by rebaselining on a text that does not parse or
  has no sanity_check_paths at all, where the comparison finds nothing.

## Theorems

All for every value of the constants that the `ASSUME` of the module allows
(finite or not). The argument is always the same: an inductive invariant
`IInv`, which holds initially, is kept by every step, and implies the property.

- **CampaignLockProofs.** The safety properties speak of two processes; the
  induction needs what one of them knows. `OpenersSeeTheGuard`: without an
  overlap, who has the guard open has the inode the path names now, so two of
  them compete for one lock (`LockTracked`). `UnlinkedForGood` keeps that true
  across `Unlock`. For `NothingLeftBehind`, `SomeoneWillCleanUp` names the
  process that is bound to remove each file. Theorems: TypeCorrect,
  ExclusionTheorem, MetadataTheorem, CleanUpTheorem, LiveHolderTheorem.
- **CampaignProofs.** `CopyAgrees` relates the file to the controller's copy
  (the same record but for evidence and a finished recipe, `Grows`),
  `Progress` says that every job before the current one is in the copy's
  history for this attempt, `RemoteIsPast` that a build without a controller
  belongs to an attempt that is over. Lemmas say once what each helper of the
  record (Log, File, Supersede, ...) does to claims, findings and history.

  The properties about the audit trail need more, `AInv`. Three parts are about
  one record and hold of the file and of the controller's copy, because either
  may be what the next start reads: `Accounted` (each attempt but a running one
  has one terminal event), `Documented` (a broken attempt has one finding, and
  nothing else has), `Backed` (a superseded finding cites a later success). They
  go through the helpers one at a time, by way of `Settled` (a record whose
  attempts have all ended, which is what an attempt may be added to). `Passed`
  is about the run as a whole: each job that the attempt got past has no
  unfinished finding. `LInv` adds `Rungs`: between two writes the copy's
  successes of the attempt count the jobs done, which is what a rung of the
  ladder needs when a claim is written, and recording one adds exactly one.

  Theorems: TypeCorrect, BuildsTheorem, VerifiedTheorem, FreshPathTheorem,
  InFlightTheorem, FindingsTheorem, HistoryTheorem (the history is append-only),
  which no run checks by itself, AttemptsTheorem, FailuresTheorem,
  SupersededTheorem, CompletedTheorem, and LadderTheorem (Campaign implements
  ClaimLadder).
- **LedgerProofs.** `Holders` says for each program point of a writer and of a
  signer what the files look like (a writer is alone; from its write on, its
  plan is in the log; from its flush on, it is on stable storage). `AckFacts`
  and `HeadFacts` are the properties of reports and heads together with what
  their next step needs. Four lemmas (LogKept, LogGrows, LogCut, LogLost) say
  what survives each way in which the log changes, and each action cites the
  one it needs. Theorems: TypeCorrect, AckedTheorem, EventTheorem,
  ExpectedHeadTheorem, HeadsTheorem, HeadAdvancesTheorem, TailsTheorem,
  PromiseTheorem (Ledger implements AppendOnlyLog).
- **LedgerLockProofs.** `SlotClaimed` (who is past the slot has it),
  `RecordTracked` (a process has a record lock exactly as the thread in its
  slot asked for it) and `RecordsAgree` (record locks of two processes are
  compatible) give exclusion between threads of one process and of two.
  Theorems: TypeCorrect, ExclusionTheorem, NotLostTheorem,
  NeverHoldsAndWaitsTheorem, SharedLockTheorem (LedgerLock implements
  SharedLock).

- **RunnerProofs.** Of ProcessTree: what is in `tree` is stopped or dead, and a
  stopped process starts nothing; so, as long as no process was orphaned and
  none started after the last reading, everything alive is below the child by
  processes that the next step finds or has found (`PTInv`). Theorems:
  PTTypeCorrect, GoneTheorem, NotSuspendedTheorem. Of BuildLocks: the lock of a
  module names the run that builds it, or the module is in `stolen`; each lock
  of a run that is being cleaned up is in what it will list or in what it still
  has to look at, but for the two exceptions. Theorems: TypeCorrect,
  ExclusionTheorem, OwnLocksTheorem, OldLocksTheorem.
- **PlanProofs.** Of Shards: lemmas about `Walk` say that it is closed, the least
  such set, and smaller the more is installed; so what a line looks for is in
  its planned closure. `PreludeFirst`: what groups share belongs to the prelude
  and is built by no line; `OwnWork`: a line builds what its group alone
  needs, in the shard of the group. For RootsTheorem, `RootsDone` and
  `NoForeignRoot` follow from the order of lines, since of lines that are left
  one waits for no other where modules can be numbered (`SomeLineMayGo`).
  What a module loads is on the way that builds stop at, or behind an installed
  module that it loads too (`LoadedOnTheWay`).
  Theorems: OneShardTheorem, QuietLoadsTheorem, RootsTheorem.

  Of Batches: roots are looked at in order (`InOrder`), so the owner of a module
  is a root that was looked at before, or the root itself. Hence two groups
  build nothing in common (`GroupsApart`), and no group can be divided
  (`GroupsUndivided`): if a part of the new group were cut off, either the cut
  goes through a group that was met, or it separates the root from the owner of
  a module that it builds. `BinsOfGroups` takes that to the batches. Theorems:
  BatchTypeCorrect, BatchesTheorem.

  Of MergeOrder: of what is left, the one that is reached by the fewest waits
  for none, since what it waits for would be reached by fewer (`NoneIsStuck`).
  So each step takes one whose predecessors are all merged, and what those build
  is installed. Theorems: OrderTypeCorrect, OrderTheorem, ReadyTheorem.
- **TreeCacheProofs.** What a planner has listed belongs to the heads it has
  seen; if that is one head, the pages up to now are that head's. Theorems:
  Invariance, TypeCorrect, EntryTheorem.

- **WorkspaceProofs.** No call bounds the sequence of edits and rebaselines, so
  the invariant says what the two memories mean to each other (`Memories`): they
  are filled by one call, and the text that was rebaselined on has every entry
  of the first one, unless it is one that the comparison cannot read or the
  file was changed while the call looked at it. A rebaseline keeps that, since
  what each of two comparisons finds kept is kept (`KeptTransitive`).
  `Undisturbed` says, place by place, what a call knows about the file when
  nobody else writes it: the text it will put back is the one it started from,
  and is below the size limit (`Places`), so an undo fails only with its write.
  What a call must show when it answers is in one lemma (`ReturnStep`).
  Theorems: TypeCorrect, CleanTheorem, RefusedTheorem, EditedTheorem.

Every safety and action property that a run checks, and every refinement, is
stated by one of these theorems. Only model-checked is liveness
(AttemptsConclude, EveryCallReturns, StopReturns), which needs ENABLED and is
out of the prover's reach. The three properties that a run finds violated are
false, so there is nothing to prove; what is true in their place is
ExclusionTheorem of CampaignLockProofs (for MutualExclusion), ExclusionTheorem
of RunnerProofs (for LiveLockStays), and CleanTheorem (for CleanMeansNothingLost).
Proved and not listed in a run are the type invariants; BuildsBacked and
VerifiedBacked, which ClaimLadder implies, and WriterExcludesAll, which SharedLock
implies; and SomeIsReady (of what is left to be merged, some waits for none),
without which the next step would break MergesInOrder.

What the proofs assume of the constants is in the ASSUME of each module and holds
of the program's inputs: sets of roots and of pull requests are finite, names
are told apart from the marks for "none", sizes are natural numbers.

## What is left out

- CampaignLock: nothing of the lock itself. Its two holders are not composed
  with Campaign: what a lost race does to the state file is the plan's next
  composition.
- Campaign: the checks of a bundle before the state is touched (they refuse and
  change nothing), texts and classes of findings, and how commands are put
  together. Every command is one step that succeeds or fails.
- Ledger: fields, ids, canonical form and keys of records, path checks, and the
  content of signatures. `ts` is taken as different for each line. A loss of
  power leaves an initial part of the lines that were not flushed, which is
  what an append of one small write in order leaves; a file system that keeps a
  later write and loses an earlier one is not modelled. Nor is a cut-back whose
  flush fails and which is followed by a loss of power. One stack. `show` and
  `verify` only read.
- LedgerLock: other code of the process is assumed never to open the lock file
  (the record lock would be dropped when it closes it). Forked children and
  systems other than Unix are not modelled. The two attempts of
  `open_record_lock` are one step, with the outcome of the second.
- ProcessTree: systems without /proc, process numbers that are used again, and
  a kill(1) that fails or reaches only some of the numbers.
- BuildLocks: other programs in the install path, and locks with something in
  them (the clean-up leaves those alone). A run is made once.
- Shards: lines without a known closure (they are planned apart), the sum of
  weights beyond a u64, and the texts of the easystacks. Batches: the reports of
  roots that wait or are installed. MergeOrder: collisions of
  easystack edits, the impact of a single merge, and how the `depends-on` rows
  come about.
- TreeCache: loss of power, and trees that the command line names. That a pull
  request's failed download leaves only its line without a tree, and a commit's
  ends the planner, is in the actions and no property is about it.
- Workspace: calls with review lines, an explicit base, and the numbering of run
  directories. That the undo loses what another writer wrote in between is in
  the actions, and no property is true of it: `RefusedMeansUnchanged` and
  `EditedMeansSound` speak of calls that nobody disturbs. An edit reads and
  writes the file in one step, so what another writer does between those two is
  not seen either. The file is one; calls on several files only share the server.
- Everything else under `src/` computes an answer from files and keeps nothing:
  parsers and emitters of easyconfigs, the lint rules, adapters of other
  indexes, reports, the resolver's provider and the command line, together more
  than nine tenths of the lines. Their decisions are about text, character by
  character, where a model would only repeat the program; a TLA+ version of,
  say, a parser would have to be as long as the parser to say anything.
  PROJECT.json has the reason for each.

## Plan

In this order; a run of lesser weight gives way where two can be one.

1. **Campaign over its lock**: CampaignLock and Campaign composed, to say what
   two controllers do to one state file, and what a rename after the unlink
   makes of it.
2. **Algorithms** that are left: the package closure (`package_closure.rs`), the
   rebuild set, version comparison.
