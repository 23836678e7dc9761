------------------------------ MODULE Campaign ------------------------------
(***************************************************************************)
(* One build campaign (src/campaign.rs): run_campaign, claim_finding and   *)
(* resolve_finding working on one persisted state file, with a controller  *)
(* that can die between any two of its writes and a build that can outlive *)
(* its controller.                                                         *)
(*                                                                         *)
(* `disk` is the CampaignState in the state file, `mem` the copy a         *)
(* controller holds.  The two differ only between a change made in memory  *)
(* and the next write_state.  All of run_campaign, and each claim or       *)
(* resolution, runs under the campaign lock, so there is at most one       *)
(* controller and no claim while it runs; CampaignLock is about that lock. *)
(* The names of recipes and profiles, and the class, text and command of   *)
(* a finding, are abstract: routing by class is not modelled here.         *)
(***************************************************************************)
EXTENDS Naturals, Sequences, FiniteSets

CONSTANTS
  Bundles,     \* bundle directories of one package name and version
  Names,       \* recipe paths and profile names
  recipes,     \* recipes[b]: the recipes of bundle b, in build order
  checks,      \* checks[b]: for each verification command, its profile's name
  Malformed,   \* bundles whose manifest has no readable profile or toolchain
  Owners,      \* workers that claim and resolve findings
  None,        \* no name, owner or bundle
  MaxAttempts  \* bound on the runs of one campaign (u32 in the code)

ASSUME CampaignAssumption ==
  /\ recipes \in [Bundles -> Seq(Names)]
  /\ checks \in [Bundles -> Seq(Names)]
  /\ Malformed \subseteq Bundles
  /\ MaxAttempts \in Nat
  /\ None \notin Names \union Owners \union Bundles

VARIABLES
  disk,     \* the record in the state file
  mem,      \* the controller's copy; equal to disk while nobody runs
  pc,       \* where the controller is: idle, prepare, build, building, verify
  job,      \* position in the recipes, then in the checks
  request,  \* the bundle of the latest run
  remote    \* attempts whose build may still be running on the target although
            \* its controller is gone
vars == <<disk, mem, pc, job, request, remote>>

-----------------------------------------------------------------------------
(* The record                                                              *)

Statuses == {"absent", "running", "failed", "completed"}
Stages == {"preflight", "stage", "build", "verify", "campaign"}
Kinds == {"started", "tmpdir", "build", "verify", "interrupted", "failed", "completed"}
Terminal == {"interrupted", "failed", "completed"}
Unfinished == {"open", "in-progress"}

\* A finding's id is attempt:N:finding:M; M is its position, so (attempt, M)
\* names it.  `job` is the position of the command that failed, `evidence` the
\* attempt a resolution cites, 0 when it cites none.
Finding ==
  [attempt : Nat, stage : Stages, recipe : Names \union {None}, job : Nat,
   status : Unfinished \union {"resolved", "superseded"},
   owner : Owners \union {None}, evidence : Nat]

\* `kind` abstracts an event's status and detail text.
Event == [attempt : Nat, kind : Kinds, recipe : Names \union {None}, job : Nat]

Record ==
  [bundle : Bundles \union {None}, status : Statuses, attempts : Nat,
   builds : BOOLEAN, verified : BOOLEAN, current : Names \union {None},
   findings : Seq(Finding), history : Seq(Event)]

NoRecord ==
  [bundle |-> None, status |-> "absent", attempts |-> 0, builds |-> FALSE,
   verified |-> FALSE, current |-> None, findings |-> <<>>, history |-> <<>>]

Log(s, kind, recipe, j) ==
  [s EXCEPT !.history =
     Append(@, [attempt |-> s.attempts, kind |-> kind, recipe |-> recipe, job |-> j])]

File(s, stage, recipe, j, status, evidence) ==
  [s EXCEPT !.findings =
     Append(@, [attempt |-> s.attempts, stage |-> stage, recipe |-> recipe, job |-> j,
                status |-> status, owner |-> None, evidence |-> evidence])]

\* A typed failure: an open finding, status Failed, no recipe in flight.
RecordFailure(s, stage, recipe, j) ==
  Log([File(s, stage, recipe, j, "open", 0) EXCEPT !.status = "failed", !.current = None],
      "failed", recipe, j)

\* The resolution cites the attempt that succeeded.
Superseded(f, a) == [f EXCEPT !.status = "superseded", !.evidence = a]

\* Mutants of Supersede: the recipe is not compared; claimed findings are kept.
SupersedeStage(s, stage, recipe) ==
  [s EXCEPT !.findings = [k \in DOMAIN s.findings |->
     IF s.findings[k].stage = stage /\ s.findings[k].status \in Unfinished
       THEN Superseded(s.findings[k], s.attempts)
       ELSE s.findings[k]]]
SupersedeOpenOnly(s, stage, recipe) ==
  [s EXCEPT !.findings = [k \in DOMAIN s.findings |->
     IF s.findings[k].stage = stage /\ s.findings[k].recipe = recipe /\ s.findings[k].status = "open"
       THEN Superseded(s.findings[k], s.attempts)
       ELSE s.findings[k]]]

\* supersede_findings: unfinished findings of this stage and recipe are closed.
Supersede(s, stage, recipe) ==
  [s EXCEPT !.findings = [k \in DOMAIN s.findings |->
     IF /\ s.findings[k].stage = stage
        /\ s.findings[k].recipe = recipe
        /\ s.findings[k].status \in Unfinished
       THEN Superseded(s.findings[k], s.attempts)
       ELSE s.findings[k]]]

\* A stage command of run_campaign succeeded.
RecordSuccess(s, stage, recipe, j) == Supersede(Log(s, stage, recipe, j), stage, recipe)

\* Mutants of RecordInterrupted: nothing is recorded; only the event is.
ForgetInterruption(s) == s
LogInterruption(s) ==
  IF s.status # "running" THEN s
  ELSE Log([s EXCEPT !.current = None], "interrupted", s.current, 0)

\* record_interrupted_attempt: the state file says Running although nobody
\* holds the lock, so the last controller died or returned early.
RecordInterrupted(s) ==
  IF s.status # "running" THEN s
  ELSE Log([File(s, "campaign", s.current, 0, "superseded", 0)
              EXCEPT !.current = None], "interrupted", s.current, 0)

\* A new state file names the requested bundle; an existing one is taken over
\* when package and version match, whatever bundle it names.
Loaded(b) == IF disk.status = "absent" THEN [disk EXCEPT !.bundle = b] ELSE disk

\* Mutants of NewAttempt: the claims of the last attempt are kept; the number of
\* an interrupted attempt is used again.
KeepClaims(s) == [s EXCEPT !.attempts = @ + 1, !.status = "running"]
ReuseAttempt(s) == [s EXCEPT !.attempts = IF s.status = "running" THEN @ ELSE @ + 1,
                             !.status = "running", !.builds = FALSE, !.verified = FALSE]

\* The attempt is counted and both rungs are withdrawn before it proves them.
NewAttempt(s) == [s EXCEPT !.attempts = @ + 1, !.status = "running",
                           !.builds = FALSE, !.verified = FALSE]

-----------------------------------------------------------------------------
(* run_campaign                                                            *)

Init ==
  /\ disk = NoRecord /\ mem = NoRecord
  /\ pc = "idle" /\ job = 1
  /\ request = None
  /\ remote = {}

\* load_campaign_recipes finds the recipes, in the declared order when there is
\* one; a bundle without recipes is refused before the state file is touched.
Runnable(b) == recipes[b] # <<>>

\* write_state replaces the file by a rename, so it is written as a whole.
Write(s) == disk' = s /\ mem' = s

\* Lock, load, record an interruption, count the attempt, reset the claims and
\* persist all of it before anything runs on the target.
Start(b) ==
  /\ pc = "idle" /\ Runnable(b)
  /\ disk.attempts < MaxAttempts
  /\ Write(Log(NewAttempt(RecordInterrupted(Loaded(b))), "started", None, 0))
  /\ pc' = "prepare" /\ job' = 1
  /\ request' = b
  /\ UNCHANGED remote

\* run_campaign returns after a typed failure.
Fail(stage, recipe, j) ==
  /\ Write(RecordFailure(mem, stage, recipe, j))
  /\ pc' = "idle"
  /\ UNCHANGED <<job, request, remote>>

\* The packaging gate refuses one of the recipes.
PreflightFails ==
  /\ pc = "prepare"
  /\ \E i \in DOMAIN recipes[request] : Fail("preflight", recipes[request][i], i)

\* stage_bundle cannot bring the bundle to the target.
StageFails ==
  /\ pc = "prepare"
  /\ Fail("stage", None, 0)

\* The EASYBUILD_TMPDIR check cannot start or exits with an error.
TmpdirFails ==
  /\ pc = "prepare"
  /\ Fail("preflight", None, 0)

\* The preparations succeed; the event stays in memory until the next write.
TmpdirOk ==
  /\ pc = "prepare"
  /\ mem' = Log(mem, "tmpdir", None, 0)
  /\ pc' = "build"
  /\ UNCHANGED <<disk, job, request, remote>>

\* Mutant of BeginRecipe: the recipe in flight is not written.
BeginInMemory ==
  /\ pc = "build"
  /\ job <= Len(recipes[request])
  /\ mem' = [mem EXCEPT !.current = recipes[request][job]]
  /\ pc' = "building"
  /\ UNCHANGED <<disk, job, request, remote>>

\* The recipe is made visible as the one in flight, then its build is launched
\* into the install path named after the attempt.
BeginRecipe ==
  /\ pc = "build"
  /\ job <= Len(recipes[request])
  /\ Write([mem EXCEPT !.current = recipes[request][job]])
  /\ pc' = "building"
  /\ UNCHANGED <<job, request, remote>>

\* The build command cannot start or exits with an error.
BuildFails ==
  /\ pc = "building"
  /\ Fail("build", recipes[request][job], job)

\* The build command succeeds; nothing is written before the next recipe.
BuildOk ==
  /\ pc = "building"
  /\ mem' = RecordSuccess(mem, "build", recipes[request][job], job)
  /\ pc' = "build" /\ job' = job + 1
  /\ UNCHANGED <<disk, request, remote>>

\* Every recipe built: the claim is persisted before verification starts.
ClaimBuilds ==
  /\ pc = "build"
  /\ job > Len(recipes[request])
  /\ Write([mem EXCEPT !.current = None, !.builds = TRUE])
  /\ pc' = "verify" /\ job' = 1
  /\ UNCHANGED <<request, remote>>

\* verification_profiles or module_name refuses the manifest before any command
\* is run, also when it declares none (module_name is called for every profile):
\* run_campaign returns with `?`, and the state file keeps saying Running.
RefuseManifest ==
  /\ pc = "verify" /\ request \in Malformed
  /\ mem' = disk
  /\ pc' = "idle"
  /\ UNCHANGED <<disk, job, request, remote>>

\* The manifest is usable and there is a command left to run.
MayVerify == pc = "verify" /\ request \notin Malformed /\ job <= Len(checks[request])

\* A verification command cannot start or exits with an error.
VerifyFails ==
  /\ MayVerify
  /\ Fail("verify", checks[request][job], job)

\* A verification command succeeds; this write follows each command.
VerifyOk ==
  /\ MayVerify
  /\ Write(RecordSuccess(mem, "verify", checks[request][job], job))
  /\ job' = job + 1
  /\ UNCHANGED <<pc, request, remote>>

HasChecks(b) == Len(checks[b]) > 0

\* The campaign completes; without verification commands it stays unverified.
Complete ==
  /\ pc = "verify" /\ request \notin Malformed
  /\ job > Len(checks[request])
  /\ Write(Log([mem EXCEPT !.status = "completed", !.verified = HasChecks(request)],
               "completed", None, 0))
  /\ pc' = "idle"
  /\ UNCHANGED <<job, request, remote>>

\* The controller dies, or one of its writes fails: what was only in memory is
\* lost, the lock is released, and a launched build may go on by itself.
Crash ==
  /\ pc # "idle"
  /\ mem' = disk
  /\ pc' = "idle"
  /\ remote' = IF pc = "building" THEN remote \union {mem.attempts} ELSE remote
  /\ UNCHANGED <<disk, job, request>>

-----------------------------------------------------------------------------
(* claim_finding and resolve_finding                                       *)

Claimed(f, o) == [f EXCEPT !.status = "in-progress", !.owner = o]
Resolved(f) == [f EXCEPT !.status = "resolved"]

\* Mutant of Claim: another owner's finding is taken over.
TakeOver(k, o) ==
  /\ pc = "idle"
  /\ disk.findings[k].status \in Unfinished
  /\ Write([disk EXCEPT !.findings[k] = Claimed(@, o)])
  /\ UNCHANGED <<pc, job, request, remote>>

\* Claiming again by the same owner rewrites the same file: no step of its own.
Claim(k, o) ==
  /\ pc = "idle"
  /\ disk.findings[k].status = "open"
  /\ Write([disk EXCEPT !.findings[k] = Claimed(@, o)])
  /\ UNCHANGED <<pc, job, request, remote>>

\* Only the owner closes a finding, and only while it is in progress.
Resolve(k, o) ==
  /\ pc = "idle"
  /\ disk.findings[k].status = "in-progress"
  /\ disk.findings[k].owner = o
  /\ Write([disk EXCEPT !.findings[k] = Resolved(@)])
  /\ UNCHANGED <<pc, job, request, remote>>

-----------------------------------------------------------------------------
(* The specification                                                       *)

\* What a live controller does next, once its command on the target returned.
Controller ==
  \/ PreflightFails \/ StageFails \/ TmpdirFails \/ TmpdirOk
  \/ BeginRecipe \/ BuildFails \/ BuildOk \/ ClaimBuilds
  \/ RefuseManifest \/ VerifyFails \/ VerifyOk \/ Complete

Retry == \E b \in Bundles : Start(b)

Repair == \E k \in DOMAIN disk.findings, o \in Owners : Claim(k, o) \/ Resolve(k, o)

Next == Retry \/ Controller \/ Crash \/ Repair

Spec == Init /\ [][Next]_vars

\* Liveness assumes that every command launched on the target returns (execute
\* waits for it) and that the operator goes on retrying.
FairSpec == Spec /\ WF_vars(Controller) /\ WF_vars(Retry)

-----------------------------------------------------------------------------
(* Properties                                                              *)

\* An open finding has no owner, one in progress or resolved has one.
OwnersNamed(s) ==
  \A k \in DOMAIN s.findings :
    /\ s.findings[k].status = "open" => s.findings[k].owner = None
    /\ s.findings[k].status \in {"in-progress", "resolved"} => s.findings[k].owner # None

TypeOK ==
  /\ disk \in Record /\ mem \in Record
  /\ pc \in {"idle", "prepare", "build", "building", "verify"}
  /\ job \in Nat \ {0}
  /\ request \in Bundles \union {None}
  /\ remote \subseteq Nat
  /\ pc # "idle" => request # None
  /\ OwnersNamed(disk) /\ OwnersNamed(mem)

\* The record shows that the j-th job of this kind succeeded in attempt a.
Shows(s, a, kind, recipe, j) ==
  \E e \in DOMAIN s.history :
    s.history[e] = [attempt |-> a, kind |-> kind, recipe |-> recipe, job |-> j]

Concludes(e, a) == disk.history[e].attempt = a /\ disk.history[e].kind \in Terminal
Concluded(a) == \E e \in DOMAIN disk.history : Concludes(e, a)

\* The `builds` rung is never ahead of its evidence: whenever the state file
\* claims it, its history shows a success of every recipe of the bundle that
\* was run, in this very attempt, and not in an earlier one.
BuildsBacked ==
  disk.builds => \A i \in DOMAIN recipes[request] :
                   Shows(disk, disk.attempts, "build", recipes[request][i], i)

\* The `binary_verified` rung stands on the one below, on at least one declared
\* command, and on a success of every declared command in this attempt.
VerifiedBacked ==
  disk.verified =>
    /\ disk.builds /\ disk.status = "completed" /\ checks[request] # <<>>
    /\ \A i \in DOMAIN checks[request] :
         Shows(disk, disk.attempts, "verify", checks[request][i], i)

\* No attempt gets lost and none ends twice: every attempt but a running one
\* has exactly one terminal event, also after crashes of the controller.
AttemptsAccounted ==
  /\ \A a \in 1..disk.attempts :
       Concluded(a) <=> ~(a = disk.attempts /\ disk.status = "running")
  /\ \A a \in 1..disk.attempts, d, e \in DOMAIN disk.history :
       Concludes(d, a) /\ Concludes(e, a) => d = e

\* An attempt has a finding exactly when it failed or was interrupted, and
\* never two: the operator works on one typed failure per attempt.
FailuresHaveFindings ==
  /\ \A a \in 1..disk.attempts :
       (\E k \in DOMAIN disk.findings : disk.findings[k].attempt = a) <=>
       (\E e \in DOMAIN disk.history :
          Concludes(e, a) /\ disk.history[e].kind # "completed")
  /\ \A j, k \in DOMAIN disk.findings :
       disk.findings[j].attempt = disk.findings[k].attempt => j = k

\* A superseded build or verification finding cites a later attempt, and the
\* history shows that this attempt got past the recipe or profile.
SupersededBacked ==
  \A k \in DOMAIN disk.findings :
    LET f == disk.findings[k] IN
    f.status = "superseded" /\ f.stage \in {"build", "verify"} =>
      /\ f.evidence > f.attempt
      /\ \E j \in 1..disk.attempts + Len(disk.history) :
           Shows(disk, f.evidence, f.stage, f.recipe, j)

\* A completed campaign has no unfinished build or verification finding about
\* anything its last run worked on, whoever claimed it in the meantime.
CompletedClosesFindings ==
  disk.status = "completed" =>
    \A k \in DOMAIN disk.findings :
      LET f == disk.findings[k] IN
      f.status \in Unfinished =>
        /\ f.stage = "build" => \A i \in DOMAIN recipes[request] : recipes[request][i] # f.recipe
        /\ f.stage = "verify" => \A i \in DOMAIN checks[request] : checks[request][i] # f.recipe

\* A build never installs into the path of another run: the build of a dead
\* controller may still be writing to the path named after its attempt.
FreshInstallPath ==
  pc = "building" => mem.attempts \notin remote

\* While a build of the running attempt is in flight, or was when its
\* controller died, the state file names its recipe to an observer.
InFlightIsNamed ==
  disk.status = "running" /\ (pc = "building" \/ disk.attempts \in remote) =>
    /\ disk.current # None
    /\ pc = "building" => disk.current = recipes[request][job]

\* Each finding of F is still in G under its number.  What failed is as it was,
\* an owner keeps the finding, and a closed finding is as it was closed.
OnlyClose(F, G) ==
  \A k \in DOMAIN F :
    /\ k \in DOMAIN G
    /\ <<F[k].attempt, F[k].stage, F[k].recipe, F[k].job>> =
         <<G[k].attempt, G[k].stage, G[k].recipe, G[k].job>>
    /\ F[k].owner # None => G[k].owner = F[k].owner
    /\ F[k].status \notin Unfinished => G[k] = F[k]

\* Findings are an audit trail: none is dropped or renumbered, what failed is
\* never rewritten, an owner keeps a finding, and a closed finding stays as it
\* was closed, through claims, resolutions, retries and crashes.
FindingsOnlyClose == [][OnlyClose(disk.findings, disk'.findings)]_vars

\* The evidence of the current attempt: its successful commands of this kind.
Successes(s, kind) ==
  {e \in DOMAIN s.history : s.history[e].attempt = s.attempts /\ s.history[e].kind = kind}

Ladder == INSTANCE ClaimLadder WITH
  attempt <- disk.attempts,
  bundle <- request,
  status <- disk.status,
  built <- Cardinality(Successes(disk, "build")),
  checked <- Cardinality(Successes(disk, "verify")),
  builds <- disk.builds,
  verified <- disk.verified

\* The campaign implements the ladder: a reader of the state file sees no step
\* that the ladder does not allow, whatever a controller has only in memory.
ImplementsLadder == Ladder!Spec

\* However often controllers die, as long as the campaign is retried every
\* attempt gets its terminal event: again and again all attempts so far have
\* theirs.  The bound allows no retry of the last one, which is left out.
AttemptsConclude ==
  []<>(\A a \in 1..(MaxAttempts - 1) : a <= disk.attempts => Concluded(a))
=============================================================================
