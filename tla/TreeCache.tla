----------------------------- MODULE TreeCache ------------------------------
(***************************************************************************)
(* The cache of easyconfig trees that the planners of build lists fill     *)
(* (src/shard_trees.rs, and pull_head_easyconfigs in src/pr_overlap.rs).   *)
(*                                                                         *)
(* A planner wants the tree of a commit, which is one archive, or that of  *)
(* a pull request, which is its head, the list of the files it changes, a  *)
(* page at a time, and then the text of each at the head that was read.    *)
(* Trees that the command line names are not looked for here.              *)
(***************************************************************************)
EXTENDS Integers, Sequences, FiniteSets

CONSTANTS
  Planners,
  Commits,  \* commits that lines name
  Heads,    \* commits that the pull request may be at
  Files,
  Pages,    \* per head, the pages of the list of changed files
  Removed,  \* per head, the listed files that it removes or that are not .eb
  Text,     \* per head or commit, the easyconfigs that exist there
  PageSize, \* files on a full page
  Limit     \* GITHUB_PR_FILE_LIMIT

None == "none"

ASSUME ConstantsAssumption ==
  /\ Commits \cap Heads = {}
  /\ Pages \in [Heads -> Seq(SUBSET Files)]
  /\ \A h \in Heads : \A k \in 1..Len(Pages[h]) :
       /\ Cardinality(Pages[h][k]) \in Nat
       /\ k < Len(Pages[h]) => Cardinality(Pages[h][k]) = PageSize
  /\ Removed \in [Heads -> SUBSET Files]
  /\ Text \in [Commits \cup Heads -> SUBSET Files]
  /\ PageSize \in Nat \ {0} /\ Limit \in Nat

Keys == Commits \cup Heads

\* No entry.
Missing == [files |-> {}, seen |-> {}]

VARIABLES
  head,  \* where the pull request is
  cache, \* per key the entry: its files, and the heads it was made from
  pc, key,
  page,  \* the page of the list to read next
  count, \* how many files have been listed
  seen,  \* the heads at which the pull request was when it was read
  files, \* the files to write
  tmp    \* the temporary directory
planner == <<pc, key, page, count, seen, files, tmp>>
vars == <<head, cache, planner>>

Init ==
  /\ head \in Heads
  /\ cache = [k \in Keys |-> Missing]
  /\ pc = [p \in Planners |-> "idle"]
  /\ key = [p \in Planners |-> None]
  /\ page = [p \in Planners |-> 1]
  /\ count = [p \in Planners |-> 0]
  /\ seen = [p \in Planners |-> {}]
  /\ files = [p \in Planners |-> {}]
  /\ tmp = [p \in Planners |-> {}]

Goto(p, where) == pc' = [pc EXCEPT ![p] = where]

\* The pull request moves, forwards or back.
Push ==
  /\ head' \in Heads \ {head}
  /\ UNCHANGED <<cache, planner>>

-----------------------------------------------------------------------------
(* commit_tree                                                             *)

Cached(k) == cache[k] # Missing

LookForCommit(p) ==
  /\ pc[p] = "idle"
  /\ \E c \in Commits :
       /\ key' = [key EXCEPT ![p] = c]
       /\ Goto(p, IF Cached(c) THEN "found" ELSE "download")
  /\ UNCHANGED <<head, cache, page, count, seen, files, tmp>>

\* Without an HTTP status the planner gives up and writes nothing; with
\* another than 200 only the line is left without a tree.
Download(p) ==
  /\ pc[p] = "download"
  /\ \/ Goto(p, "stop") /\ UNCHANGED <<seen, files>>
     \/ Goto(p, "failed") /\ UNCHANGED <<seen, files>>
     \/ /\ Goto(p, "write")
        /\ seen' = [seen EXCEPT ![p] = {key[p]}]
        /\ files' = [files EXCEPT ![p] = Text[key[p]]]
  /\ UNCHANGED <<head, cache, key, page, count, tmp>>

-----------------------------------------------------------------------------
(* pr_tree, pull_head_easyconfigs and list_pull_files                      *)

ReadHead(p) ==
  /\ pc[p] = "idle"
  /\ key' = [key EXCEPT ![p] = head]
  /\ seen' = [seen EXCEPT ![p] = {head}]
  /\ Goto(p, "list")
  /\ UNCHANGED <<head, cache, page, count, files, tmp>>

\* Any request may fail: the line is left without a tree.
RequestFails(p) ==
  /\ pc[p] \in {"idle", "list", "texts"}
  /\ Goto(p, "failed")
  /\ UNCHANGED <<head, cache, key, page, count, seen, files, tmp>>

\* The page that is served is that of where the pull request is now.
Page(k) == IF k <= Len(Pages[head]) THEN Pages[head][k] ELSE {}
HasNext(k) == k < Len(Pages[head])

Listed(p) == count[p] + Cardinality(Page(page[p]))

\* The list stops at the limit of GitHub.
Truncated(p) ==
  \/ Listed(p) > Limit
  \/ Listed(p) = Limit /\ Cardinality(Page(page[p])) = PageSize /\ HasNext(page[p])

\* file_list_step
Done(p) ==
  Cardinality(Page(page[p])) < PageSize \/ ~HasNext(page[p])

\* Mutant of PageStep: what fits below the limit is the list.
StopAtLimit(p) == IF Truncated(p) \/ Done(p) THEN "texts" ELSE "list"

PageStep(p) ==
  IF Truncated(p) THEN "failed" ELSE IF Done(p) THEN "texts" ELSE "list"

ReadPage(p) ==
  /\ pc[p] = "list"
  /\ seen' = [seen EXCEPT ![p] = @ \cup {head}]
  /\ count' = [count EXCEPT ![p] = Listed(p)]
  /\ files' = [files EXCEPT ![p] = @ \cup (Page(page[p]) \ Removed[head])]
  /\ page' = [page EXCEPT ![p] = @ + 1]
  /\ Goto(p, PageStep(p))
  /\ UNCHANGED <<head, cache, key, tmp>>

\* Mutant of TextsAt: the text is read where the pull request is now.
TextsNow(p) == Text[head]

TextsAt(p) == Text[key[p]]

\* The text of each file at the head that was read, then the lookup.
ReadTexts(p) ==
  /\ pc[p] = "texts"
  /\ Goto(p, IF ~(files[p] \subseteq TextsAt(p)) THEN "failed"
             ELSE IF Cached(key[p]) THEN "found" ELSE "write")
  /\ UNCHANGED <<head, cache, key, page, count, seen, files, tmp>>

-----------------------------------------------------------------------------
(* fill                                                                    *)

Write(p) ==
  /\ pc[p] = "write"
  /\ \/ \E f \in files[p] \ tmp[p] :
          /\ tmp' = [tmp EXCEPT ![p] = @ \cup {f}]
          /\ UNCHANGED pc
     \/ Goto(p, "failed") /\ UNCHANGED tmp
  /\ UNCHANGED <<head, cache, key, page, count, seen, files>>

Written(p) == pc[p] = "write" /\ tmp[p] = files[p]

\* A rename does not replace a directory that has files.
MayReplace(k) == ~Cached(k)

Rename(p) ==
  /\ Written(p) /\ files[p] # {} /\ MayReplace(key[p])
  /\ cache' = [cache EXCEPT ![key[p]] = [files |-> tmp[p], seen |-> seen[p]]]
  /\ tmp' = [tmp EXCEPT ![p] = {}]
  /\ Goto(p, "found")
  /\ UNCHANGED <<head, key, page, count, seen, files>>

\* Another planner was first, or the rename or the whole tree is no good.
NotRenamed(p) ==
  /\ Written(p)
  /\ Goto(p, IF files[p] # {} /\ Cached(key[p]) THEN "found" ELSE "failed")
  /\ UNCHANGED <<head, cache, key, page, count, seen, files, tmp>>

\* The temporary directory is removed and the line has its answer, or the
\* planner dies: then the directory stays, under a name nobody looks up.
Return(p) ==
  /\ pc[p] # "idle"
  /\ pc' = [pc EXCEPT ![p] = "idle"]
  /\ key' = [key EXCEPT ![p] = None]
  /\ page' = [page EXCEPT ![p] = 1]
  /\ count' = [count EXCEPT ![p] = 0]
  /\ seen' = [seen EXCEPT ![p] = {}]
  /\ files' = [files EXCEPT ![p] = {}]
  /\ tmp' = [tmp EXCEPT ![p] = {}]
  /\ UNCHANGED <<head, cache>>

Answer(p) == pc[p] \in {"found", "failed", "stop"} /\ Return(p)
Crash(p) == pc[p] \notin {"found", "failed", "stop"} /\ Return(p)

Next ==
  \/ Push
  \/ \E p \in Planners :
       \/ LookForCommit(p) \/ Download(p)
       \/ ReadHead(p) \/ RequestFails(p) \/ ReadPage(p) \/ ReadTexts(p)
       \/ Write(p) \/ Rename(p) \/ NotRenamed(p) \/ Answer(p) \/ Crash(p)

Spec == Init /\ [][Next]_vars

-----------------------------------------------------------------------------
(* Properties                                                              *)

\* All that a commit brings.
Whole(k) ==
  IF k \in Commits THEN Text[k]
  ELSE (UNION {Pages[k][n] : n \in 1..Len(Pages[k])}) \ Removed[k]

Entries == {k \in Keys : Cached(k)}

TypeOK ==
  /\ head \in Heads
  /\ cache \in [Keys -> [files : SUBSET Files, seen : SUBSET Keys]]
  /\ pc \in [Planners -> {"idle", "download", "list", "texts", "write",
                          "found", "failed", "stop"}]
  /\ key \in [Planners -> Keys \cup {None}]
  /\ page \in [Planners -> Nat \ {0}] /\ count \in [Planners -> Nat]
  /\ seen \in [Planners -> SUBSET Keys]
  /\ files \in [Planners -> SUBSET Files] /\ tmp \in [Planners -> SUBSET Files]

\* An entry has no file of another commit, whoever else fills the cache, and
\* whatever stops a planner: and it is whole if the pull request stayed at
\* this commit when it was read.
EntryIsItsCommit ==
  \A k \in Entries :
    /\ cache[k].files \subseteq Text[k]
    /\ cache[k].seen = {k} => cache[k].files = Whole(k)
=============================================================================
