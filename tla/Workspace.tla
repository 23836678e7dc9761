----------------------------- MODULE Workspace ------------------------------
(***************************************************************************)
(* One recipe that an MCP server reads, edits and lints for an agent       *)
(* (src/mcp.rs, over src/workspace_fs.rs), while something else, an editor *)
(* or a second server, may write it too.  The server handles one call at a *)
(* time, and a call reads and writes the file in steps.                    *)
(*                                                                         *)
(* A recipe is what the calls tell apart: whether it parses, the entries   *)
(* of its sanity_check_paths or that it has none, whether it keeps a       *)
(* template, the names it assigns besides, and whether it is larger than   *)
(* MAX_WORKSPACE_FILE_BYTES.  Any read and any write may fail.  Calls      *)
(* without review lines are modelled: a change on a line that the review   *)
(* is about is allowed.                                                    *)
(***************************************************************************)
EXTENDS Naturals

CONSTANTS
  Texts, \* contents of the recipe
  Valid  \* names that EasyBuild knows

\* The paths of a text without the parameter.
NoPaths == {"no sanity_check_paths"}

ASSUME TextsAssumption ==
  \A t \in Texts :
    /\ t.parses \in BOOLEAN /\ t.template \in BOOLEAN /\ t.large \in BOOLEAN
    /\ t.names \cap {"absent", "unseen"} = {}

\* A record that is no text.
Blank(name) ==
  [parses |-> FALSE, template |-> FALSE, large |-> FALSE, paths |-> NoPaths, names |-> {name}]

\* There is no file, or none that can be read as text.
Absent == Blank("absent")
\* The server has not seen it.
Unseen == Blank("unseen")

VARIABLES
  file,
  python,    \* it is a .py module: the server checks edits of those
  pristine,  \* PRISTINE: the text when the server first saw it
  firstSeen, \* FIRST_SEEN: the same, until a rebaseline
  pc,
  guarded,   \* the call has model_guard
  checked,   \* it undoes an edit that leaves invalid Python
  before,    \* the text it has read: to put back, or to rebaseline on
  start,     \* the text when the call came in
  disturbed, \* someone else has written the file since
  raced,     \* the last rebaseline took another text than it had looked at
  result
memory == <<pristine, firstSeen, raced>>
call == <<guarded, checked, start>>
vars == <<file, python, memory, pc, call, before, disturbed, result>>

Points == {"idle", "write", "before", "suggest", "edit", "replace", "after", "undo",
           "guard", "revert", "lint", "compare", "rebaseline"}

\* "refused": with nothing to replace, or "not applied: ..."; "too large": a
\* text is over the limit; "failed": a read or a write has failed.
Answers == {"none", "written", "edited", "refused", "too large", "failed",
            "clean", "not clean"}

TextsOK ==
  /\ file \in Texts \cup {Absent} /\ before \in Texts \cup {Absent}
  /\ start \in Texts \cup {Absent}
  /\ pristine \in Texts \cup {Absent, Unseen} /\ firstSeen \in Texts \cup {Absent, Unseen}

FlagsOK ==
  /\ python \in BOOLEAN /\ guarded \in BOOLEAN /\ checked \in BOOLEAN
  /\ disturbed \in BOOLEAN /\ raced \in BOOLEAN

TypeOK == TextsOK /\ FlagsOK /\ pc \in Points /\ result \in Answers

Init ==
  /\ file \in Texts \cup {Absent}
  /\ python \in BOOLEAN
  /\ pristine = Unseen /\ firstSeen = Unseen /\ raced = FALSE
  /\ pc = "idle" /\ guarded = FALSE /\ checked = FALSE
  /\ before = Absent /\ start = Absent
  /\ disturbed = FALSE /\ result = "none"

Outside ==
  /\ file' \in (Texts \cup {Absent}) \ {file}
  /\ disturbed' = TRUE
  /\ result' = "none"
  /\ UNCHANGED <<python, memory, pc, call, before>>

-----------------------------------------------------------------------------
(* Reads and writes                                                        *)

\* What read_to_string gives: when it fails, no text.
Reads == {file, Absent}

\* What read_workspace gives, which refuses what is over the limit.
LimitedReads == {IF file.large THEN Absent ELSE file, Absent}

\* write_file empties the file before it writes: when that fails, the file is
\* as it was, or any part of the text is in it.
PartWritten == file' \in Texts \cup {Absent}

Return(answer) == pc' = "idle" /\ result' = answer /\ before' = Absent

Go(where) == pc' = where /\ UNCHANGED <<result, before>>

\* read_workspace(..)? gives up.
ReadFails ==
  /\ UNCHANGED file
  /\ \/ file.large /\ Return("too large")
     \/ Return("failed")

\* write_workspace of a text.
WriteBack(text, answer) ==
  \/ ~text.large /\ file' = text /\ Return(answer)
  \/ ~text.large /\ PartWritten /\ Return("failed")
  \/ text.large /\ UNCHANGED file /\ Return("too large")

-----------------------------------------------------------------------------
(* Calls                                                                   *)

\* remember_first_seen: the first call that names the file keeps its text.
Remember ==
  /\ \E text \in Reads :
       /\ pristine' = IF pristine = Unseen THEN text ELSE pristine
       /\ firstSeen' = IF firstSeen = Unseen THEN text ELSE firstSeen
  /\ raced' = raced

Begin(where) ==
  /\ pc = "idle"
  /\ Remember
  /\ pc' = where
  /\ start' = file
  /\ disturbed' = FALSE
  /\ UNCHANGED <<file, python, before>>

\* eb_recipe_read, and eb_recipe_write with its whole text.
Read == Begin("idle") /\ result' = "none" /\ UNCHANGED <<guarded, checked>>

StartWrite == Begin("write") /\ result' = "none" /\ UNCHANGED <<guarded, checked>>

Write ==
  /\ pc = "write"
  /\ \E text \in Texts : WriteBack(text, "written")
  /\ UNCHANGED <<python, memory, call, disturbed>>

\* Mutant of GuardBase: the guard follows a rebaseline.
GuardsFirstSeen == firstSeen

GuardBase == pristine

\* A guard needs a first version.
BeginEdit(where) ==
  /\ guarded' \in BOOLEAN
  /\ \/ /\ Begin(where) /\ result' = "none"
        /\ guarded' => pristine' # Absent
     \/ /\ Begin("idle") /\ result' = "refused"
        /\ guarded' /\ pristine' = Absent

\* eb_recipe_edit, which checks modules only, and eb_recipe_apply_suggestion,
\* which checks whatever it edits.
StartEdit ==
  \/ BeginEdit("before") /\ checked' = python
  \/ BeginEdit("suggest") /\ checked' = TRUE

Keeps(text) == IF checked /\ text.parses THEN text ELSE Absent

\* edit_workspace_checked keeps the text to put back, when there is one that
\* parses; a module that it cannot read it does not check.
ReadBefore ==
  /\ pc = "before"
  /\ pc' = "edit"
  /\ \E text \in LimitedReads :
       /\ before' = Keeps(text)
       /\ checked' = (checked /\ text # Absent)
  /\ UNCHANGED <<file, python, memory, guarded, start, disturbed, result>>

\* apply_suggestion_workspace gives up.
ReadSuggested ==
  /\ pc = "suggest"
  /\ \/ /\ file \in LimitedReads \ {Absent}
        /\ before' = Keeps(file)
        /\ pc' = "replace"
        /\ UNCHANGED <<file, result>>
     \/ ReadFails
  /\ UNCHANGED <<python, memory, call, disturbed>>

\* The text to replace is not there, or not read.
NotReplaced ==
  \/ UNCHANGED file /\ Return("refused")
  \/ ReadFails

\* The size of the new text is not looked at.
Replaced ==
  \/ file' \in Texts /\ Go("after")
  \/ PartWritten /\ Return("failed")

\* edit_workspace_scoped
Edit ==
  /\ pc = "edit"
  /\ \/ NotReplaced
     \/ file # Absent /\ ~file.large /\ Replaced
  /\ UNCHANGED <<python, memory, call, disturbed>>

\* replace_lines_workspace, which reads any size.
Replace ==
  /\ pc = "replace"
  /\ \/ NotReplaced
     \/ file # Absent /\ Replaced
  /\ UNCHANGED <<python, memory, call, disturbed>>

Proceed == UNCHANGED file /\ IF guarded THEN Go("guard") ELSE Return("edited")

\* The edited text is read again and parsed, when there is one to put back.
CheckPython ==
  /\ pc = "after"
  /\ \/ before = Absent /\ Proceed
     \/ before # Absent /\ ReadFails
     \/ /\ before # Absent /\ file \in LimitedReads \ {Absent}
        /\ IF file.parses THEN Proceed ELSE UNCHANGED file /\ Go("undo")
  /\ UNCHANGED <<python, memory, call, disturbed>>

Undo ==
  /\ pc = "undo"
  /\ WriteBack(before, "refused")
  /\ UNCHANGED <<python, memory, call, disturbed>>

\* enforce_model_guard: what the first version assigns is as it was, and what
\* is new has a name that EasyBuild knows.
Accepts(base, t) ==
  /\ t.paths = base.paths /\ t.template = base.template
  /\ base.names \subseteq t.names
  /\ t.names \ base.names \subseteq Valid

EnforceGuard ==
  /\ pc = "guard"
  /\ \/ ReadFails
     \/ /\ file \in LimitedReads \ {Absent}
        /\ UNCHANGED file
        /\ IF Accepts(GuardBase, file) THEN Return("edited") ELSE Go("revert")
  /\ UNCHANGED <<python, memory, call, disturbed>>

\* Mutant of Reverted: the refused edit stays.
LeftAsIs == file

\* The guard puts the first version back, not the text before the edit.
Reverted == GuardBase

Revert ==
  /\ pc = "revert"
  /\ WriteBack(Reverted, "refused")
  /\ UNCHANGED <<python, memory, call, disturbed>>

-----------------------------------------------------------------------------
(* Lint                                                                    *)

\* EB_SANITY_ENTRY_REMOVED: both texts parse and have the parameter, and an
\* entry is gone.  EB_EASYBLOCK_CHANGED is found in the same place.
EntryLost(base, t) ==
  /\ base.parses /\ t.parses
  /\ base.paths # NoPaths /\ t.paths # NoPaths
  /\ \E x \in base.paths : x \notin t.paths

\* EB_FMT_TEMPLATE_REMOVED, which looks at the lines only.
TemplateLost(base, t) == base.template /\ ~t.template

StartLint ==
  /\ ~python
  /\ \E rebaseline \in BOOLEAN : Begin(IF rebaseline THEN "compare" ELSE "lint")
  /\ result' = "none"
  /\ UNCHANGED <<guarded, checked>>

\* Mutant of CompareBase: the comparison follows earlier rebaselines.
ComparesFirstSeen == firstSeen

CompareBase == pristine

\* A rebaseline is refused while one of DIFF_MODE_ERRORS is outstanding; in a
\* file that is not read there is none.
Compare ==
  /\ pc = "compare"
  /\ \E text \in Reads :
       /\ before' = text
       /\ pc' = IF EntryLost(CompareBase, text) THEN "lint" ELSE "rebaseline"
  /\ UNCHANGED <<file, python, memory, call, disturbed, result>>

\* The text is read once more.
Rebaseline ==
  /\ pc = "rebaseline"
  /\ \E text \in Reads : firstSeen' = text /\ raced' = (text # before)
  /\ Go("lint")
  /\ UNCHANGED <<file, python, pristine, call, disturbed>>

Lint ==
  /\ pc = "lint"
  /\ \E text \in Reads :
       Return(IF /\ text.parses
                 /\ ~EntryLost(firstSeen, text) /\ ~TemplateLost(firstSeen, text)
              THEN "clean" ELSE "not clean")
  /\ UNCHANGED <<file, python, memory, call, disturbed>>

\* The server is killed, and forgets, at any point of a write.
Crash ==
  /\ pc' = "idle" /\ result' = "none"
  /\ pristine' = Unseen /\ firstSeen' = Unseen /\ raced' = FALSE
  /\ IF pc \in {"write", "edit", "replace", "undo", "revert"}
     THEN PartWritten ELSE UNCHANGED file
  /\ guarded' = FALSE /\ checked' = FALSE
  /\ before' = Absent /\ start' = Absent /\ disturbed' = FALSE
  /\ UNCHANGED python

Next ==
  \/ Outside \/ Crash
  \/ Read \/ StartWrite \/ Write
  \/ StartEdit \/ ReadBefore \/ ReadSuggested \/ Edit \/ Replace
  \/ CheckPython \/ Undo \/ EnforceGuard \/ Revert
  \/ StartLint \/ Compare \/ Rebaseline \/ Lint

Spec == Init /\ [][Next]_vars

-----------------------------------------------------------------------------
(* Properties                                                              *)

\* What src/mcp.rs says of PRISTINE: a lost entry or a removed template
\* cannot be silenced by rebaselining.
CleanMeansNothingLost ==
  result = "clean" /\ ~raced => ~EntryLost(pristine, file) /\ ~TemplateLost(pristine, file)

\* A comparison with this text says something.
Comparable(t) == t.parses /\ t.paths # NoPaths

\* However calls follow each other, a clean file has lost no entry since the
\* server first saw it, while the text that was rebaselined on parses and has
\* the parameter, and is the one that was looked at.
CleanMeansKept ==
  result = "clean" /\ Comparable(firstSeen) /\ ~raced => ~EntryLost(pristine, file)

\* Unless someone else wrote the file in the meantime: an edit that is answered
\* as refused is not there (the file is as it was, or after a guard as it was
\* first seen), and one that is answered by the size limit is there only if it
\* went over the limit itself, or if the guard's version is over it.
RefusedMeansUnchanged ==
  ~disturbed =>
    /\ result = "refused" => file = start \/ (guarded /\ file = pristine)
    /\ result = "too large" =>
         file = start \/ file.large \/ (guarded /\ pristine.large)

\* An edit that is accepted has not broken Python, if the text before it was
\* read, and under a guard the file assigns what it did when it was first seen,
\* whatever was rebaselined on.
EditedMeansSound ==
  result = "edited" /\ ~disturbed =>
    /\ checked /\ start.parses => file.parses
    /\ guarded => Accepts(pristine, file)
=============================================================================
