-------------------------- MODULE WorkspaceProofs --------------------------
(***************************************************************************)
(* Proofs about Workspace, for every set of texts and of known names.      *)
(***************************************************************************)
EXTENDS Workspace, TLAPS

-----------------------------------------------------------------------------
(* Texts                                                                   *)

LEMMA TextsAreNeither ==
  /\ Absent \notin Texts /\ Unseen \notin Texts /\ Absent # Unseen
  /\ ~Absent.parses /\ ~Unseen.parses /\ ~Absent.large
<1>1. Absent.names = {"absent"} /\ Unseen.names = {"unseen"}
  BY DEF Absent, Unseen, Blank
<1>2. "absent" # "unseen"
  OBVIOUS
<1>3. Absent \notin Texts /\ Unseen \notin Texts
  BY <1>1, TextsAssumption
<1>4. Absent # Unseen
  BY <1>1, <1>2
<1>5. ~Absent.parses /\ ~Unseen.parses /\ ~Absent.large
  BY DEF Absent, Unseen, Blank
<1> QED BY <1>3, <1>4, <1>5

\* No entry is lost twice over: what each of two steps keeps is kept.
LEMMA KeptTransitive ==
  ASSUME NEW r, NEW s, NEW t, Comparable(s), ~EntryLost(r, s), ~EntryLost(s, t)
  PROVE  ~EntryLost(r, t)
BY DEF EntryLost, Comparable

LEMMA NothingLostToItself == \A t : ~EntryLost(t, t)
BY DEF EntryLost

-----------------------------------------------------------------------------
(* The inductive invariant                                                 *)

\* PRISTINE and FIRST_SEEN are filled by the same call, before it does anything,
\* and the second has every entry of the first unless a rebaseline raced.
Memories ==
  /\ pristine = Unseen <=> firstSeen = Unseen
  /\ pc # "idle" => pristine # Unseen
  /\ ~raced /\ Comparable(firstSeen) => ~EntryLost(pristine, firstSeen)
  /\ pc = "rebaseline" => ~EntryLost(pristine, before)

\* Where nobody interferes, a call knows the text it started from until it
\* writes, keeps it as long as it may have to put it back, and has checked the
\* text that it guards.
Undisturbed ==
  ~disturbed =>
    /\ pc \in {"write", "before", "suggest", "edit", "replace"} => file = start
    /\ pc \in {"edit", "replace", "after", "undo"} =>
         before = IF checked /\ start.parses THEN start ELSE Absent
    /\ pc \in {"after", "undo", "guard", "revert"} => file \in Texts
    /\ pc = "guard" => (checked /\ start.parses => file.parses)

\* What the places of a call mean.
Places ==
  /\ pc # "idle" => result = "none"
  /\ pc \in {"guard", "revert"} => guarded
  /\ pc = "undo" => before # Absent
  /\ pc \in {"edit", "replace", "after", "undo"} => ~before.large

IInv ==
  /\ TypeOK
  /\ Memories
  /\ Undisturbed
  /\ Places
  /\ CleanMeansKept
  /\ RefusedMeansUnchanged
  /\ EditedMeansSound

LEMMA InitIInv == Init => IInv
<1> SUFFICES ASSUME Init PROVE IInv
  OBVIOUS
<1> USE DEF Init
<1>1. TypeOK
  BY DEF TypeOK, TextsOK, FlagsOK, Points, Answers
<1>2. Memories
  BY TextsAreNeither DEF Memories, Comparable
<1>3. Undisturbed /\ Places
  BY DEF Undisturbed, Places
<1>4. CleanMeansKept /\ RefusedMeansUnchanged /\ EditedMeansSound
  BY DEF CleanMeansKept, RefusedMeansUnchanged, EditedMeansSound
<1> QED BY <1>1, <1>2, <1>3, <1>4 DEF IInv

\* A call that begins fills both memories, and takes back what was said before.
LEMMA BeginStep ==
  ASSUME IInv, NEW where \in {"idle", "write", "before", "suggest", "lint", "compare"}, Begin(where),
         guarded' \in BOOLEAN, checked' \in BOOLEAN,
         \/ result' = "none"
         \/ where = "idle" /\ result' = "refused"
  PROVE  IInv'
<1> USE DEF IInv, Begin, Remember
<1> PICK text \in Reads :
      /\ pristine' = IF pristine = Unseen THEN text ELSE pristine
      /\ firstSeen' = IF firstSeen = Unseen THEN text ELSE firstSeen
  OBVIOUS
<1>0. text \in Texts \cup {Absent} /\ text # Unseen
  BY TextsAreNeither DEF Reads, TypeOK, TextsOK
<1>1. TypeOK'
  <2>1. TextsOK'
    BY <1>0 DEF TypeOK, TextsOK
  <2>2. FlagsOK'
    BY DEF TypeOK, FlagsOK
  <2> QED BY <2>1, <2>2 DEF TypeOK, Points, Answers
<1>2. pristine' # Unseen /\ firstSeen' # Unseen
  BY <1>0
<1>3. Memories'
  <2>1. CASE pristine = Unseen
    BY <1>2, <2>1, NothingLostToItself DEF Memories
  <2>2. CASE pristine # Unseen
    BY <1>2, <2>2 DEF Memories
  <2> QED BY <2>1, <2>2
<1>4. Undisturbed' /\ Places'
  BY DEF Undisturbed, Places
<1>5. CleanMeansKept' /\ RefusedMeansUnchanged' /\ EditedMeansSound'
  BY DEF CleanMeansKept, RefusedMeansUnchanged, EditedMeansSound
<1> QED BY <1>1, <1>3, <1>4, <1>5

\* A call that returns has to vouch for what it answers, and for nothing else.
LEMMA ReturnStep ==
  ASSUME IInv, NEW answer \in Answers \ {"clean"}, Return(answer),
         file' \in Texts \cup {Absent}, UNCHANGED <<python, memory, call, disturbed>>,
         ~disturbed =>
           /\ answer = "refused" => file' = start \/ (guarded /\ file' = pristine)
           /\ answer = "too large" =>
                file' = start \/ file'.large \/ (guarded /\ pristine.large)
           /\ answer = "edited" =>
                /\ checked /\ start.parses => file'.parses
                /\ guarded => Accepts(pristine, file')
  PROVE  IInv'
<1> USE DEF IInv, Return, memory, call
<1>1. TypeOK'
  <2>1. TextsOK'
    BY DEF TypeOK, TextsOK
  <2>2. FlagsOK'
    BY DEF TypeOK, FlagsOK
  <2>3. pc' \in Points /\ result' \in Answers
    BY DEF Points
  <2> QED BY <2>1, <2>2, <2>3 DEF TypeOK
<1>2. Memories' /\ Undisturbed' /\ Places'
  BY DEF Memories, Undisturbed, Places
<1>3. CleanMeansKept'
  BY DEF CleanMeansKept
<1>4. RefusedMeansUnchanged'
  BY DEF RefusedMeansUnchanged
<1>5. EditedMeansSound'
  BY DEF EditedMeansSound, Accepts
<1> QED BY <1>1, <1>2, <1>3, <1>4, <1>5

\* A text that the size limit keeps from being read is in the file.
LEMMA ReadFailsStep ==
  ASSUME IInv, ReadFails, UNCHANGED <<python, memory, call, disturbed>>
  PROVE  IInv'
<1>1. file' = file /\ file' \in Texts \cup {Absent}
  BY DEF ReadFails, IInv, TypeOK, TextsOK
<1>2. CASE file.large /\ Return("too large")
  BY <1>1, <1>2, ReturnStep DEF Answers
<1>3. CASE Return("failed")
  BY <1>1, <1>3, ReturnStep DEF Answers
<1> QED BY <1>2, <1>3 DEF ReadFails

LEMMA PartWrittenStep ==
  ASSUME IInv, PartWritten, Return("failed"), UNCHANGED <<python, memory, call, disturbed>>
  PROVE  IInv'
BY ReturnStep DEF PartWritten, Answers

\* A text that is written back is one that may be called unchanged, and the
\* file is as it was or the guard's version too large when it is not written.
LEMMA WriteBackStep ==
  ASSUME IInv, NEW text \in Texts \cup {Absent}, NEW answer \in {"written", "refused"},
         WriteBack(text, answer), UNCHANGED <<python, memory, call, disturbed>>,
         ~disturbed =>
           /\ answer = "refused" => text = start \/ (guarded /\ text = pristine)
           /\ text.large => file = start \/ (guarded /\ pristine.large)
  PROVE  IInv'
<1>1. CASE ~text.large /\ file' = text /\ Return(answer)
  BY <1>1, ReturnStep DEF Answers
<1>2. CASE ~text.large /\ PartWritten /\ Return("failed")
  BY <1>2, PartWrittenStep
<1>3. CASE text.large /\ UNCHANGED file /\ Return("too large")
  <2>1. file' \in Texts \cup {Absent}
    BY <1>3 DEF IInv, TypeOK, TextsOK
  <2> QED BY <1>3, <2>1, ReturnStep DEF Answers
<1> QED BY <1>1, <1>2, <1>3 DEF WriteBack

\* A call that goes on keeps its types and what it has been told.
LEMMA GoType ==
  ASSUME IInv, NEW where \in Points, pc' = where, UNCHANGED result,
         before' \in Texts \cup {Absent}, checked' \in BOOLEAN,
         file' \in Texts \cup {Absent}, UNCHANGED <<python, memory, guarded, start, disturbed>>
  PROVE  TypeOK'
<1>1. TextsOK'
  BY DEF IInv, TypeOK, TextsOK, memory
<1>2. FlagsOK'
  BY DEF IInv, TypeOK, FlagsOK, memory
<1> QED BY <1>1, <1>2 DEF IInv, TypeOK

\* Nothing is claimed while a call is going on.
LEMMA NothingClaimed ==
  ASSUME result = "none"
  PROVE  CleanMeansKept /\ RefusedMeansUnchanged /\ EditedMeansSound
BY DEF CleanMeansKept, RefusedMeansUnchanged, EditedMeansSound

LEMMA GoStep ==
  ASSUME IInv, NEW where \in {"after", "undo", "guard", "revert"}, Go(where),
         pc \notin {"idle", "compare", "rebaseline"},
         file' \in Texts \cup {Absent}, UNCHANGED <<python, memory, call, disturbed>>,
         where = "undo" => before # Absent,
         where \in {"after", "undo"} => ~before.large,
         where \in {"guard", "revert"} => guarded,
         ~disturbed =>
           /\ file' \in Texts
           /\ where \in {"after", "undo"} =>
                before = IF checked /\ start.parses THEN start ELSE Absent
           /\ where = "guard" => (checked /\ start.parses => file'.parses)
  PROVE  IInv'
<1> USE DEF Go, memory, call
<1>1. TypeOK'
  BY GoType DEF IInv, TypeOK, TextsOK, FlagsOK, Points
<1>2. Memories' /\ Undisturbed' /\ Places'
  BY DEF IInv, Memories, Undisturbed, Places
<1>3. result' = "none"
  BY DEF IInv, Places
<1>4. CleanMeansKept' /\ RefusedMeansUnchanged' /\ EditedMeansSound'
  BY <1>3 DEF CleanMeansKept, RefusedMeansUnchanged, EditedMeansSound
<1> QED BY <1>1, <1>2, <1>4 DEF IInv

-----------------------------------------------------------------------------
(* Edits                                                                   *)

\* Where the call reads the text that it keeps.
LEMMA KeepsWhatItRead ==
  ASSUME IInv, NEW text \in Texts \cup {Absent}
  PROVE  Keeps(text) \in Texts \cup {Absent}
BY DEF Keeps

LEMMA ReadBeforeStep ==
  ASSUME IInv, ReadBefore
  PROVE  IInv'
<1> PICK text \in LimitedReads :
      before' = Keeps(text) /\ checked' = (checked /\ text # Absent)
  BY DEF ReadBefore
<1>1. text = file \/ text = Absent
  BY DEF LimitedReads
<1>2. TypeOK'
  <2>1. text \in Texts \cup {Absent}
    BY <1>1 DEF IInv, TypeOK, TextsOK
  <2>2. before' \in Texts \cup {Absent}
    BY <2>1, KeepsWhatItRead
  <2>3. checked' \in BOOLEAN
    OBVIOUS
  <2> QED
    BY <2>2, <2>3, GoType DEF ReadBefore, IInv, TypeOK, TextsOK, Points
<1>3. Memories' /\ Places'
  <2>1. ~text.large
    BY TextsAreNeither DEF LimitedReads, IInv, TypeOK, TextsOK
  <2>2. ~before'.large
    BY <2>1, TextsAreNeither DEF Keeps
  <2>3. Memories'
    BY DEF ReadBefore, IInv, Memories, memory
  <2> QED BY <2>2, <2>3 DEF ReadBefore, IInv, Places, memory
<1>4. Undisturbed'
  <2>1. SUFFICES ASSUME ~disturbed
                 PROVE  /\ file = start
                        /\ before' = IF checked' /\ start.parses THEN start ELSE Absent
    BY DEF ReadBefore, Undisturbed
  <2>2. file = start
    BY <2>1 DEF ReadBefore, IInv, Undisturbed
  <2> QED BY <1>1, <2>2, TextsAreNeither DEF Keeps
<1>5. CleanMeansKept' /\ RefusedMeansUnchanged' /\ EditedMeansSound'
  BY DEF ReadBefore, IInv, Places, CleanMeansKept, RefusedMeansUnchanged, EditedMeansSound
<1> QED BY <1>2, <1>3, <1>4, <1>5 DEF IInv

LEMMA ReadSuggestedStep ==
  ASSUME IInv, ReadSuggested
  PROVE  IInv'
<1>1. CASE ReadFails
  BY <1>1, ReadFailsStep DEF ReadSuggested
<1>2. CASE /\ file \in LimitedReads \ {Absent}
           /\ before' = Keeps(file) /\ pc' = "replace" /\ UNCHANGED <<file, result>>
  <2>1. TypeOK'
    <3>1. file \in Texts \cup {Absent} /\ before' \in Texts \cup {Absent}
      BY <1>2, KeepsWhatItRead DEF IInv, TypeOK, TextsOK
    <3> QED
      BY <1>2, <3>1, GoType DEF ReadSuggested, call, IInv, TypeOK, FlagsOK, Points
  <2>2. Memories' /\ Places'
    <3>1. ~file.large
      BY <1>2 DEF LimitedReads
    <3>2. ~before'.large
      BY <1>2, <3>1, TextsAreNeither DEF Keeps
    <3> QED BY <1>2, <3>2 DEF ReadSuggested, IInv, Memories, Places, memory, call
  <2>3. Undisturbed'
    BY <1>2 DEF ReadSuggested, IInv, Undisturbed, Keeps, call
  <2>4. CleanMeansKept' /\ RefusedMeansUnchanged' /\ EditedMeansSound'
    BY <1>2 DEF ReadSuggested, IInv, Places, CleanMeansKept, RefusedMeansUnchanged,
                EditedMeansSound
  <2> QED BY <2>1, <2>2, <2>3, <2>4 DEF IInv
<1> QED BY <1>1, <1>2 DEF ReadSuggested

\* What edit_workspace_scoped and replace_lines_workspace have in common.
LEMMA ReplacesStep ==
  ASSUME IInv, pc \in {"edit", "replace"}, NotReplaced \/ Replaced,
         UNCHANGED <<python, memory, call, disturbed>>
  PROVE  IInv'
<1>1. CASE UNCHANGED file /\ Return("refused")
  <2>1. ~disturbed => file = start
    BY DEF IInv, Undisturbed
  <2>2. file' \in Texts \cup {Absent}
    BY <1>1 DEF IInv, TypeOK, TextsOK
  <2> QED BY <1>1, <2>1, <2>2, ReturnStep DEF Answers
<1>2. CASE ReadFails
  BY <1>2, ReadFailsStep
<1>3. CASE file' \in Texts /\ Go("after")
  <2>1. ~disturbed => before = IF checked /\ start.parses THEN start ELSE Absent
    BY DEF IInv, Undisturbed
  <2>2. ~before.large
    BY DEF IInv, Places
  <2> QED BY <1>3, <2>1, <2>2, GoStep
<1>4. CASE PartWritten /\ Return("failed")
  BY <1>4, PartWrittenStep
<1> QED BY <1>1, <1>2, <1>3, <1>4 DEF NotReplaced, Replaced

LEMMA CheckPythonStep ==
  ASSUME IInv, CheckPython
  PROVE  IInv'
<1>1. file \in Texts \cup {Absent} /\ (~disturbed => file \in Texts)
  BY DEF CheckPython, IInv, TypeOK, TextsOK, Undisturbed
<1>2. ~disturbed => before = IF checked /\ start.parses THEN start ELSE Absent
  BY DEF CheckPython, IInv, Undisturbed
<1>3. CASE before # Absent /\ ReadFails
  BY <1>3, ReadFailsStep DEF CheckPython
<1>4. CASE Proceed /\ (before = Absent \/ file.parses)
  <2>1. ~disturbed /\ checked /\ start.parses => file.parses
    BY <1>2, <1>4, TextsAreNeither
  <2>2. CASE guarded
    BY <1>1, <1>4, <2>1, <2>2, GoStep DEF CheckPython, Proceed
  <2>3. CASE ~guarded
    BY <1>1, <1>4, <2>1, <2>3, ReturnStep DEF CheckPython, Proceed, Answers
  <2> QED BY <2>2, <2>3
<1>5. CASE before # Absent /\ UNCHANGED file /\ Go("undo")
  <2>1. ~before.large
    BY DEF CheckPython, IInv, Places
  <2> QED BY <1>1, <1>2, <1>5, <2>1, GoStep DEF CheckPython
<1> QED BY <1>3, <1>4, <1>5 DEF CheckPython

LEMMA UndoStep ==
  ASSUME IInv, Undo
  PROVE  IInv'
<1>1. before \in Texts \cup {Absent} /\ before # Absent
  BY DEF Undo, IInv, TypeOK, TextsOK, Places
<1>2. ~disturbed => before = start
  BY <1>1 DEF Undo, IInv, Undisturbed
<1>3. ~before.large
  BY DEF Undo, IInv, Places
<1> QED BY <1>1, <1>2, <1>3, WriteBackStep DEF Undo

LEMMA EnforceGuardStep ==
  ASSUME IInv, EnforceGuard
  PROVE  IInv'
<1>1. file \in Texts \cup {Absent} /\ (~disturbed => file \in Texts)
  BY DEF EnforceGuard, IInv, TypeOK, TextsOK, Undisturbed
<1>2. CASE ReadFails
  BY <1>2, ReadFailsStep DEF EnforceGuard
<1>3. CASE UNCHANGED file /\ Accepts(GuardBase, file) /\ Return("edited")
  <2>1. ~disturbed => (checked /\ start.parses => file.parses)
    BY DEF EnforceGuard, IInv, Undisturbed
  <2> QED BY <1>1, <1>3, <2>1, ReturnStep DEF EnforceGuard, GuardBase, Answers
<1>4. CASE UNCHANGED file /\ Go("revert")
  <2>1. guarded
    BY DEF EnforceGuard, IInv, Places
  <2> QED BY <1>1, <1>4, <2>1, GoStep DEF EnforceGuard
<1> QED BY <1>2, <1>3, <1>4 DEF EnforceGuard

LEMMA RevertStep ==
  ASSUME IInv, Revert
  PROVE  IInv'
<1>1. guarded /\ pristine \in Texts \cup {Absent}
  BY DEF Revert, IInv, Places, Memories, TypeOK, TextsOK
<1> QED BY <1>1, WriteBackStep DEF Revert, Reverted, GuardBase

LEMMA WriteStep ==
  ASSUME IInv, Write
  PROVE  IInv'
<1> PICK text \in Texts : WriteBack(text, "written")
  BY DEF Write
<1>1. ~disturbed => file = start
  BY DEF Write, IInv, Undisturbed
<1> QED BY <1>1, WriteBackStep DEF Write

-----------------------------------------------------------------------------
(* Lints                                                                   *)

LEMMA CompareStep ==
  ASSUME IInv, Compare
  PROVE  IInv'
<1> PICK text \in Reads :
      /\ before' = text
      /\ pc' = IF EntryLost(CompareBase, text) THEN "lint" ELSE "rebaseline"
  BY DEF Compare
<1>1. text \in Texts \cup {Absent}
  BY DEF Reads, IInv, TypeOK, TextsOK
<1>2. TypeOK'
  BY <1>1, GoType DEF Compare, IInv, TypeOK, TextsOK, FlagsOK, Points, call
<1>3. Memories' /\ Places' /\ Undisturbed'
  BY DEF Compare, CompareBase, IInv, Memories, Places, Undisturbed, memory, call
<1>4. CleanMeansKept' /\ RefusedMeansUnchanged' /\ EditedMeansSound'
  BY DEF Compare, IInv, Places, CleanMeansKept, RefusedMeansUnchanged, EditedMeansSound
<1> QED BY <1>2, <1>3, <1>4 DEF IInv

LEMMA RebaselineStep ==
  ASSUME IInv, Rebaseline
  PROVE  IInv'
<1> PICK text \in Reads : firstSeen' = text /\ raced' = (text # before)
  BY DEF Rebaseline
<1>1. text \in Texts \cup {Absent}
  BY DEF Reads, IInv, TypeOK, TextsOK
<1>2. TypeOK'
  <2>1. TextsOK'
    BY <1>1 DEF Rebaseline, Go, call, IInv, TypeOK, TextsOK
  <2>2. FlagsOK'
    BY DEF Rebaseline, Go, call, IInv, TypeOK, FlagsOK
  <2> QED BY <2>1, <2>2 DEF Rebaseline, Go, IInv, TypeOK, Points
<1>3. Memories'
  BY <1>1, TextsAreNeither DEF Rebaseline, Go, IInv, Memories
<1>4. Places' /\ Undisturbed'
  BY DEF Rebaseline, Go, call, IInv, Places, Undisturbed
<1>5. CleanMeansKept' /\ RefusedMeansUnchanged' /\ EditedMeansSound'
  BY DEF Rebaseline, Go, IInv, Places, CleanMeansKept, RefusedMeansUnchanged,
         EditedMeansSound
<1> QED BY <1>2, <1>3, <1>4, <1>5 DEF IInv

\* A clean text has every entry of the one rebaselined on, and that of the first.
LEMMA LintStep ==
  ASSUME IInv, Lint
  PROVE  IInv'
<1> PICK text \in Reads :
      Return(IF /\ text.parses
                /\ ~EntryLost(firstSeen, text) /\ ~TemplateLost(firstSeen, text)
             THEN "clean" ELSE "not clean")
  BY DEF Lint
<1>1. CASE Return("not clean")
  <2>1. file' \in Texts \cup {Absent}
    BY DEF Lint, IInv, TypeOK, TextsOK
  <2> QED BY <1>1, <2>1, ReturnStep DEF Lint, Answers
<1>2. CASE /\ Return("clean")
           /\ text.parses /\ ~EntryLost(firstSeen, text)
  <2> USE <1>2 DEF Lint, Return, memory, call
  <2>1. text = file
    BY TextsAreNeither DEF Reads
  <2>2. TypeOK'
    <3>1. TextsOK'
      BY DEF IInv, TypeOK, TextsOK
    <3>2. FlagsOK'
      BY DEF IInv, TypeOK, FlagsOK
    <3> QED BY <3>1, <3>2 DEF TypeOK, Points, Answers
  <2>3. Memories' /\ Places' /\ Undisturbed'
    BY DEF IInv, Memories, Places, Undisturbed
  <2>4. CleanMeansKept'
    BY <2>1, KeptTransitive DEF CleanMeansKept, IInv, Memories
  <2>5. RefusedMeansUnchanged' /\ EditedMeansSound'
    BY DEF RefusedMeansUnchanged, EditedMeansSound
  <2> QED BY <2>2, <2>3, <2>4, <2>5 DEF IInv
<1> QED BY <1>1, <1>2

-----------------------------------------------------------------------------
(* Every step                                                              *)

LEMMA OutsideStep ==
  ASSUME IInv, Outside
  PROVE  IInv'
<1> USE DEF Outside, memory, call
<1>1. TypeOK'
  <2>1. TextsOK'
    BY DEF IInv, TypeOK, TextsOK
  <2>2. FlagsOK'
    BY DEF IInv, TypeOK, FlagsOK
  <2> QED BY <2>1, <2>2 DEF IInv, TypeOK, Answers
<1>2. Memories' /\ Undisturbed' /\ Places'
  BY DEF IInv, Memories, Undisturbed, Places
<1> QED
  BY <1>1, <1>2 DEF IInv, CleanMeansKept, RefusedMeansUnchanged, EditedMeansSound

LEMMA CrashStep ==
  ASSUME IInv, Crash
  PROVE  IInv'
<1> USE DEF Crash, PartWritten
<1>1. TypeOK'
  <2>1. TextsOK'
    BY DEF IInv, TypeOK, TextsOK
  <2>2. FlagsOK'
    BY DEF IInv, TypeOK, FlagsOK
  <2> QED BY <2>1, <2>2 DEF TypeOK, Points, Answers
<1>2. Memories' /\ Undisturbed' /\ Places'
  BY TextsAreNeither DEF Memories, Undisturbed, Places, Comparable
<1> QED
  BY <1>1, <1>2 DEF IInv, CleanMeansKept, RefusedMeansUnchanged, EditedMeansSound

LEMMA StartEditStep ==
  ASSUME IInv, StartEdit
  PROVE  IInv'
<1>1. ASSUME NEW where \in {"before", "suggest"}, BeginEdit(where), checked' \in BOOLEAN
      PROVE  IInv'
  <2>1. CASE Begin(where) /\ result' = "none"
    BY <1>1, <2>1, BeginStep DEF BeginEdit
  <2>2. CASE Begin("idle") /\ result' = "refused"
    BY <1>1, <2>2, BeginStep DEF BeginEdit
  <2> QED BY <1>1, <2>1, <2>2 DEF BeginEdit
<1>2. python \in BOOLEAN
  BY DEF IInv, TypeOK, FlagsOK
<1> QED BY <1>1, <1>2 DEF StartEdit

LEMMA NextStep ==
  ASSUME IInv, [Next]_vars
  PROVE  IInv'
<1>1. CASE Outside
  BY <1>1, OutsideStep
<1>2. CASE Crash
  BY <1>2, CrashStep
<1>3. CASE Read
  BY <1>3, BeginStep DEF Read, IInv, TypeOK, FlagsOK
<1>4. CASE StartWrite
  BY <1>4, BeginStep DEF StartWrite, IInv, TypeOK, FlagsOK
<1>5. CASE StartEdit
  BY <1>5, StartEditStep
<1>6. CASE StartLint
  <2>1. guarded' \in BOOLEAN /\ checked' \in BOOLEAN /\ result' = "none"
    BY <1>6 DEF StartLint, IInv, TypeOK, FlagsOK
  <2> QED
    BY <1>6, <2>1, BeginStep DEF StartLint
<1>7. CASE Write
  BY <1>7, WriteStep
<1>8. CASE ReadBefore
  BY <1>8, ReadBeforeStep
<1>9. CASE ReadSuggested
  BY <1>9, ReadSuggestedStep
<1>10. CASE Edit \/ Replace
  BY <1>10, ReplacesStep DEF Edit, Replace
<1>11. CASE CheckPython
  BY <1>11, CheckPythonStep
<1>12. CASE Undo
  BY <1>12, UndoStep
<1>13. CASE EnforceGuard
  BY <1>13, EnforceGuardStep
<1>14. CASE Revert
  BY <1>14, RevertStep
<1>15. CASE Compare
  BY <1>15, CompareStep
<1>16. CASE Rebaseline
  BY <1>16, RebaselineStep
<1>17. CASE Lint
  BY <1>17, LintStep
<1>18. CASE UNCHANGED vars
  <2> USE <1>18 DEF vars, memory, call, IInv
  <2>1. TypeOK'
    BY DEF TypeOK, TextsOK, FlagsOK
  <2>2. Memories' /\ Undisturbed' /\ Places'
    BY DEF Memories, Undisturbed, Places
  <2> QED
    BY <2>1, <2>2 DEF CleanMeansKept, RefusedMeansUnchanged, EditedMeansSound
<1> QED
  BY <1>1, <1>2, <1>3, <1>4, <1>5, <1>6, <1>7, <1>8, <1>9, <1>10, <1>11, <1>12, <1>13, <1>14,
     <1>15, <1>16, <1>17, <1>18
  DEF Next

LEMMA Invariance == Spec => []IInv
BY InitIInv, NextStep, PTL DEF Spec

-----------------------------------------------------------------------------
(* Theorems                                                                *)

\* The state of the file, of the memories and of a call is well formed.
THEOREM TypeCorrect == Spec => []TypeOK
<1>1. IInv => TypeOK
  BY DEF IInv
<1> QED BY <1>1, Invariance, PTL

\* For any texts, and however calls, rebaselines, crashes and other writers
\* follow each other: a file that is called clean has lost no entry.
THEOREM CleanTheorem == Spec => []CleanMeansKept
<1>1. IInv => CleanMeansKept
  BY DEF IInv
<1> QED BY <1>1, Invariance, PTL

\* An edit that is answered as refused, or by the size limit, left what was there,
\* or the version the guard puts back, but for what the limit keeps from that.
THEOREM RefusedTheorem == Spec => []RefusedMeansUnchanged
<1>1. IInv => RefusedMeansUnchanged
  BY DEF IInv
<1> QED BY <1>1, Invariance, PTL

\* An accepted edit has not broken Python and has kept what is guarded.
THEOREM EditedTheorem == Spec => []EditedMeansSound
<1>1. IInv => EditedMeansSound
  BY DEF IInv
<1> QED BY <1>1, Invariance, PTL
=============================================================================
