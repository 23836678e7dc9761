-------------------------- MODULE TreeCacheProofs ---------------------------
(***************************************************************************)
(* Proofs about TreeCache, for any commits, heads and lists of files.      *)
(***************************************************************************)
EXTENDS TreeCache, FiniteSetTheorems, TLAPS

\* What the pages before page n list and leave.
UpTo(h, n) == (UNION {Pages[h][k] : k \in 1..(n - 1)}) \ Removed[h]

\* What a planner has read so far.  While the pull request has stayed at the
\* head that was read, the files are those of the pages read.
Reading(p) ==
  /\ pc[p] = "idle" => page[p] = 1 /\ files[p] = {} /\ tmp[p] = {}
  /\ pc[p] = "download" => key[p] \in Commits
  /\ pc[p] = "list" =>
       /\ key[p] \in Heads /\ key[p] \in seen[p]
       /\ seen[p] = {key[p]} =>
            /\ files[p] = UpTo(key[p], page[p])
            /\ page[p] = 1 \/ page[p] <= Len(Pages[key[p]])
  /\ pc[p] = "texts" =>
       /\ key[p] \in Heads /\ key[p] \in seen[p]
       /\ seen[p] = {key[p]} => files[p] = Whole(key[p])
  /\ pc[p] = "write" =>
       /\ key[p] \in Keys /\ key[p] \in seen[p]
       /\ files[p] \subseteq Text[key[p]]
       /\ seen[p] = {key[p]} => files[p] = Whole(key[p])

IInv == TypeOK /\ EntryIsItsCommit /\ \A p \in Planners : Reading(p)

-----------------------------------------------------------------------------
(* The pages of a list                                                     *)

LEMMA NothingBefore == ASSUME NEW h PROVE UpTo(h, 1) = {}
BY DEF UpTo

LEMMA OnePageMore ==
  ASSUME NEW h, NEW n \in Nat \ {0}
  PROVE  UpTo(h, n + 1) = UpTo(h, n) \cup (Pages[h][n] \ Removed[h])
BY DEF UpTo

LEMMA AllPages ==
  ASSUME NEW h \in Heads, NEW n \in Nat, n = Len(Pages[h]) + 1
  PROVE  UpTo(h, n) = Whole(h)
BY ConstantsAssumption DEF UpTo, Whole

LEMMA PageCount ==
  ASSUME head \in Heads, NEW n \in Nat \ {0}
  PROVE  /\ Page(n) \in SUBSET Files
         /\ Cardinality(Page(n)) \in Nat
         /\ n < Len(Pages[head]) => Cardinality(Page(n)) = PageSize
         /\ n > Len(Pages[head]) => Page(n) = {} /\ Cardinality(Page(n)) = 0
<1>1. Pages[head] \in Seq(SUBSET Files) /\ Len(Pages[head]) \in Nat
  BY ConstantsAssumption
<1>2. Cardinality({}) = 0
  BY FS_EmptySet
<1>3. CASE n <= Len(Pages[head])
  BY <1>1, <1>3, ConstantsAssumption DEF Page
<1>4. CASE ~(n <= Len(Pages[head]))
  BY <1>1, <1>2, <1>4 DEF Page
<1> QED BY <1>3, <1>4

\* A page read while the pull request is where it was adds to what the pages
\* before it list, and the last one makes it whole.
LEMMA PageOfTheList ==
  ASSUME TypeOK, NEW p \in Planners, head = key[p],
         files[p] = UpTo(key[p], page[p]),
         page[p] = 1 \/ page[p] <= Len(Pages[key[p]])
  PROVE  LET read == files[p] \cup (Page(page[p]) \ Removed[head])
         IN  /\ Done(p) => read = Whole(key[p])
             /\ ~Done(p) =>
                  read = UpTo(key[p], page[p] + 1) /\ page[p] + 1 <= Len(Pages[key[p]])
<1> DEFINE n == page[p]  h == key[p]
<1>1. /\ n \in Nat \ {0} /\ h \in Heads /\ head = h /\ files[p] = UpTo(h, n)
      /\ Len(Pages[h]) \in Nat /\ PageSize \in Nat \ {0}
      /\ n = 1 \/ n <= Len(Pages[h])
  BY ConstantsAssumption DEF TypeOK
<1>2. /\ Cardinality(Page(n)) \in Nat
      /\ n < Len(Pages[h]) => Cardinality(Page(n)) = PageSize
      /\ n > Len(Pages[h]) => Page(n) = {} /\ Cardinality(Page(n)) = 0
  BY <1>1, PageCount
<1>3. Done(p) <=> Cardinality(Page(n)) < PageSize \/ ~(n < Len(Pages[h]))
  BY <1>1 DEF Done, HasNext
<1> HIDE DEF n, h
<1>4. CASE n > Len(Pages[h])
  <2>1. n = Len(Pages[h]) + 1 /\ Page(n) = {} /\ Cardinality(Page(n)) = 0
    BY <1>1, <1>2, <1>4
  <2>2. UpTo(h, n) = Whole(h)
    BY <1>1, <2>1, AllPages
  <2> QED BY <1>1, <1>3, <2>1, <2>2 DEF n, h
<1>5. CASE n <= Len(Pages[h])
  <2>1. Page(n) = Pages[h][n]
    BY <1>1, <1>5 DEF Page
  <2>2. files[p] \cup (Page(n) \ Removed[head]) = UpTo(h, n + 1)
    BY <1>1, <2>1, OnePageMore
  <2>3. ~(n < Len(Pages[h])) => UpTo(h, n + 1) = Whole(h)
    BY <1>1, <1>5, AllPages
  <2>4. Done(p) <=> ~(n < Len(Pages[h]))
    BY <1>1, <1>2, <1>3
  <2> QED BY <1>1, <1>5, <2>2, <2>3, <2>4 DEF n, h
<1> QED BY <1>1, <1>4, <1>5

-----------------------------------------------------------------------------
(* Type correctness                                                        *)

LEMMA InitType == Init => TypeOK
BY ConstantsAssumption DEF Init, TypeOK, Missing

LEMMA NextType == TypeOK /\ (\A p \in Planners : Reading(p)) /\ [Next]_vars => TypeOK'
<1> SUFFICES ASSUME TypeOK, \A p \in Planners : Reading(p), [Next]_vars
             PROVE  TypeOK'
  OBVIOUS
<1>1. CASE Push
  BY <1>1 DEF TypeOK, Push, planner
<1>2. ASSUME NEW p \in Planners, LookForCommit(p) PROVE TypeOK'
  BY <1>2 DEF TypeOK, LookForCommit, Goto, Keys
<1>3. ASSUME NEW p \in Planners, Download(p) PROVE TypeOK'
  <2>1. key[p] \in Keys /\ {key[p]} \in SUBSET Keys /\ Text[key[p]] \in SUBSET Files
    BY <1>3, ConstantsAssumption DEF Download, Reading, Keys
  <2>2. seen' \in [Planners -> SUBSET Keys] /\ files' \in [Planners -> SUBSET Files]
    <3>1. \/ seen' = seen /\ files' = files
          \/ /\ seen' = [seen EXCEPT ![p] = {key[p]}]
             /\ files' = [files EXCEPT ![p] = Text[key[p]]]
      BY <1>3 DEF Download
    <3>2. CASE seen' = seen /\ files' = files
      BY <3>2 DEF TypeOK
    <3>3. CASE /\ seen' = [seen EXCEPT ![p] = {key[p]}]
               /\ files' = [files EXCEPT ![p] = Text[key[p]]]
      BY <2>1, <3>3 DEF TypeOK
    <3> QED BY <3>1, <3>2, <3>3
  <2>3. pc' \in [Planners -> {"idle", "download", "list", "texts", "write",
                            "found", "failed", "stop"}]
    <3>1. \E w \in {"stop", "failed", "write"} : pc' = [pc EXCEPT ![p] = w]
      BY <1>3 DEF Download, Goto
    <3> QED BY <3>1 DEF TypeOK
  <2> QED BY <1>3, <2>2, <2>3 DEF TypeOK, Download
<1>4. ASSUME NEW p \in Planners, ReadHead(p) PROVE TypeOK'
  BY <1>4 DEF TypeOK, ReadHead, Goto, Keys
<1>5. ASSUME NEW p \in Planners, RequestFails(p) PROVE TypeOK'
  BY <1>5 DEF TypeOK, RequestFails, Goto
<1>6. ASSUME NEW p \in Planners, ReadPage(p) PROVE TypeOK'
  <2>1. /\ Page(page[p]) \in SUBSET Files /\ Listed(p) \in Nat
        /\ head \in Keys /\ PageStep(p) \in {"failed", "texts", "list"}
    BY PageCount, ConstantsAssumption DEF TypeOK, Listed, Keys, PageStep
  <2> QED BY <1>6, <2>1 DEF TypeOK, ReadPage, Goto
<1>7. ASSUME NEW p \in Planners, ReadTexts(p) PROVE TypeOK'
  BY <1>7 DEF TypeOK, ReadTexts, Goto
<1>8. ASSUME NEW p \in Planners, Write(p) PROVE TypeOK'
  <2>1. tmp' \in [Planners -> SUBSET Files]
    <3>1. \/ tmp' = tmp
          \/ \E f \in files[p] : tmp' = [tmp EXCEPT ![p] = tmp[p] \cup {f}]
      BY <1>8 DEF Write
    <3>2. files[p] \subseteq Files /\ tmp[p] \subseteq Files
      BY DEF TypeOK
    <3> QED BY <3>1, <3>2 DEF TypeOK
  <2>2. pc' \in [Planners -> {"idle", "download", "list", "texts", "write",
                            "found", "failed", "stop"}]
    <3>1. pc' = [pc EXCEPT ![p] = "failed"] \/ pc' = pc
      BY <1>8 DEF Write, Goto
    <3> QED BY <3>1 DEF TypeOK
  <2> QED BY <1>8, <2>1, <2>2 DEF TypeOK, Write
<1>9. ASSUME NEW p \in Planners, Rename(p) PROVE TypeOK'
  BY <1>9 DEF TypeOK, Rename, Written, Goto, Reading
<1>10. ASSUME NEW p \in Planners, NotRenamed(p) PROVE TypeOK'
  BY <1>10 DEF TypeOK, NotRenamed, Written, Goto
<1>11. ASSUME NEW p \in Planners, Return(p) PROVE TypeOK'
  BY <1>11 DEF TypeOK, Return
<1>12. CASE UNCHANGED vars
  BY <1>12 DEF TypeOK, vars, planner
<1> QED BY <1>1, <1>2, <1>3, <1>4, <1>5, <1>6, <1>7, <1>8, <1>9, <1>10, <1>11, <1>12
           DEF Next, Answer, Crash

-----------------------------------------------------------------------------
(* What planners have read                                                 *)

\* A planner that takes no step has still read the same.
LEMMA OthersRead ==
  ASSUME NEW p, Reading(p),
         pc'[p] = pc[p], key'[p] = key[p], page'[p] = page[p],
         seen'[p] = seen[p], files'[p] = files[p], tmp'[p] = tmp[p]
  PROVE  Reading(p)'
BY DEF Reading, UpTo, Whole

LEMMA NextReading ==
  TypeOK /\ (\A p \in Planners : Reading(p)) /\ [Next]_vars
    => \A p \in Planners : Reading(p)'
<1> SUFFICES ASSUME TypeOK, \A p \in Planners : Reading(p), [Next]_vars,
                    NEW q \in Planners
             PROVE  Reading(q)'
  OBVIOUS
<1>0. Reading(q)
  OBVIOUS
<1>a. ASSUME NEW p \in Planners, p # q,
             \/ LookForCommit(p) \/ Download(p) \/ ReadHead(p) \/ RequestFails(p)
             \/ ReadPage(p) \/ ReadTexts(p) \/ Write(p) \/ Rename(p)
             \/ NotRenamed(p) \/ Return(p)
      PROVE  Reading(q)'
  <2>1. /\ pc'[q] = pc[q] /\ key'[q] = key[q] /\ page'[q] = page[q]
        /\ seen'[q] = seen[q] /\ files'[q] = files[q] /\ tmp'[q] = tmp[q]
    BY <1>a DEF TypeOK, LookForCommit, Download, ReadHead, RequestFails, ReadPage,
                ReadTexts, Write, Rename, Written, NotRenamed, Return, Goto
  <2> QED BY <1>0, <2>1, OthersRead
<1>1. CASE Push
  BY <1>0, <1>1, OthersRead DEF Push, planner
<1>2. CASE LookForCommit(q)
  BY <1>0, <1>2 DEF LookForCommit, Goto, Reading, TypeOK
<1>3. CASE Download(q)
  <2>1. key[q] \in Commits /\ key[q] \in Keys /\ Whole(key[q]) = Text[key[q]]
    BY <1>0, <1>3 DEF Download, Reading, Keys, Whole
  <2>2. key'[q] = key[q] /\ pc'[q] \in {"stop", "failed", "write"}
    BY <1>3 DEF Download, Goto, TypeOK
  <2>3. pc'[q] = "write" => seen'[q] = {key[q]} /\ files'[q] = Text[key[q]]
    BY <1>3 DEF Download, Goto, TypeOK
  <2> QED BY <2>1, <2>2, <2>3 DEF Reading, Whole
<1>4. CASE ReadHead(q)
  BY <1>0, <1>4, NothingBefore DEF ReadHead, Goto, Reading, TypeOK
<1>5. CASE RequestFails(q)
  BY <1>5 DEF RequestFails, Goto, Reading, TypeOK
<1>6. CASE ReadPage(q)
  <2>1. /\ pc'[q] = PageStep(q) /\ key'[q] = key[q] /\ page'[q] = page[q] + 1
        /\ seen'[q] = seen[q] \cup {head}
        /\ files'[q] = files[q] \cup (Page(page[q]) \ Removed[head])
        /\ key[q] \in Heads /\ key[q] \in seen[q]
    BY <1>0, <1>6 DEF ReadPage, Goto, Reading, TypeOK
  <2>2. ASSUME seen'[q] = {key[q]}
        PROVE  /\ pc'[q] = "texts" => files'[q] = Whole(key[q])
               /\ pc'[q] = "list" => /\ files'[q] = UpTo(key[q], page'[q])
                                     /\ page'[q] <= Len(Pages[key[q]])
    <3>1. head = key[q] /\ seen[q] = {key[q]}
      BY <2>1, <2>2
    <3>2. /\ files[q] = UpTo(key[q], page[q])
          /\ page[q] = 1 \/ page[q] <= Len(Pages[key[q]])
      BY <1>0, <1>6, <3>1 DEF ReadPage, Reading
    <3>3. /\ PageStep(q) = "texts" => Done(q)
          /\ PageStep(q) = "list" => ~Done(q)
      BY DEF PageStep
    <3> QED BY <2>1, <3>1, <3>2, <3>3, PageOfTheList
  <2>3. pc'[q] \in {"failed", "texts", "list"}
    BY <2>1 DEF PageStep
  <2> QED BY <2>1, <2>2, <2>3 DEF Reading, UpTo, Whole
<1>7. CASE ReadTexts(q)
  BY <1>0, <1>7 DEF ReadTexts, Goto, Reading, TypeOK, Whole, Keys, TextsAt
<1>8. CASE Write(q)
  BY <1>0, <1>8 DEF Write, Goto, Reading, TypeOK, Whole
<1>9. CASE Rename(q)
  BY <1>9 DEF Rename, Written, Goto, Reading, TypeOK
<1>10. CASE NotRenamed(q)
  BY <1>10 DEF NotRenamed, Written, Goto, Reading, TypeOK
<1>11. CASE Return(q)
  BY <1>11 DEF Return, Reading, TypeOK
<1>12. CASE UNCHANGED vars
  BY <1>0, <1>12, OthersRead DEF vars, planner
<1> QED BY <1>a, <1>1, <1>2, <1>3, <1>4, <1>5, <1>6, <1>7, <1>8, <1>9, <1>10, <1>11,
           <1>12 DEF Next, Answer, Crash

-----------------------------------------------------------------------------
(* The entries                                                             *)

\* Only a rename changes an entry.
LEMMA EntriesChange ==
  ASSUME TypeOK, [Next]_vars
  PROVE  \/ cache' = cache
         \/ \E p \in Planners :
              Rename(p)
<1> QED BY DEF Next, vars, planner, Push, LookForCommit, Download, ReadHead,
               RequestFails, ReadPage, ReadTexts, Write, NotRenamed, Answer, Crash,
               Return

LEMMA NextEntries ==
  TypeOK /\ (\A p \in Planners : Reading(p)) /\ EntryIsItsCommit /\ [Next]_vars
    => EntryIsItsCommit'
<1> SUFFICES ASSUME TypeOK, \A p \in Planners : Reading(p), EntryIsItsCommit,
                    [Next]_vars
             PROVE  EntryIsItsCommit'
  OBVIOUS
<1>1. CASE cache' = cache
  BY <1>1 DEF EntryIsItsCommit, Entries, Cached, Whole
<1>2. ASSUME NEW p \in Planners, Rename(p) PROVE EntryIsItsCommit'
  <2>1. /\ cache' = [cache EXCEPT ![key[p]] = [files |-> files[p], seen |-> seen[p]]]
        /\ key[p] \in Keys /\ files[p] \subseteq Text[key[p]]
        /\ seen[p] = {key[p]} => files[p] = Whole(key[p])
    BY <1>2 DEF Rename, Written, Reading
  <2>2. \A k \in Keys : k # key[p] => cache'[k] = cache[k]
    BY <2>1 DEF TypeOK
  <2>3. cache'[key[p]] = [files |-> files[p], seen |-> seen[p]]
    BY <2>1 DEF TypeOK
  <2>4. SUFFICES ASSUME NEW k \in Keys, cache'[k] # Missing
                 PROVE  /\ cache'[k].files \subseteq Text[k]
                        /\ cache'[k].seen = {k} => cache'[k].files = Whole(k)
    BY DEF EntryIsItsCommit, Entries, Cached, Whole
  <2>5. CASE k = key[p]
    BY <2>1, <2>3, <2>5
  <2>6. CASE k # key[p]
    BY <2>2, <2>4, <2>6 DEF EntryIsItsCommit, Entries, Cached
  <2> QED BY <2>5, <2>6
<1> QED BY <1>1, <1>2, EntriesChange

LEMMA Inductive == IInv /\ [Next]_vars => IInv'
BY NextType, NextReading, NextEntries DEF IInv

LEMMA Initial == Init => IInv
<1> SUFFICES ASSUME Init PROVE IInv
  OBVIOUS
<1>1. TypeOK
  BY InitType
<1>2. EntryIsItsCommit
  BY DEF Init, EntryIsItsCommit, Entries, Cached
<1>3. \A p \in Planners : Reading(p)
  BY DEF Init, Reading
<1> QED BY <1>1, <1>2, <1>3 DEF IInv

-----------------------------------------------------------------------------
(* Theorems                                                                *)

THEOREM Invariance == Spec => []IInv
BY Initial, Inductive, PTL DEF Spec

\* The cache and the planners have their types.
THEOREM TypeCorrect == Spec => []TypeOK
BY Invariance, PTL DEF IInv

\* An entry has no file of another commit, and is whole if the pull request
\* stayed at that commit.
THEOREM EntryTheorem == Spec => []EntryIsItsCommit
BY Invariance, PTL DEF IInv
=============================================================================
