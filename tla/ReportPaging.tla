---------------------------- MODULE ReportPaging ----------------------------
(***************************************************************************)
(* Reading the submissions of a form page by page while they change:       *)
(* reportForm, exportForm/csvChunks and report of                          *)
(* src/src/forms/forms.service.ts.  A walk remembers the id of the last    *)
(* row it was given; each page reads the form's revisions and flows and    *)
(* checks that this row still belongs to the report, and then reads the    *)
(* rows beyond it, with no transaction around these statements.  Meanwhile *)
(* revisions are published, submissions are stamped and commit later, a    *)
(* retention job deletes them and forms-processor-v6 labels them and adds  *)
(* its flow (external).  The dates of a request are part of which Ids are  *)
(* modelled.                                                               *)
(***************************************************************************)
EXTENDS Integers, FiniteSets, SequencesExt

CONSTANTS
  FieldsOf,   \* the field keys of each revision, in the order of revisions
  Appended,   \* the columns an ai-classify flow appends to every row
  Ids,        \* submission ids, ordered as UUIDs are: integers
  MaxTime,    \* bound on the clock, in milliseconds
  Classes,    \* classification labels
  Unknown,    \* the label of a submission without classification row
  NoFilter,   \* a request without ?classification=
  NoCursor,   \* a request without ?after=
  Walks,      \* clients that walk a report
  Limit       \* rows per page: 1000 for an export, page.limit otherwise

ASSUME PagingAssumption ==
  /\ Len(FieldsOf) \in Nat \ {0} /\ DOMAIN FieldsOf = 1 .. Len(FieldsOf)
  /\ IsFiniteSet(Appended)
  /\ Ids \subseteq Int /\ IsFiniteSet(Ids)
  /\ MaxTime \in Nat
  /\ Unknown \in Classes
  /\ NoFilter \notin Classes
  /\ NoCursor \notin Ids
  /\ Limit \in Nat \ {0}

VARIABLES
  clock,      \* the time of day, shared by the replicas
  newest,     \* the newest published revision
  classified, \* does the form have an ai-classify flow?
  stage,      \* how far the transaction of each submission is
  createdAt,  \* its timestamp
  version,    \* the revision it answers
  label,      \* its classification
  pc,         \* where each walk is
  kind,       \* "export", "table" (reportForm) or "revision" (report)
  filter,     \* the label it asks for
  bound,      \* upper bound on createdAt: the snapshot of an export
  cursor,     \* nextCursor of the page before
  known,      \* the newest revision the page under way has read
  routed,     \* has it found the flow?
  header,     \* the newest revision with columns of its own in the export
  out,        \* the rows handed out so far
  hidden,     \* <<i, key>>: row i was handed out without its answer to key
  due,        \* history: rows that matched when the walk began and ever since
  disturbed   \* history: has a row ceased to match while it was the cursor?

formState == <<newest, classified>>
rows == <<stage, createdAt, version, label>>
walk == <<pc, kind, filter, bound, cursor, known, routed, header, out, hidden>>
history == <<due, disturbed>>
pagingVars == <<clock, formState, rows, walk, history>>

Times == 0 .. MaxTime
Versions == DOMAIN FieldsOf
Stages == {"idle", "check", "read", "done", "failed"}
Kinds == {"export", "table", "revision"}

ReportTypeOK ==
  /\ clock \in Times
  /\ newest \in Versions /\ classified \in BOOLEAN
  /\ stage \in [Ids -> {"absent", "pending", "committed", "gone"}]
  /\ createdAt \in [Ids -> Times]
  /\ version \in [Ids -> Versions]
  /\ label \in [Ids -> Classes]
  /\ pc \in [Walks -> Stages]
  /\ kind \in [Walks -> Kinds]
  /\ filter \in [Walks -> Classes \cup {NoFilter}]
  /\ bound \in [Walks -> Times]
  /\ cursor \in [Walks -> Ids \cup {NoCursor}]
  /\ known \in [Walks -> Versions]
  /\ routed \in [Walks -> BOOLEAN]
  /\ header \in [Walks -> Versions]
  /\ out \in [Walks -> Seq(Ids)]
  /\ hidden \in [Walks -> SUBSET (Ids \X UNION ToSet(FieldsOf))]
  /\ due \in [Walks -> SUBSET Ids]
  /\ disturbed \in [Walks -> BOOLEAN]

PagingInit ==
  /\ clock = 0
  /\ newest = 1 /\ classified \in BOOLEAN
  /\ stage = [i \in Ids |-> "absent"]
  /\ createdAt = [i \in Ids |-> 0]
  /\ version = [i \in Ids |-> 1]
  /\ label = [i \in Ids |-> Unknown]
  /\ pc = [w \in Walks |-> "idle"]
  /\ kind = [w \in Walks |-> "table"]
  /\ filter = [w \in Walks |-> NoFilter]
  /\ bound = [w \in Walks |-> MaxTime]
  /\ cursor = [w \in Walks |-> NoCursor]
  /\ known = [w \in Walks |-> 1]
  /\ routed = [w \in Walks |-> FALSE]
  /\ header = [w \in Walks |-> 1]
  /\ out = [w \in Walks |-> <<>>]
  /\ hidden = [w \in Walks |-> {}]
  /\ due = [w \in Walks |-> {}]
  /\ disturbed = [w \in Walks |-> FALSE]

(* where: the row is visible, belongs to the revisions that were read, is  *)
(* not newer than the snapshot and labelled as asked.  UNKNOWN also        *)
(* selects rows that were never classified; without an ai-classify flow    *)
(* the filter is ignored.  The report of one revision is that of 1.        *)
Matches(w, i, revision, flow) ==
  /\ stage[i] = "committed"
  /\ version[i] <= (IF kind[w] = "revision" THEN 1 ELSE revision)
  /\ createdAt[i] <= bound[w]
  /\ flow => filter[w] \in {NoFilter, label[i]}

MatchesNow(w, i) == Matches(w, i, newest, classified)

(* orderBy: newest first, and oldest first in the report of one revision.  *)
Before(w, i, j) ==
  IF kind[w] = "revision"
  THEN createdAt[i] < createdAt[j] \/ (createdAt[i] = createdAt[j] /\ i < j)
  ELSE createdAt[i] > createdAt[j] \/ (createdAt[i] = createdAt[j] /\ i > j)

-----------------------------------------------------------------------------
(* What a change of the rows means for the walks under way.                *)
RowsChanged ==
  /\ UNCHANGED walk
  /\ due' = [w \in Walks |-> {i \in due[w] : MatchesNow(w, i)'}]
  /\ disturbed' = [w \in Walks |->
       \/ disturbed[w]
       \/ pc[w] \in {"check", "read"} /\ cursor[w] # NoCursor
            /\ ~(MatchesNow(w, cursor[w])')]

Tick ==
  /\ clock < MaxTime
  /\ clock' = clock + 1
  /\ UNCHANGED <<formState, rows, walk, history>>

(* publish; submissions of the revision before are refused from now on,    *)
(* and the next one is answered in a later millisecond: a visitor has to   *)
(* load it first.                                                          *)
Publish ==
  /\ newest + 1 \in Versions /\ clock < MaxTime
  /\ newest' = newest + 1
  /\ clock' = clock + 1
  /\ UNCHANGED <<classified, rows, walk, history>>

(* External: an ai-classify flow is added to the form.                     *)
AddFlow ==
  /\ ~classified
  /\ classified' = TRUE
  /\ UNCHANGED <<clock, newest, rows>>
  /\ RowsChanged

(* submit inserts a row, stamped now, that nobody sees before the commit.  *)
Insert(i) ==
  /\ stage[i] = "absent"
  /\ stage' = [stage EXCEPT ![i] = "pending"]
  /\ createdAt' = [createdAt EXCEPT ![i] = clock]
  /\ version' = [version EXCEPT ![i] = newest]
  /\ UNCHANGED <<clock, formState, label, walk, history>>

CommitInsert(i) ==
  /\ stage[i] = "pending"
  /\ stage' = [stage EXCEPT ![i] = "committed"]
  /\ UNCHANGED <<clock, formState, createdAt, version, label>>
  /\ RowsChanged

RollBackInsert(i) ==
  /\ stage[i] = "pending"
  /\ stage' = [stage EXCEPT ![i] = "absent"]
  /\ createdAt' = [createdAt EXCEPT ![i] = 0]
  /\ version' = [version EXCEPT ![i] = 1]
  /\ UNCHANGED <<clock, formState, label, walk, history>>

(* External: the retention job deletes a whole submission, its             *)
(* classification with it.                                                 *)
Delete(i) ==
  /\ stage[i] = "committed"
  /\ stage' = [stage EXCEPT ![i] = "gone"]
  /\ version' = [version EXCEPT ![i] = 1]
  /\ label' = [label EXCEPT ![i] = Unknown]
  /\ UNCHANGED <<clock, formState, createdAt>>
  /\ RowsChanged

(* External: forms-processor-v6 writes SubmissionClassification.           *)
Classify(i, l) ==
  /\ classified
  /\ stage[i] = "committed"
  /\ label' = [label EXCEPT ![i] = l]
  /\ UNCHANGED <<clock, formState, stage, createdAt, version>>
  /\ RowsChanged

(* Faulty: the snapshot of an export is rounded up.                        *)
SnapshotRoundedUp(k) == IF k = "export" THEN clock + 1 ELSE MaxTime

(* Only an export is bounded by the time it began.                         *)
Snapshot(k) == IF k = "export" THEN clock ELSE MaxTime

(* A client asks for the first page.  The report of one revision has no    *)
(* label filter.                                                           *)
Begin(w, k, f) ==
  /\ pc[w] = "idle"
  /\ k = "revision" => f = NoFilter
  /\ UNCHANGED <<clock, formState, rows, cursor, known, routed, header, out,
                 hidden, disturbed>>
  /\ pc' = [pc EXCEPT ![w] = "check"]
  /\ kind' = [kind EXCEPT ![w] = k]
  /\ filter' = [filter EXCEPT ![w] = f]
  /\ bound' = [bound EXCEPT ![w] = Snapshot(k)]
  /\ due' = [due EXCEPT ![w] = {i \in Ids : MatchesNow(w, i)'}]

(* Faulty: the bound of an export is exclusive when its cursor is checked. *)
StillOlder(w) == MatchesNow(w, cursor[w]) /\ createdAt[cursor[w]] < bound[w]

CursorBelongs(w) == MatchesNow(w, cursor[w])

(* The published revisions, the flow and the cursor row are read: the 400  *)
(* of a table; an export that has begun is cut off instead.                *)
CheckCursor(w) ==
  /\ pc[w] = "check"
  /\ IF cursor[w] = NoCursor \/ CursorBelongs(w)
     THEN /\ pc' = [pc EXCEPT ![w] = "read"]
          /\ known' = [known EXCEPT ![w] = newest]
          /\ routed' = [routed EXCEPT ![w] = classified]
     ELSE pc' = [pc EXCEPT ![w] = "failed"] /\ UNCHANGED <<known, routed>>
  /\ UNCHANGED <<clock, formState, rows, kind, filter, bound, cursor, header,
                 out, hidden, history>>

(* These rows in the order of the report.                                  *)
InOrder(w, found) ==
  CHOOSE s \in [1 .. Cardinality(found) -> found] :
    \A m, n \in DOMAIN s : m < n => Before(w, s[m], s[n])

(* The rows Prisma reads for cursor: { id }, in order: from the cursor     *)
(* row's place on, and none at all when that row no longer exists.         *)
FromCursor(w) ==
  InOrder(w,
    {i \in Ids :
       /\ Matches(w, i, known[w], routed[w])
       /\ \/ cursor[w] = NoCursor
          \/ stage[cursor[w]] = "committed" /\ ~Before(w, i, cursor[w])})

(* Faulty: skip: 1 is forgotten.                                           *)
Unskipped(w) == FromCursor(w)

(* skip: 1 drops the first row read, which is the cursor row as a rule.    *)
Remaining(w) ==
  LET found == FromCursor(w)
  IN IF cursor[w] = NoCursor \/ found = <<>> THEN found ELSE Tail(found)

Page(rest) == SubSeq(rest, 1, IF Len(rest) < Limit THEN Len(rest) ELSE Limit)

(* Faulty: a page is always followed by another one, without a look-ahead. *)
LastRow(w, rest) == IF rest = <<>> THEN cursor[w] ELSE Page(rest)[Len(Page(rest))]

NextCursor(w, rest) == IF Len(rest) > Limit THEN rest[Limit] ELSE NoCursor

(* Faulty: only the current revision has columns.                          *)
ColumnsOfOne(revision) == FieldsOf[revision]

(* columns: the field keys of all revisions up to this one.                *)
FieldColumns(revision) == UNION {FieldsOf[v] : v \in 1 .. revision}

(* Columns are those of the page, in an export those of its first page.    *)
Header(w) ==
  IF kind[w] = "revision" THEN 1
  ELSE IF kind[w] = "export" /\ cursor[w] # NoCursor THEN header[w]
  ELSE known[w]

(* Object.assign(row, classificationCells(...)): these cells hold no       *)
(* answers.  The report of one revision has none of them.                  *)
Overwritten(w) == IF kind[w] # "revision" /\ routed[w] THEN Appended ELSE {}

Shown(w) == FieldColumns(Header(w)) \ Overwritten(w)

(* Hand the page out; ask for the next one while there is a nextCursor.    *)
ReadPage(w) ==
  LET rest == Remaining(w)
      page == Page(rest)
      next == NextCursor(w, rest)
  IN
  /\ pc[w] = "read"
  /\ UNCHANGED <<clock, formState, rows, kind, filter, bound, due>>
  /\ out' = [out EXCEPT ![w] = @ \o page]
  /\ hidden' = [hidden EXCEPT ![w] = @ \cup
       UNION {{i} \X (FieldsOf[version[i]] \ Shown(w)) : i \in ToSet(page)}]
  /\ header' = [header EXCEPT ![w] = Header(w)]
  /\ known' = [known EXCEPT ![w] = 1]
  /\ routed' = [routed EXCEPT ![w] = FALSE]
  /\ cursor' = [cursor EXCEPT ![w] = next]
  /\ pc' = [pc EXCEPT ![w] = IF next = NoCursor THEN "done" ELSE "check"]
  /\ disturbed' = [disturbed EXCEPT ![w] =
       @ \/ (next # NoCursor /\ ~MatchesNow(w, next))]

(* The client has what it wants, or disconnects half-way.                  *)
Close(w) ==
  /\ pc[w] # "idle"
  /\ pc' = [pc EXCEPT ![w] = "idle"]
  /\ cursor' = [cursor EXCEPT ![w] = NoCursor]
  /\ known' = [known EXCEPT ![w] = 1]
  /\ routed' = [routed EXCEPT ![w] = FALSE]
  /\ header' = [header EXCEPT ![w] = 1]
  /\ out' = [out EXCEPT ![w] = <<>>]
  /\ hidden' = [hidden EXCEPT ![w] = {}]
  /\ due' = [due EXCEPT ![w] = {}]
  /\ disturbed' = [disturbed EXCEPT ![w] = FALSE]
  /\ UNCHANGED <<clock, formState, rows, kind, filter, bound>>

PagingNext ==
  \/ Tick
  \/ Publish
  \/ AddFlow
  \/ \E i \in Ids : Insert(i)
  \/ \E i \in Ids : CommitInsert(i)
  \/ \E i \in Ids : RollBackInsert(i)
  \/ \E i \in Ids : Delete(i)
  \/ \E i \in Ids, l \in Classes : Classify(i, l)
  \/ \E w \in Walks, k \in Kinds, f \in Classes \cup {NoFilter} : Begin(w, k, f)
  \/ \E w \in Walks : CheckCursor(w)
  \/ \E w \in Walks : ReadPage(w)
  \/ \E w \in Walks : Close(w)

PagingSpec == PagingInit /\ [][PagingNext]_pagingVars

(* No query hangs: a walk under way takes its next step, which may be that *)
(* the client disconnects.                                                 *)
MovesOn(w) ==
  /\ pc[w] \in {"check", "read"}
  /\ \E next \in Stages \ {pc[w]} : pc' = [pc EXCEPT ![w] = next]

FairSpec == PagingSpec /\ \A w \in Walks : WF_pc(MovesOn(w))

-----------------------------------------------------------------------------
(* Across all its pages a walk hands rows out in strict report order: no   *)
(* row twice, and none out of place, whatever commits or vanishes between  *)
(* the pages ("stable ties across cursor pages", docs/api.md line 173).    *)
RowsInOrder ==
  \A w \in Walks : \A m, n \in DOMAIN out[w] :
    m < n => Before(w, out[w][m], out[w][n])

(* A walk whose cursor row is not deleted, relabelled or filtered out      *)
(* under it is never refused a cursor the service itself handed out, and   *)
(* when it ends it has handed out every row that matched all along.        *)
NothingSkipped ==
  \A w \in Walks : ~disturbed[w] =>
    /\ pc[w] # "failed"
    /\ pc[w] = "done" => due[w] \subseteq ToSet(out[w])

(* An export's columns are "captured at export start" (docs/api.md line    *)
(* 179), and yet no row it hands out later answers a field that has no     *)
(* column, whatever was published or committed in between.  Only answers   *)
(* under the names of appended columns are covered up.                     *)
AnswersHaveColumns ==
  \A w \in Walks : \A cell \in hidden[w] : cell[2] \in Appended

(* Following nextCursor comes to an end while submissions keep arriving.   *)
WalksEnd ==
  \A w \in Walks : pc[w] \in {"check", "read"} ~> pc[w] \notin {"check", "read"}

(* exportForm's comment: "Async CSV chunks with one header and all         *)
(* matching rows", which getting to the end of the stream should mean.     *)
ExportIsComplete ==
  \A w \in Walks :
    pc[w] = "done" /\ kind[w] = "export" => due[w] \subseteq ToSet(out[w])

(* docs/api.md line 42: "Definitions reject [...] reserved reporting       *)
(* names", so that a column of a report never covers up an answer.         *)
NoAnswerHidden == \A w \in Walks : hidden[w] = {}
=============================================================================
