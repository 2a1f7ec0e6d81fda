------------------------------- MODULE Forms -------------------------------
(***************************************************************************)
(* What the forms service promises for ONE form, with every request        *)
(* executed in a single atomic step: numbered immutable versions, at most  *)
(* one of them published, and submissions that carry an idempotency key.   *)
(* FormTransactions shows that the transactions of                         *)
(* src/src/forms/forms.service.ts implement these steps; EventDelivery     *)
(* builds on them.  A step the code refuses (404, 409, 400, 401) changes   *)
(* nothing and is a stuttering step here.                                  *)
(***************************************************************************)
EXTENDS Integers

CONSTANTS
  MaxVersion,     \* bound on revision numbers; the code allows 1..1000000
  Definitions,    \* complete form definitions, identified by definitionHash
  NoDefinition,   \* the definition of a version that is not saved yet
  MemberOnly,     \* the definitions with access MEMBER
  Ids,            \* submission identifiers (UUIDs)
  Keys,           \* Idempotency-Key values
  Bodies,         \* what requestHash covers: answers, member, page and kafka
  Signed,         \* the bodies sent under a verified member identity
  WantsEvent,     \* the bodies with kafka: true
  Fits            \* pairs <<d, b>>: validateAnswers accepts b's answers for d

ASSUME MaxVersionAssumption == MaxVersion \in Nat
ASSUME DefinitionsAssumption ==
  NoDefinition \notin Definitions /\ MemberOnly \subseteq Definitions
ASSUME BodiesAssumption ==
  /\ Signed \subseteq Bodies
  /\ WantsEvent \subseteq Bodies
  /\ Fits \subseteq Definitions \X Bodies

VARIABLES
  form,          \* does the Form row exist?
  versions,      \* FormVersion rows, and the reporting view of each
  submissions,   \* the retained Submission rows
  issued         \* every submission id ever generated

formVars == <<form, versions, submissions, issued>>

Versions == 1 .. MaxVersion
Statuses == {"NONE", "DRAFT", "PUBLISHED", "RETIRED"}

(* launched stands for publishedAt being set, view for the SQL view.       *)
Row == [status : Statuses, definition : Definitions \cup {NoDefinition},
        launched : BOOLEAN, view : BOOLEAN]

Submission == [id : Ids, version : Versions, key : Keys, body : Bodies]

NoRow ==
  [status |-> "NONE", definition |-> NoDefinition,
   launched |-> FALSE, view |-> FALSE]
DraftRow(d) ==
  [status |-> "DRAFT", definition |-> d, launched |-> FALSE, view |-> FALSE]
PublishedRow(row) ==
  [status |-> "PUBLISHED", definition |-> row.definition,
   launched |-> TRUE, view |-> TRUE]
(* Faulty: retirement invents a status the enum does not have.             *)
RetiredRowDeleted(row) == [row EXCEPT !.status = "DELETED"]
RetiredRow(row) == [row EXCEPT !.status = "RETIRED"]

Saved(v) == versions[v].status # "NONE"
Live(v) == versions[v].status = "PUBLISHED"

TypeOK ==
  /\ form \in BOOLEAN
  /\ versions \in [Versions -> Row]
  /\ submissions \subseteq Submission
  /\ issued \subseteq Ids

-----------------------------------------------------------------------------
Init ==
  /\ form = FALSE
  /\ versions = [v \in Versions |-> NoRow]
  /\ submissions = {}
  /\ issued = {}

(* createForm: an upsert, so a second registration changes nothing.        *)
CreateForm ==
  /\ form' = TRUE
  /\ UNCHANGED <<versions, submissions, issued>>

(* Is v one more than the largest saved number, or 1 when none is saved?   *)
IsNextNumber(v) ==
  /\ v = 1 \/ (v - 1 \in Versions /\ Saved(v - 1))
  /\ \A u \in Versions : Saved(u) => u < v

(* Faulty: a saved version is overwritten in place.                        *)
MayRedraft(v) == Saved(v) \/ IsNextNumber(v)

MayDraft(v) == ~Saved(v) /\ IsNextNumber(v)

PutVersion(v, d) ==
  /\ form
  /\ MayDraft(v)
  /\ versions' = [versions EXCEPT ![v] = DraftRow(d)]
  /\ UNCHANGED <<form, submissions, issued>>

(* Faulty: only a newer version that is still open blocks an older draft.  *)
NewerLive(v) == \E u \in Versions : u > v /\ Live(u)

NewerLaunched(v) == \E u \in Versions : u > v /\ versions[u].launched

(* What publish does to each row: the published one retires, v opens.      *)
RowAfterPublish(v, u) ==
  IF u = v THEN PublishedRow(versions[u])
  ELSE IF Live(u) THEN RetiredRow(versions[u]) ELSE versions[u]

Publish(v) ==
  /\ versions[v].status = "DRAFT"
  /\ ~NewerLaunched(v)
  /\ versions' = [u \in Versions |-> RowAfterPublish(v, u)]
  /\ UNCHANGED <<form, submissions, issued>>

Retire(v) ==
  /\ Live(v)
  /\ versions' = [versions EXCEPT ![v] = RetiredRow(@)]
  /\ UNCHANGED <<form, submissions, issued>>

(* The access rule and the answer rules of the pinned definition.          *)
MayAnswer(v, b) ==
  /\ versions[v].definition \in MemberOnly => b \in Signed
  /\ <<versions[v].definition, b>> \in Fits

(* The rows the unique index on (versionId, idempotencyKey) would find.    *)
Earlier(v, k) == {s \in submissions : s.version = v /\ s.key = k}

Submit(id, v, k, b) ==
  /\ Live(v)
  /\ MayAnswer(v, b)
  /\ Earlier(v, k) = {}
  /\ id \notin issued
  /\ submissions' = submissions \cup
       {[id |-> id, version |-> v, key |-> k, body |-> b]}
  /\ issued' = issued \cup {id}
  /\ UNCHANGED <<form, versions>>

(* External: a retention job deletes whole submissions.                    *)
Delete(s) ==
  /\ s \in submissions
  /\ submissions' = submissions \ {s}
  /\ UNCHANGED <<form, versions, issued>>

Next ==
  \/ CreateForm
  \/ \E v \in Versions, d \in Definitions : PutVersion(v, d)
  \/ \E v \in Versions : Publish(v)
  \/ \E v \in Versions : Retire(v)
  \/ \E id \in Ids, v \in Versions, k \in Keys, b \in Bodies :
        Submit(id, v, k, b)
  \/ \E s \in submissions : Delete(s)

Spec == Init /\ [][Next]_formVars

-----------------------------------------------------------------------------
(* At most one version of the form is published: getPublicForm takes the   *)
(* first published row it finds, and index FormVersion_one_published       *)
(* would otherwise fail the publishing transaction.                        *)
OnePublished == \A u, v \in Versions : Live(u) /\ Live(v) => u = v

(* The published version is the newest one ever published: an older draft  *)
(* can no longer take over once a newer one has been launched, even after  *)
(* that one is retired.                                                    *)
LiveIsNewest ==
  \A u, v \in Versions : Live(v) /\ versions[u].launched => u <= v

(* Revision numbers have no gaps and start at 1.                           *)
NoGaps == \A u, v \in Versions : Saved(v) /\ u < v => Saved(u)

(* A reporting view exists for exactly the versions that were published,   *)
(* and those are the published and retired ones: reports refuse drafts     *)
(* only, so a view must exist for everything else.                         *)
ViewPerLaunch ==
  \A v \in Versions :
    /\ versions[v].view <=> versions[v].launched
    /\ versions[v].launched <=> versions[v].status \in {"PUBLISHED", "RETIRED"}

(* The unique index on (versionId, idempotencyKey) never has to refuse a   *)
(* row: the look-up in submit has already found the earlier submission.    *)
OneReceiptPerKey ==
  \A s, t \in submissions :
    (s.version = t.version /\ s.key = t.key) \/ s.id = t.id => s = t

(* Every retained submission answers a launched version, obeys its access  *)
(* rule and its field rules: what validate_submission_envelope and         *)
(* validate_complete_submission check again inside the database.           *)
SubmissionsFit ==
  \A s \in submissions :
    /\ s.id \in issued
    /\ versions[s.version].launched
    /\ MayAnswer(s.version, s.body)

(* The lifecycle only moves DRAFT -> PUBLISHED -> RETIRED (from nothing to *)
(* DRAFT), and a saved definition and a launch are never undone: what the  *)
(* triggers protect_form_version and protect_form_definition enforce.      *)
VersionsOnlyAdvance ==
  [][\A v \in Versions :
       /\ <<versions[v].status, versions'[v].status>> \in
            {<<"NONE", "DRAFT">>, <<"DRAFT", "PUBLISHED">>,
             <<"PUBLISHED", "RETIRED">>} \cup {<<s, s>> : s \in Statuses}
       /\ Saved(v) => versions'[v].definition = versions[v].definition
       /\ versions[v].launched => versions'[v].launched]_formVars
=============================================================================
