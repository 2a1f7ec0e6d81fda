----------------------------- MODULE PayloadSync -----------------------------
(***************************************************************************)
(* Editing a form in Payload and synchronizing the saved document with the *)
(* forms API: syncForm and the /:id/sync endpoint of                       *)
(* src/integrations/payload/forms.ts.  A sync is up to three HTTP calls    *)
(* and one conditional update of the document; calls can fail, be answered *)
(* too late, or take effect after the sync has given up on them.  The API  *)
(* executes each call as Forms promises.                                   *)
(***************************************************************************)
EXTENDS Integers, FiniteSets

CONSTANTS
  MaxVersion, Definitions, NoDefinition,  \* as in Forms
  Syncs,       \* sync requests that can run at the same time
  NoDocument,  \* what an idle sync has read
  MaxUpdates,  \* bound on updates of the document, 0 being its creation
  MaxLate      \* bound on abandoned calls that may still take effect

ASSUME SyncAssumption ==
  /\ MaxVersion \in Nat /\ MaxUpdates \in Nat
  /\ NoDefinition \notin Definitions

VARIABLES
  form, versions,  \* the API's rows, as in Forms
  doc,         \* the saved document
  updatedAt,   \* how often Payload has updated it
  recorded,    \* the document lastSyncedAt/lastSyncedVersion stand for
  pc,          \* the call each sync is at
  read,        \* the document it synchronizes
  readAt,      \* and the updatedAt of that document
  reply,       \* the API's reply to its call
  late,        \* calls that no sync waits for, but the API may execute
  asked,       \* history: the documents saved as PUBLISHED
  since        \* history: since its last save, has the document been recorded,
               \* and has a call made for another document taken effect?

API == INSTANCE Forms WITH
  MemberOnly <- {}, Ids <- {}, Keys <- {}, Bodies <- {}, Signed <- {},
  WantsEvent <- {}, Fits <- {}, submissions <- {}, issued <- {}

api == <<form, versions>>
document == <<doc, updatedAt, recorded, asked>>
sync == <<pc, read, readAt, reply>>
vars == <<api, document, sync, late, since>>

Documents ==
  [version : API!Versions, definition : Definitions,
   apiStatus : {"DRAFT", "PUBLISHED", "RETIRED"}]
Ops == {"create", "put", "publish", "retire"}
Calls == [op : Ops, document : Documents]
Replies == API!Statuses \cup {"registered", "refused", "waiting"}

SyncTypeOK ==
  /\ form \in BOOLEAN /\ versions \in [API!Versions -> API!Row]
  /\ doc \in Documents /\ updatedAt \in 0 .. MaxUpdates
  /\ recorded \in Documents \cup {NoDocument}
  /\ pc \in [Syncs -> Ops \cup {"idle", "update"}]
  /\ read \in [Syncs -> Documents \cup {NoDocument}]
  /\ readAt \in [Syncs -> 0 .. MaxUpdates]
  /\ reply \in [Syncs -> Replies]
  /\ late \subseteq Calls
  /\ asked \subseteq Documents
  /\ since \in {"saved", "recorded", "overtaken"}

Published(d) == IF d.apiStatus = "PUBLISHED" THEN {d} ELSE {}

Init ==
  /\ form = FALSE /\ versions = [v \in API!Versions |-> API!NoRow]
  /\ doc \in {d \in Documents : d.version = 1}
  /\ updatedAt = 0 /\ recorded = NoDocument /\ asked = Published(doc)
  /\ pc = [s \in Syncs |-> "idle"]
  /\ read = [s \in Syncs |-> NoDocument]
  /\ readAt = [s \in Syncs |-> 0]
  /\ reply = [s \in Syncs |-> "waiting"]
  /\ late = {} /\ since = "saved"

-----------------------------------------------------------------------------
(* An editor saves the document; its form key never changes.               *)
Save(d) ==
  /\ d # doc
  /\ updatedAt < MaxUpdates
  /\ doc' = d /\ updatedAt' = updatedAt + 1 /\ asked' = asked \cup Published(d)
  /\ since' = "saved"
  /\ UNCHANGED <<api, recorded, sync, late>>

(* The endpoint reads the document and makes its first call.               *)
StartSync(s) ==
  /\ pc[s] = "idle"
  /\ pc' = [pc EXCEPT ![s] = "create"]
  /\ read' = [read EXCEPT ![s] = doc]
  /\ readAt' = [readAt EXCEPT ![s] = updatedAt]
  /\ reply' = [reply EXCEPT ![s] = "waiting"]
  /\ UNCHANGED <<api, document, late, since>>

Call(s) == [op |-> pc[s], document |-> read[s]]

(* What the API refuses with 404 or 409.                                   *)
Refuses(c) ==
  LET v == c.document.version
  IN \/ /\ c.op = "put"
        /\ \/ ~form
           \/ API!Saved(v) /\ versions[v].definition # c.document.definition
           \/ ~API!Saved(v) /\ ~API!IsNextNumber(v)
     \/ /\ c.op = "publish"
        /\ \/ versions[v].status \in {"NONE", "RETIRED"}
           \/ versions[v].status = "DRAFT" /\ API!NewerLaunched(v)
     \/ c.op = "retire" /\ versions[v].status \in {"NONE", "DRAFT"}

(* The API executes call c and replies r.                                  *)
Executes(c, r) ==
  LET v == c.document.version
      again == UNCHANGED api /\ r = versions[v].status
  IN \/ c.op = "create" /\ API!CreateForm /\ r = "registered"
     \/ Refuses(c) /\ UNCHANGED api /\ r = "refused"
     \/ /\ c.op = "put" /\ ~Refuses(c)
        /\ \/ API!Saved(v) /\ again
           \/ API!PutVersion(v, c.document.definition) /\ r = "DRAFT"
     \/ /\ c.op = "publish"
        /\ \/ API!Live(v) /\ again
           \/ API!Publish(v) /\ r = "PUBLISHED"
     \/ /\ c.op = "retire"
        /\ \/ versions[v].status = "RETIRED" /\ again
           \/ API!Retire(v) /\ r = "RETIRED"

Overtakes(c) ==
  since' = IF c.document # doc /\ api' # api THEN "overtaken" ELSE since

ApiReplies(s) ==
  /\ pc[s] \in Ops /\ reply[s] = "waiting"
  /\ \E r \in Replies \ {"waiting"} :
       Executes(Call(s), r) /\ reply' = [reply EXCEPT ![s] = r]
  /\ Overtakes(Call(s))
  /\ UNCHANGED <<document, pc, read, readAt, late>>

(* A call that was abandoned takes effect after all.                       *)
LateCall(c) ==
  /\ c \in late
  /\ late' = late \ {c}
  /\ \E r \in Replies : Executes(c, r)
  /\ Overtakes(c)
  /\ UNCHANGED <<document, sync>>

(* The sync is over: 200 or, when something went wrong, 409 or 502.        *)
Ends(s) ==
  /\ pc' = [pc EXCEPT ![s] = "idle"]
  /\ read' = [read EXCEPT ![s] = NoDocument]
  /\ readAt' = [readAt EXCEPT ![s] = 0]
  /\ reply' = [reply EXCEPT ![s] = "waiting"]

(* The 15 s timeout, or a lost request or response.                        *)
CallFails(s) ==
  /\ pc[s] \in Ops
  /\ Ends(s)
  /\ \/ UNCHANGED late
     \/ /\ reply[s] = "waiting" /\ Cardinality(late) < MaxLate
        /\ late' = late \cup {Call(s)}
  /\ UNCHANGED <<api, document, since>>

CallRefused(s) ==
  /\ pc[s] \in Ops /\ reply[s] = "refused"
  /\ Ends(s)
  /\ UNCHANGED <<api, document, late, since>>

(* A DRAFT document whose version is not a draft any more.                 *)
NotADraft(s) ==
  /\ pc[s] = "put" /\ read[s].apiStatus = "DRAFT"
  /\ reply[s] \in {"PUBLISHED", "RETIRED"}
  /\ Ends(s)
  /\ UNCHANGED <<api, document, late, since>>

(* Faulty: a conflicting definition does not stop the synchronization.     *)
AnyReply(s) == reply[s] # "waiting"

Accepted(s) == reply[s] \notin {"waiting", "refused"}

(* Faulty: the requested status is taken for the name of the call.         *)
StatusAsCall(s) == IF pc[s] = "create" THEN "put" ELSE read[s].apiStatus

(* What comes after a successful call.                                     *)
Following(s) ==
  IF pc[s] = "create" THEN "put"
  ELSE IF pc[s] = "put" /\ read[s].apiStatus = "PUBLISHED" THEN "publish"
  ELSE IF pc[s] = "put" /\ read[s].apiStatus = "RETIRED" THEN "retire"
  ELSE "update"

NextCall(s) ==
  /\ pc[s] \in Ops
  /\ Accepted(s)
  /\ pc[s] = "put" /\ read[s].apiStatus = "DRAFT" => reply[s] = "DRAFT"
  /\ pc' = [pc EXCEPT ![s] = Following(s)]
  /\ reply' = [reply EXCEPT ![s] = "waiting"]
  /\ UNCHANGED <<api, document, read, readAt, late, since>>

(* Faulty: the document is updated whatever happened to it meanwhile.      *)
AnyDocument(s) == TRUE

Unchanged(s) == updatedAt = readAt[s]

(* The conditional update of lastSyncedAt and lastSyncedVersion, which is  *)
(* itself an update of the document.                                       *)
Record(s) ==
  /\ pc[s] = "update"
  /\ \/ /\ Unchanged(s) /\ updatedAt < MaxUpdates
        /\ recorded' = doc /\ updatedAt' = updatedAt + 1
        /\ since' = IF since = "saved" THEN "recorded" ELSE since
        /\ Ends(s)
     \/ /\ ~Unchanged(s)
        /\ Ends(s)
        /\ UNCHANGED <<recorded, updatedAt, since>>
  /\ UNCHANGED <<api, doc, asked, late>>

RecordFails(s) ==
  /\ pc[s] = "update"
  /\ Ends(s)
  /\ UNCHANGED <<api, document, late, since>>

Next ==
  \/ \E d \in Documents : Save(d)
  \/ \E s \in Syncs : StartSync(s)
  \/ \E s \in Syncs : ApiReplies(s)
  \/ \E c \in late : LateCall(c)
  \/ \E s \in Syncs : CallFails(s)
  \/ \E s \in Syncs : CallRefused(s)
  \/ \E s \in Syncs : NotADraft(s)
  \/ \E s \in Syncs : NextCall(s)
  \/ \E s \in Syncs : Record(s)
  \/ \E s \in Syncs : RecordFails(s)

Spec == Init /\ [][Next]_vars

-----------------------------------------------------------------------------
(* Nothing goes live that no editor saved as PUBLISHED: syncs of different *)
(* saves of a document may mix their calls, but the version they publish   *)
(* has exactly the content of a document that asked for publication.       *)
PublishedAsSaved ==
  \A v \in API!Versions : versions[v].launched =>
    [version |-> v, definition |-> versions[v].definition,
     apiStatus |-> "PUBLISHED"] \in asked

(* Has the API done what d asks for, whatever it was asked afterwards?     *)
Reached(d) ==
  /\ versions[d.version].definition = d.definition
  /\ d.apiStatus = "PUBLISHED" => versions[d.version].launched
  /\ d.apiStatus = "RETIRED" => versions[d.version].status = "RETIRED"

(* The metadata never claim a synchronization that did not happen, also    *)
(* when the document is edited or synchronized twice meanwhile; and while  *)
(* the saved document counts as synchronized the API still has what it     *)
(* asks for, unless a call made for another document took effect.          *)
MetadataTrue ==
  /\ recorded # NoDocument => Reached(recorded)
  /\ since = "recorded" =>
       /\ doc.apiStatus = "PUBLISHED" => API!Live(doc.version)
       /\ doc.apiStatus = "DRAFT" => versions[doc.version].status = "DRAFT"
=============================================================================
