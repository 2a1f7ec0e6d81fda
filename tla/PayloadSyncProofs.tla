-------------------------- MODULE PayloadSyncProofs --------------------------
(* Synchronizing a document with the API: whatever is edited, retried,     *)
(* abandoned or executed late, and however many synchronizations run at    *)
(* once, nothing goes live that was not saved as PUBLISHED, and the        *)
(* metadata of the document tell the truth.                                *)
EXTENDS PayloadSync, TLAPS

(* The theorems about Forms, read for the API of this module.              *)
ApiProofs == INSTANCE FormsProofs WITH
  MemberOnly <- {}, Ids <- {}, Keys <- {}, Bodies <- {}, Signed <- {},
  WantsEvent <- {}, Fits <- {}, submissions <- {}, issued <- {}

USE DEF API!Versions, ApiProofs!Versions

(* The two readings of Forms have the same initial states and steps.       *)
LEMMA SameInit == ApiProofs!Init <=> API!Init
  BY DEF ApiProofs!Init, API!Init, ApiProofs!NoRow, API!NoRow

LEMMA SameSteps ==
  [ApiProofs!Next]_(ApiProofs!formVars) <=> [API!Next]_(API!formVars)
<1>1. ApiProofs!Next <=> API!Next
  BY Zenon
  DEF ApiProofs!Next, API!Next, ApiProofs!CreateForm, API!CreateForm,
      ApiProofs!PutVersion, API!PutVersion, ApiProofs!MayDraft, API!MayDraft,
      ApiProofs!Publish, API!Publish, ApiProofs!Retire, API!Retire,
      ApiProofs!Submit, API!Submit, ApiProofs!Delete, API!Delete,
      ApiProofs!Saved, API!Saved, ApiProofs!Live, API!Live,
      ApiProofs!IsNextNumber, API!IsNextNumber,
      ApiProofs!NewerLaunched, API!NewerLaunched,
      ApiProofs!RowAfterPublish, API!RowAfterPublish,
      ApiProofs!DraftRow, API!DraftRow, ApiProofs!PublishedRow,
      API!PublishedRow, ApiProofs!RetiredRow, API!RetiredRow,
      ApiProofs!MayAnswer, API!MayAnswer, ApiProofs!Earlier, API!Earlier
<1>2. QED
  BY <1>1 DEF ApiProofs!formVars, API!formVars

(* A call changes the API by a step of Forms, or not at all.               *)
LEMMA CallIsApiStep ==
  ASSUME NEW c, c.document \in Documents, NEW r, Executes(c, r)
  PROVE  [API!Next]_(API!formVars)
<1>1. /\ c.document.version \in API!Versions
      /\ c.document.definition \in Definitions
  BY DEF Documents
<1>2. CASE UNCHANGED api
  BY <1>2 DEF api, API!formVars
<1>3. CASE ~ UNCHANGED api
  BY <1>1, <1>3, Zenon DEF Executes, API!Next
<1>4. QED
  BY <1>2, <1>3

(* What every step of Forms does to the rows.                              *)
LEMMA RowsKept ==
  ASSUME ApiProofs!LifecycleInv, [API!Next]_(API!formVars),
         NEW v \in API!Versions
  PROVE  /\ API!Saved(v) => /\ API!Saved(v)'
                            /\ versions'[v].definition = versions[v].definition
         /\ versions[v].launched => versions'[v].launched
         /\ versions[v].status = "RETIRED" => versions'[v].status = "RETIRED"
<1>1. [ApiProofs!Next]_(ApiProofs!formVars)
  BY SameSteps
<1>2. /\ <<versions[v].status, versions'[v].status>> \in
           {<<"NONE", "DRAFT">>, <<"DRAFT", "PUBLISHED">>,
            <<"PUBLISHED", "RETIRED">>}
           \cup {<<s, s>> : s \in ApiProofs!Statuses}
      /\ ApiProofs!Saved(v) =>
           versions'[v].definition = versions[v].definition
      /\ versions[v].launched => versions'[v].launched
  BY <1>1, SyncAssumption, ApiProofs!RowsKeepHistory
<1>3. QED
  BY <1>2 DEF API!Saved, ApiProofs!Saved

LEMMA LaunchedAreSaved ==
  ASSUME ApiProofs!LifecycleInv, NEW v \in API!Versions
  PROVE  /\ versions[v].launched => API!Saved(v)
         /\ API!Live(v) => versions[v].launched
         /\ versions[v] \in API!Row
  BY DEF ApiProofs!LifecycleInv, ApiProofs!TypeOK, ApiProofs!ViewPerLaunch,
         API!Saved, API!Live, API!Row, ApiProofs!Row, API!Statuses,
         ApiProofs!Statuses
-----------------------------------------------------------------------------
(* The inductive invariant follows a synchronization call by call.  The    *)
(* version of document d is saved with the content of d:                   *)
HasContent(d) ==
  API!Saved(d.version) /\ versions[d.version].definition = d.definition

(* What an accepted call leaves behind for good.                           *)
Achieved(op, d) ==
  /\ op # "create" => HasContent(d)
  /\ op = "publish" => versions[d.version].launched
  /\ op = "retire" => versions[d.version].status = "RETIRED"

(* What it leaves behind until a call for another document undoes it.      *)
Kept(d) ==
  /\ d.apiStatus = "PUBLISHED" => API!Live(d.version)
  /\ d.apiStatus = "DRAFT" => versions[d.version].status = "DRAFT"

(* A call is made for a document that was saved, to reach the status it    *)
(* asks for, and publish and retire only after put has been accepted.      *)
CallMeant(op, d) ==
  /\ d \in Documents
  /\ d.apiStatus = "PUBLISHED" => d \in asked
  /\ op = "publish" => d.apiStatus = "PUBLISHED" /\ HasContent(d)
  /\ op = "retire" => d.apiStatus = "RETIRED" /\ HasContent(d)

(* A synchronization whose document is as it was read.                     *)
Current(s) == pc[s] # "idle" /\ readAt[s] = updatedAt

SyncMeant(s) ==
  pc[s] # "idle" =>
    /\ CallMeant(pc[s], read[s])
    /\ readAt[s] <= updatedAt
    /\ pc[s] \in Ops /\ Accepted(s) => Achieved(pc[s], read[s])
    /\ pc[s] = "update" => HasContent(read[s]) /\ Reached(read[s])

(* Has the synchronization seen its document in the status it asks for?    *)
Arrived(s) ==
  \/ pc[s] = "update"
  \/ pc[s] = "publish" /\ Accepted(s)
  \/ pc[s] = "put" /\ reply[s] = "DRAFT" /\ read[s].apiStatus = "DRAFT"

RecordedIsSaved == recorded # NoDocument => HasContent(recorded)
DocumentMeant == doc.apiStatus = "PUBLISHED" => doc \in asked
SyncsMeant == \A s \in Syncs : SyncMeant(s)
LateMeant == \A c \in late : CallMeant(c.op, c.document)
CurrentAreDoc == \A s \in Syncs : Current(s) => read[s] = doc
ArrivedAreKept ==
  \A s \in Syncs :
    since # "overtaken" /\ Current(s) /\ Arrived(s) => Kept(read[s])

SyncInv ==
  /\ SyncTypeOK /\ ApiProofs!LifecycleInv
  /\ RecordedIsSaved /\ DocumentMeant /\ SyncsMeant /\ LateMeant
  /\ CurrentAreDoc /\ ArrivedAreKept
  /\ PublishedAsSaved /\ MetadataTrue

(* The calls a synchronization makes are calls of the model.               *)
LEMMA CallFields ==
  ASSUME NEW s \in Syncs
  PROVE  Call(s).op = pc[s] /\ Call(s).document = read[s]
  BY DEF Call

LEMMA CallTyped ==
  ASSUME NEW op, NEW d, CallMeant(op, d)
  PROVE  /\ d.version \in API!Versions /\ d.definition \in Definitions
         /\ d.apiStatus \in {"DRAFT", "PUBLISHED", "RETIRED"}
         /\ d = [version |-> d.version, definition |-> d.definition,
                 apiStatus |-> d.apiStatus]
  BY DEF CallMeant, Documents

-----------------------------------------------------------------------------
(* What one execution of a call by the API does, whoever waits for it.     *)
LEMMA ContentLasts ==
  ASSUME ApiProofs!LifecycleInv, [API!Next]_(API!formVars),
         NEW d \in Documents
  PROVE  /\ HasContent(d) => HasContent(d)'
         /\ HasContent(d) /\ Reached(d) => Reached(d)'
         /\ \A op \in Ops : Achieved(op, d) => Achieved(op, d)'
<1>1. d.version \in API!Versions
  BY DEF Documents
<1>2. QED
  BY <1>1, RowsKept DEF HasContent, Reached, Achieved

LEMMA RowsTyped ==
  ASSUME ApiProofs!LifecycleInv, NEW c, NEW r, Executes(c, r),
         CallMeant(c.op, c.document)
  PROVE  /\ form' \in BOOLEAN
         /\ versions' \in [API!Versions -> API!Row]
         /\ ApiProofs!LifecycleInv'
<1>1. [ApiProofs!Next]_(ApiProofs!formVars)
  BY CallIsApiStep, SameSteps DEF CallMeant
<1>2. ApiProofs!LifecycleInv'
  BY <1>1, SyncAssumption, ApiProofs!LifecycleInductive
<1>3. QED
  BY <1>2
  DEF ApiProofs!LifecycleInv, ApiProofs!TypeOK, API!Row, ApiProofs!Row,
      API!Statuses, ApiProofs!Statuses

(* What each reply tells the caller.                                       *)
LEMMA ReplyTells ==
  ASSUME ApiProofs!LifecycleInv, NEW c, NEW r, Executes(c, r),
         c.op \in Ops, CallMeant(c.op, c.document)
  PROVE  /\ r \in Replies \ {"waiting"}
         /\ r # "refused" => Achieved(c.op, c.document)'
         /\ c.op = "publish" /\ r # "refused" => API!Live(c.document.version)'
         /\ c.op = "put" /\ r = "DRAFT" =>
              versions'[c.document.version].status = "DRAFT"
<1> DEFINE d == c.document
           v == d.version
<1>1. v \in API!Versions /\ d.definition \in Definitions
  BY CallTyped
<1>2. /\ versions[v] \in API!Row
      /\ versions[v].launched => API!Saved(v)
      /\ API!Live(v) => versions[v].launched
  BY <1>1, LaunchedAreSaved
<1>3. versions \in [API!Versions -> API!Row]
  BY DEF ApiProofs!LifecycleInv, ApiProofs!TypeOK, API!Row, ApiProofs!Row,
         API!Statuses, ApiProofs!Statuses
<1>4. CASE Refuses(c) /\ r = "refused"
  <2>1. c.op # "create"
    BY <1>4 DEF Refuses
  <2>2. QED
    BY <1>4 DEF Replies
<1>5. CASE c.op = "create" /\ r = "registered"
  BY <1>5 DEF Achieved, Replies
<1>6. ASSUME UNCHANGED api, r = versions[v].status
      PROVE  /\ r \in Replies \ {"waiting", "refused"}
             /\ HasContent(d) => HasContent(d)'
             /\ versions' = versions
  <2>1. versions' = versions
    BY <1>6 DEF api
  <2>2. versions[v].status \in API!Statuses
    BY <1>2 DEF API!Row
  <2>3. QED
    BY <1>6, <2>1, <2>2 DEF HasContent, API!Saved, Replies, API!Statuses
<1>7. CASE c.op = "put" /\ ~Refuses(c)
  <2>1. CASE API!Saved(v) /\ UNCHANGED api /\ r = versions[v].status
    <3>1. HasContent(d)
      BY <1>7, <2>1 DEF Refuses, HasContent
    <3>2. QED
      BY <1>6, <1>7, <2>1, <3>1 DEF Achieved
  <2>2. CASE API!PutVersion(v, d.definition) /\ r = "DRAFT"
    <3>1. versions'[v] = API!DraftRow(d.definition)
      BY <1>1, <1>3, <2>2 DEF API!PutVersion
    <3>2. QED
      BY <1>7, <2>2, <3>1
      DEF Achieved, HasContent, API!Saved, API!DraftRow, Replies, API!Statuses
  <2>3. QED
    BY <1>7, <2>1, <2>2 DEF Executes
<1>8. CASE c.op = "publish" /\ ~(Refuses(c) /\ r = "refused")
  <2>1. HasContent(d)
    BY <1>8 DEF CallMeant
  <2>2. CASE API!Live(v) /\ UNCHANGED api /\ r = versions[v].status
    BY <1>2, <1>6, <1>8, <2>1, <2>2 DEF Achieved, API!Live
  <2>3. CASE API!Publish(v) /\ r = "PUBLISHED"
    <3>1. versions'[v] = API!PublishedRow(versions[v])
      BY <1>1, <2>3 DEF API!Publish, API!RowAfterPublish
    <3>2. QED
      BY <1>8, <2>1, <2>3, <3>1
      DEF Achieved, HasContent, API!Saved, API!Live, API!PublishedRow,
          Replies, API!Statuses
  <2>4. QED
    BY <1>8, <2>2, <2>3 DEF Executes
<1>9. CASE c.op = "retire" /\ ~(Refuses(c) /\ r = "refused")
  <2>1. HasContent(d)
    BY <1>9 DEF CallMeant
  <2>2. CASE versions[v].status = "RETIRED" /\ UNCHANGED api
               /\ r = versions[v].status
    BY <1>6, <1>9, <2>1, <2>2 DEF Achieved
  <2>3. CASE API!Retire(v) /\ r = "RETIRED"
    <3>1. versions'[v] = API!RetiredRow(versions[v])
      BY <1>1, <1>3, <2>3 DEF API!Retire
    <3>2. /\ versions'[v].status = "RETIRED"
          /\ versions'[v].definition = versions[v].definition
      BY <1>2, <3>1 DEF API!RetiredRow, API!Row
    <3>3. QED
      BY <1>9, <2>1, <2>3, <3>2
      DEF Achieved, HasContent, API!Saved, Replies, API!Statuses
  <2>4. QED
    BY <1>9, <2>2, <2>3 DEF Executes
<1>10. QED
  BY <1>4, <1>5, <1>7, <1>8, <1>9 DEF Executes, Ops

(* No call for a document undoes what that document asks for.              *)
LEMMA OwnCallsKeep ==
  ASSUME ApiProofs!LifecycleInv, NEW c, NEW r, Executes(c, r),
         c.op \in Ops, NEW d, d = c.document, CallMeant(c.op, d), Kept(d)
  PROVE  Kept(d)'
<1>1. d.version \in API!Versions /\ d.definition \in Definitions
  BY CallTyped
<1>2. CASE versions' = versions
  BY <1>2 DEF Kept, API!Live
<1>3. CASE API!PutVersion(d.version, d.definition)
  <2>1. ~API!Saved(d.version)
    BY <1>3 DEF API!PutVersion, API!MayDraft
  <2>2. QED
    BY <2>1 DEF Kept, API!Saved, API!Live
<1>4. CASE c.op = "publish" /\ API!Publish(d.version)
  <2>1. versions'[d.version] = API!PublishedRow(versions[d.version])
    BY <1>1, <1>4 DEF API!Publish, API!RowAfterPublish
  <2>2. d.apiStatus = "PUBLISHED"
    BY <1>4 DEF CallMeant
  <2>3. QED
    BY <2>1, <2>2 DEF Kept, API!Live, API!PublishedRow
<1>5. CASE c.op = "retire"
  BY <1>5 DEF Kept, CallMeant
<1>6. QED
  BY <1>2, <1>3, <1>4, <1>5 DEF Executes, api, API!CreateForm

(* Only a publish call launches a version, with the content of its         *)
(* document.                                                               *)
LEMMA OnlyPublishLaunches ==
  ASSUME SyncTypeOK, ApiProofs!LifecycleInv, PublishedAsSaved, NEW c, NEW r,
         Executes(c, r), CallMeant(c.op, c.document), asked' = asked
  PROVE  PublishedAsSaved'
<1> SUFFICES ASSUME NEW v \in API!Versions, versions'[v].launched
             PROVE  [version |-> v, definition |-> versions'[v].definition,
                     apiStatus |-> "PUBLISHED"] \in asked
  BY DEF PublishedAsSaved
<1> DEFINE d == c.document
<1>1. [API!Next]_(API!formVars)
  BY CallIsApiStep DEF CallMeant
<1>2. CASE versions[v].launched
  <2>1. versions'[v].definition = versions[v].definition
    BY <1>1, <1>2, RowsKept, LaunchedAreSaved
  <2>2. QED
    BY <1>2, <2>1 DEF PublishedAsSaved
<1>3. CASE ~versions[v].launched
  <2>1. d.version \in API!Versions /\ d.definition \in Definitions
    BY CallTyped
  <2>2. versions' # versions
    BY <1>3
  <2>3. ~API!PutVersion(d.version, d.definition)
    <3> SUFFICES ASSUME API!PutVersion(d.version, d.definition) PROVE FALSE
      OBVIOUS
    <3>1. versions'[v] = IF v = d.version THEN API!DraftRow(d.definition)
                         ELSE versions[v]
      BY <2>1 DEF API!PutVersion, SyncTypeOK
    <3>2. ~API!DraftRow(d.definition).launched
      BY DEF API!DraftRow
    <3>3. QED
      BY <1>3, <3>1, <3>2
  <2>4. ~API!Retire(d.version)
    BY <1>3, <2>1 DEF API!Retire, API!RetiredRow, SyncTypeOK, API!Row
  <2>5. c.op = "publish" /\ API!Publish(d.version)
    BY <2>2, <2>3, <2>4 DEF Executes, api, API!CreateForm
  <2>6. versions'[v] = API!RowAfterPublish(d.version, v)
    BY <2>5 DEF API!Publish
  <2>7. v = d.version
    BY <1>3, <2>6 DEF API!RowAfterPublish, API!RetiredRow, SyncTypeOK, API!Row
  <2>8. /\ HasContent(d) /\ d \in asked /\ d.apiStatus = "PUBLISHED"
    BY <2>5 DEF CallMeant
  <2>9. versions'[v].definition = d.definition
    BY <2>6, <2>7, <2>8
    DEF API!RowAfterPublish, API!PublishedRow, HasContent
  <2>10. d = [version |-> v, definition |-> versions'[v].definition,
              apiStatus |-> "PUBLISHED"]
    BY <2>7, <2>8, <2>9, CallTyped
  <2>11. QED
    BY <2>8, <2>10
<1>4. QED
  BY <1>2, <1>3
-----------------------------------------------------------------------------
(* The API executes a call, for its synchronization or after that has      *)
(* given up.                                                               *)
LEMMA ApiStep ==
  ASSUME SyncInv,
         NEW c, c.op \in Ops, CallMeant(c.op, c.document),
         NEW r, Executes(c, r), Overtakes(c),
         UNCHANGED <<document, pc, read, readAt>>, late' \subseteq late,
         reply' \in [Syncs -> Replies],
         \A s \in Syncs :
           \/ reply'[s] = reply[s]
           \/ Call(s) = c /\ pc[s] \in Ops /\ reply'[s] = r
  PROVE  SyncInv'
<1>1. /\ SyncTypeOK /\ ApiProofs!LifecycleInv /\ PublishedAsSaved
  BY DEF SyncInv
<1>2. /\ doc' = doc /\ updatedAt' = updatedAt /\ recorded' = recorded
      /\ asked' = asked /\ pc' = pc /\ read' = read /\ readAt' = readAt
  BY DEF document
<1>3. /\ form' \in BOOLEAN /\ versions' \in [API!Versions -> API!Row]
      /\ ApiProofs!LifecycleInv'
  BY <1>1, RowsTyped
<1>4. [API!Next]_(API!formVars)
  BY CallIsApiStep DEF CallMeant
<1>5. SyncTypeOK'
  BY <1>1, <1>2, <1>3 DEF SyncTypeOK, Overtakes
<1>6. ASSUME NEW d \in Documents
      PROVE  /\ HasContent(d) => HasContent(d)'
             /\ HasContent(d) /\ Reached(d) => Reached(d)'
             /\ \A op \in Ops : Achieved(op, d) => Achieved(op, d)'
  BY <1>1, <1>4, ContentLasts
<1>7. ASSUME NEW op, NEW d, CallMeant(op, d) PROVE CallMeant(op, d)'
  <2>1. d \in Documents
    BY <1>7 DEF CallMeant
  <2>2. QED
    BY <1>2, <1>6, <1>7, <2>1 DEF CallMeant
<1>8. ASSUME since' # "overtaken"
      PROVE  /\ since' = since
             /\ \A d \in Documents : d = doc /\ Kept(d) => Kept(d)'
  <2>1. since' = since /\ (c.document = doc \/ api' = api)
    BY <1>8 DEF Overtakes
  <2>2. CASE api' = api
    BY <2>1, <2>2 DEF api, Kept, API!Live
  <2>3. CASE c.document = doc
    BY <1>1, <2>1, <2>3, OwnCallsKeep
  <2>4. QED
    BY <2>1, <2>2, <2>3
<1>9. ASSUME NEW s \in Syncs, reply'[s] # reply[s]
      PROVE  /\ c.op = pc[s] /\ c.document = read[s] /\ reply'[s] = r
             /\ reply'[s] # "refused" => Achieved(pc[s], read[s])'
             /\ pc[s] = "publish" /\ reply'[s] # "refused" =>
                  API!Live(read[s].version)'
             /\ pc[s] = "put" /\ reply'[s] = "DRAFT" =>
                  versions'[read[s].version].status = "DRAFT"
  <2>1. c.op = pc[s] /\ c.document = read[s] /\ reply'[s] = r
    BY <1>9, CallFields
  <2>2. PICK d, op : d = read[s] /\ op = pc[s]
    OBVIOUS
  <2>3. /\ r # "refused" => Achieved(op, d)'
        /\ op = "publish" /\ r # "refused" => API!Live(d.version)'
        /\ op = "put" /\ r = "DRAFT" => versions'[d.version].status = "DRAFT"
    BY <1>1, <2>1, <2>2, ReplyTells
  <2>4. QED
    BY <1>2, <2>1, <2>2, <2>3
    DEF Achieved, HasContent, API!Saved, API!Live
<1>10. SyncsMeant'
  <2> SUFFICES ASSUME NEW s \in Syncs, pc[s] # "idle",
                      NEW op, op = pc[s], NEW d, d = read[s]
               PROVE  /\ CallMeant(op, d)'
                      /\ readAt[s] <= updatedAt
                      /\ op \in Ops /\ Accepted(s)' => Achieved(op, d)'
                      /\ op = "update" => HasContent(d)' /\ Reached(d)'
    BY <1>2
    DEF SyncsMeant, SyncMeant, CallMeant, Achieved, HasContent, Reached,
        API!Saved
  <2>1. SyncMeant(s)
    BY DEF SyncInv, SyncsMeant
  <2>2. CallMeant(op, d) /\ readAt[s] <= updatedAt /\ d \in Documents
    BY <2>1 DEF SyncMeant, CallMeant
  <2>3. op \in Ops /\ Accepted(s)' => Achieved(op, d)'
    <3>1. CASE reply'[s] = reply[s]
      BY <1>6, <2>1, <2>2, <3>1 DEF SyncMeant, Accepted
    <3>2. CASE reply'[s] # reply[s]
      <4>1. reply'[s] # "refused" => Achieved(pc[s], read[s])'
        BY <1>9, <3>2
      <4>2. QED
        BY <1>2, <4>1 DEF Accepted, Achieved, HasContent, API!Saved
    <3>3. QED
      BY <3>1, <3>2
  <2>4. op = "update" => HasContent(d)' /\ Reached(d)'
    BY <1>6, <2>1, <2>2 DEF SyncMeant
  <2>5. QED
    BY <1>7, <2>2, <2>3, <2>4
<1>11. ArrivedAreKept'
  <2> SUFFICES ASSUME NEW s \in Syncs, since' # "overtaken",
                      Current(s), Arrived(s)',
                      NEW d, d = read[s]
               PROVE  Kept(d)'
    BY <1>2 DEF ArrivedAreKept, Current, Kept, API!Live
  <2>1. d = doc /\ since # "overtaken"
    BY <1>8 DEF SyncInv, CurrentAreDoc
  <2>2. CASE Arrived(s)
    <3>1. d \in Documents
      BY <1>1, <2>1 DEF SyncTypeOK
    <3>2. Kept(d)
      BY <2>1, <2>2 DEF SyncInv, ArrivedAreKept
    <3>3. QED
      BY <1>8, <2>1, <3>1, <3>2
  <2>3. CASE ~Arrived(s)
    <3>1. reply'[s] # reply[s]
      BY <1>2, <2>3 DEF Arrived, Accepted
    <3>2. /\ pc[s] = "publish" /\ reply'[s] # "refused" =>
               API!Live(read[s].version)'
          /\ pc[s] = "put" /\ reply'[s] = "DRAFT" =>
               versions'[read[s].version].status = "DRAFT"
      BY <1>9, <3>1
    <3>3. CallMeant(pc[s], d)
      BY DEF SyncInv, SyncsMeant, SyncMeant, Current
    <3>4. CASE pc[s] = "publish" /\ reply'[s] # "refused"
      BY <1>2, <3>2, <3>3, <3>4 DEF Kept, CallMeant, API!Live
    <3>5. CASE pc[s] = "put" /\ reply'[s] = "DRAFT" /\ d.apiStatus = "DRAFT"
      BY <3>2, <3>5 DEF Kept
    <3>6. QED
      BY <1>2, <2>3, <3>4, <3>5 DEF Arrived, Accepted
  <2>4. QED
    BY <2>2, <2>3
<1>12. MetadataTrue' /\ RecordedIsSaved'
  <2>1. ASSUME recorded # NoDocument, NEW d \in Documents, d = recorded
        PROVE  HasContent(d)' /\ Reached(d)'
    BY <1>6, <2>1 DEF SyncInv, MetadataTrue, RecordedIsSaved
  <2>2. since' = "recorded" => Kept(doc)'
    <3> SUFFICES ASSUME since' = "recorded", NEW d \in Documents, d = doc
                 PROVE  Kept(d)'
      BY <1>1, <1>2 DEF SyncTypeOK, Kept, API!Live
    <3>1. Kept(d)
      BY <1>8 DEF SyncInv, MetadataTrue, Kept
    <3>2. QED
      BY <1>8, <3>1
  <2>3. QED
    BY <1>2, <1>5, <2>1, <2>2
    DEF SyncTypeOK, MetadataTrue, RecordedIsSaved, HasContent, Reached, Kept,
        API!Saved, API!Live
<1>13. /\ DocumentMeant' /\ CurrentAreDoc' /\ LateMeant' /\ PublishedAsSaved'
  <2>1. PublishedAsSaved'
    BY <1>1, <1>2, OnlyPublishLaunches
  <2>2. LateMeant'
    BY <1>7 DEF SyncInv, LateMeant
  <2>3. QED
    BY <1>2, <2>1, <2>2 DEF SyncInv, DocumentMeant, CurrentAreDoc, Current
<1>14. QED
  BY <1>3, <1>5, <1>10, <1>11, <1>12, <1>13 DEF SyncInv

LEMMA CallStep ==
  ASSUME SyncInv,
         \/ \E s \in Syncs : ApiReplies(s)
         \/ \E c \in late : LateCall(c)
  PROVE  SyncInv'
<1>1. SyncTypeOK
  BY DEF SyncInv
<1>2. ASSUME NEW s \in Syncs, ApiReplies(s) PROVE SyncInv'
  <2>1. PICK r \in Replies \ {"waiting"} :
          Executes(Call(s), r) /\ reply' = [reply EXCEPT ![s] = r]
    BY <1>2 DEF ApiReplies
  <2>2. /\ pc[s] \in Ops /\ Overtakes(Call(s)) /\ late' = late
        /\ UNCHANGED <<document, pc, read, readAt>>
    BY <1>2 DEF ApiReplies
  <2>3. Call(s).op \in Ops /\ CallMeant(Call(s).op, Call(s).document)
    BY <2>2, CallFields DEF SyncInv, SyncsMeant, SyncMeant, Ops
  <2>4. /\ reply' \in [Syncs -> Replies]
        /\ \A t \in Syncs : reply'[t] = reply[t] \/ (t = s /\ reply'[t] = r)
    BY <1>1, <2>1 DEF SyncTypeOK
  <2>5. \A t \in Syncs :
          \/ reply'[t] = reply[t]
          \/ Call(t) = Call(s) /\ pc[t] \in Ops /\ reply'[t] = r
    BY <2>2, <2>4
  <2>6. QED
    BY <2>1, <2>2, <2>3, <2>4, <2>5, ApiStep
<1>3. ASSUME NEW c \in late, LateCall(c) PROVE SyncInv'
  <2>1. PICK r \in Replies : Executes(c, r)
    BY <1>3 DEF LateCall
  <2>2. c.op \in Ops /\ CallMeant(c.op, c.document)
    BY <1>1 DEF SyncInv, LateMeant, SyncTypeOK, Calls
  <2>3. /\ Overtakes(c) /\ late' \subseteq late /\ reply' = reply
        /\ UNCHANGED <<document, pc, read, readAt>>
    BY <1>3 DEF LateCall, sync
  <2>4. reply' \in [Syncs -> Replies]
    BY <1>1, <2>3 DEF SyncTypeOK
  <2>5. QED
    BY <2>1, <2>2, <2>3, <2>4, ApiStep
<1>4. QED
  BY <1>2, <1>3
-----------------------------------------------------------------------------
(* What is asked of the API stays meant when the API does not change.      *)
LEMMA SameApi ==
  ASSUME UNCHANGED api, asked \subseteq asked'
  PROVE  /\ ApiProofs!LifecycleInv => ApiProofs!LifecycleInv'
         /\ \A op, d : CallMeant(op, d) => CallMeant(op, d)'
         /\ \A d : /\ HasContent(d)' = HasContent(d)
                   /\ Reached(d)' = Reached(d) /\ Kept(d)' = Kept(d)
                   /\ \A op : Achieved(op, d)' = Achieved(op, d)
         /\ PublishedAsSaved => PublishedAsSaved'
<1>1. form' = form /\ versions' = versions
  BY DEF api
<1>2. ApiProofs!LifecycleInv => ApiProofs!LifecycleInv'
  BY <1>1
  DEF ApiProofs!LifecycleInv, ApiProofs!TypeOK, ApiProofs!ViewPerLaunch,
      ApiProofs!LiveIsNewest, ApiProofs!Live
<1>3. \A d : /\ HasContent(d)' = HasContent(d)
             /\ Reached(d)' = Reached(d) /\ Kept(d)' = Kept(d)
             /\ \A op : Achieved(op, d)' = Achieved(op, d)
  BY <1>1 DEF HasContent, Reached, Kept, Achieved, API!Saved, API!Live
<1>4. \A op, d : CallMeant(op, d) => CallMeant(op, d)'
  BY <1>3 DEF CallMeant
<1>5. PublishedAsSaved => PublishedAsSaved'
  BY <1>1 DEF PublishedAsSaved
<1>6. QED
  BY <1>2, <1>3, <1>4, <1>5

(* An edit makes every synchronization under way outdated.                 *)
LEMMA SaveStep ==
  ASSUME SyncInv, NEW d \in Documents, Save(d) PROVE SyncInv'
<1>1. SyncTypeOK /\ UNCHANGED api /\ asked \subseteq asked'
  BY DEF SyncInv, Save
<1>2. /\ doc' = d /\ updatedAt' = updatedAt + 1 /\ updatedAt < MaxUpdates
      /\ asked' = asked \cup Published(d) /\ since' = "saved"
      /\ recorded' = recorded /\ late' = late
      /\ pc' = pc /\ read' = read /\ readAt' = readAt /\ reply' = reply
  BY DEF Save, sync
<1>3. SyncTypeOK'
  BY <1>1, <1>2, SyncAssumption DEF SyncTypeOK, api, Published
<1>4. ASSUME NEW s \in Syncs, pc[s] # "idle" PROVE readAt[s] < updatedAt'
  <2>1. readAt[s] <= updatedAt /\ readAt[s] \in Nat /\ updatedAt \in Nat
    BY <1>1, <1>4, SyncAssumption DEF SyncInv, SyncsMeant, SyncMeant, SyncTypeOK
  <2>2. QED
    BY <1>2, <2>1
<1>5. ASSUME NEW s \in Syncs PROVE ~Current(s)' /\ SyncMeant(s)'
  <2>1. updatedAt \in Nat /\ readAt[s] \in Nat
    BY <1>1, SyncAssumption DEF SyncTypeOK
  <2>2. ~Current(s)'
    BY <1>2, <1>4, <2>1 DEF Current
  <2>3. PICK op, f : op = pc[s] /\ f = read[s]
    OBVIOUS
  <2>4. /\ pc[s] # "idle" => CallMeant(op, f)'
        /\ Achieved(op, f)' = Achieved(op, f)
        /\ HasContent(f)' = HasContent(f) /\ Reached(f)' = Reached(f)
    BY <1>1, <2>3, SameApi DEF SyncInv, SyncsMeant, SyncMeant
  <2>5. SyncMeant(s)
    BY DEF SyncInv, SyncsMeant
  <2>6. QED
    BY <1>2, <1>4, <2>1, <2>2, <2>3, <2>4, <2>5
    DEF SyncMeant, CallMeant, Achieved, HasContent, Reached, API!Saved,
        Accepted
<1>6. /\ RecordedIsSaved' /\ MetadataTrue'
  <2>1. PICK f : f = recorded
    OBVIOUS
  <2>2. HasContent(f)' = HasContent(f) /\ Reached(f)' = Reached(f)
    BY <1>1, SameApi
  <2>3. QED
    BY <1>2, <2>1, <2>2
    DEF SyncInv, RecordedIsSaved, MetadataTrue, HasContent, Reached, API!Saved
<1>7. LateMeant' /\ ApiProofs!LifecycleInv' /\ PublishedAsSaved'
  BY <1>1, <1>2, SameApi DEF SyncInv, LateMeant
<1>8. DocumentMeant'
  BY <1>2 DEF DocumentMeant, Published
<1>9. QED
  BY <1>3, <1>5, <1>6, <1>7, <1>8
  DEF SyncInv, SyncsMeant, CurrentAreDoc, ArrivedAreKept
-----------------------------------------------------------------------------
(* A synchronization moves to another call, or is over, while document     *)
(* and API stay as they are.                                               *)
Moves(s, op, f, n) ==
  /\ pc' = [pc EXCEPT ![s] = op]
  /\ read' = [read EXCEPT ![s] = f]
  /\ readAt' = [readAt EXCEPT ![s] = n]
  /\ reply' = [reply EXCEPT ![s] = "waiting"]

(* What has to hold where it arrives.                                      *)
MeantNext(op, f, n) ==
  op # "idle" =>
    /\ CallMeant(op, f)
    /\ n <= updatedAt
    /\ n = updatedAt => f = doc
    /\ op = "update" =>
         /\ HasContent(f) /\ Reached(f)
         /\ since # "overtaken" /\ n = updatedAt => Kept(f)

LEMMA OthersUnmoved ==
  ASSUME SyncTypeOK, NEW s \in Syncs, NEW op, NEW f, NEW n, Moves(s, op, f, n)
  PROVE  /\ pc'[s] = op /\ read'[s] = f /\ readAt'[s] = n
         /\ reply'[s] = "waiting"
         /\ \A t \in Syncs \ {s} :
              /\ pc'[t] = pc[t] /\ read'[t] = read[t]
              /\ readAt'[t] = readAt[t] /\ reply'[t] = reply[t]
  BY DEF Moves, SyncTypeOK

LEMMA MoveStep ==
  ASSUME SyncInv, NEW s \in Syncs,
         NEW op \in Ops \cup {"idle", "update"},
         NEW f \in Documents \cup {NoDocument}, NEW n \in 0 .. MaxUpdates,
         Moves(s, op, f, n), MeantNext(op, f, n),
         UNCHANGED <<api, document, since>>,
         \/ late' = late
         \/ pc[s] \in Ops /\ late' = late \cup {Call(s)}
  PROVE  SyncInv'
<1>1. SyncTypeOK
  BY DEF SyncInv
<1>2. /\ doc' = doc /\ updatedAt' = updatedAt /\ recorded' = recorded
      /\ asked' = asked /\ since' = since /\ UNCHANGED api
  BY DEF document
<1>3. ASSUME pc[s] \in Ops PROVE CallMeant(pc[s], read[s])
  BY <1>3 DEF SyncInv, SyncsMeant, SyncMeant, Ops
<1>4. late' \subseteq Calls
  BY <1>1, <1>3 DEF SyncTypeOK, Calls, Call, CallMeant
<1>5. SyncTypeOK'
  BY <1>1, <1>2, <1>4 DEF SyncTypeOK, Moves, api, Replies
<1>6. /\ pc'[s] = op /\ read'[s] = f /\ readAt'[s] = n
      /\ reply'[s] = "waiting"
      /\ \A t \in Syncs \ {s} :
           /\ pc'[t] = pc[t] /\ read'[t] = read[t]
           /\ readAt'[t] = readAt[t] /\ reply'[t] = reply[t]
  BY <1>1, OthersUnmoved
<1>7. LateMeant'
  BY <1>2, <1>3, SameApi, CallFields DEF SyncInv, LateMeant
<1>8. /\ ApiProofs!LifecycleInv' /\ PublishedAsSaved' /\ DocumentMeant'
      /\ RecordedIsSaved' /\ MetadataTrue'
  <2>1. /\ ApiProofs!LifecycleInv' /\ PublishedAsSaved'
    BY <1>2, SameApi DEF SyncInv
  <2>2. /\ DocumentMeant' /\ RecordedIsSaved' /\ MetadataTrue'
    BY <1>2
    DEF SyncInv, DocumentMeant, RecordedIsSaved, MetadataTrue, HasContent,
        Reached, API!Saved, API!Live, api
  <2>3. QED
    BY <2>1, <2>2
<1>9. ASSUME NEW t \in Syncs \ {s}
      PROVE  /\ SyncMeant(t)' /\ (Current(t)' => read'[t] = doc)
             /\ since # "overtaken" /\ Current(t)' /\ Arrived(t)'
                  => Kept(read[t])'
  <2>1. /\ SyncMeant(t) /\ (Current(t) => read[t] = doc)
        /\ since # "overtaken" /\ Current(t) /\ Arrived(t) => Kept(read[t])
    BY DEF SyncInv, SyncsMeant, CurrentAreDoc, ArrivedAreKept
  <2>2. versions' = versions
    BY <1>2 DEF api
  <2>3. SyncMeant(t)'
    BY <1>2, <1>6, <2>1, <2>2
    DEF SyncMeant, CallMeant, Achieved, HasContent, Reached, Accepted,
        API!Saved
  <2>4. (Current(t)' <=> Current(t)) /\ (Arrived(t)' <=> Arrived(t))
    BY <1>2, <1>6 DEF Current, Arrived, Accepted
  <2>5. Kept(read[t]) => Kept(read[t])'
    BY <1>6, <2>2 DEF Kept, API!Live
  <2>6. QED
    BY <1>6, <2>1, <2>3, <2>4, <2>5
<1>10. /\ SyncMeant(s)' /\ (Current(s)' => read'[s] = doc)
       /\ since # "overtaken" /\ Current(s)' /\ Arrived(s)'
            => Kept(read[s])'
  <2>1. versions' = versions
    BY <1>2 DEF api
  <2>2. ~Accepted(s)'
    BY <1>6 DEF Accepted
  <2>3. SyncMeant(s)'
    BY <1>2, <1>6, <2>1, <2>2
    DEF MeantNext, SyncMeant, CallMeant, HasContent, Reached, API!Saved
  <2>4. Current(s)' => read'[s] = doc
    BY <1>2, <1>6 DEF MeantNext, Current
  <2>5. Current(s)' /\ Arrived(s)' => op = "update" /\ n = updatedAt
    BY <1>2, <1>6, <2>2 DEF Arrived, Current
  <2>6. Kept(f) /\ f = read'[s] => Kept(read[s])'
    BY <2>1 DEF Kept, API!Live
  <2>7. QED
    BY <1>6, <2>3, <2>4, <2>5, <2>6 DEF MeantNext
<1>11. SyncsMeant' /\ CurrentAreDoc' /\ ArrivedAreKept'
  BY <1>2, <1>9, <1>10 DEF SyncsMeant, CurrentAreDoc, ArrivedAreKept
<1>12. QED
  BY <1>5, <1>7, <1>8, <1>11 DEF SyncInv

LEMMA StartStep ==
  ASSUME SyncInv, NEW s \in Syncs, StartSync(s) PROVE SyncInv'
<1>1. SyncTypeOK /\ DocumentMeant
  BY DEF SyncInv
<1>2. Moves(s, "create", doc, updatedAt)
  BY DEF StartSync, Moves
<1>3. doc \in Documents /\ updatedAt \in 0 .. MaxUpdates
  BY <1>1 DEF SyncTypeOK
<1>4. MeantNext("create", doc, updatedAt)
  BY <1>1, <1>3 DEF MeantNext, CallMeant, DocumentMeant
<1>5. QED
  BY <1>2, <1>3, <1>4, MoveStep DEF StartSync, Ops

(* The synchronization fails, is refused or gives up.                      *)
LEMMA EndStep ==
  ASSUME SyncInv, NEW s \in Syncs,
         CallFails(s) \/ CallRefused(s) \/ NotADraft(s) \/ RecordFails(s)
  PROVE  SyncInv'
<1>1. Moves(s, "idle", NoDocument, 0)
  BY DEF CallFails, CallRefused, NotADraft, RecordFails, Ends, Moves
<1>2. /\ UNCHANGED <<api, document, since>>
      /\ \/ late' = late
         \/ pc[s] \in Ops /\ late' = late \cup {Call(s)}
  BY DEF CallFails, CallRefused, NotADraft, RecordFails
<1>3. MeantNext("idle", NoDocument, 0) /\ 0 \in 0 .. MaxUpdates
  BY SyncAssumption DEF MeantNext
<1>4. QED
  BY <1>1, <1>2, <1>3, MoveStep

(* The call was accepted and the next one is due.                          *)
LEMMA NextCallStep ==
  ASSUME SyncInv, NEW s \in Syncs, NextCall(s) PROVE SyncInv'
<1> DEFINE op == Following(s)
           f == read[s]
           n == readAt[s]
<1>1. SyncTypeOK /\ pc[s] \in Ops /\ Accepted(s)
  BY DEF SyncInv, NextCall
<1>2. Moves(s, op, f, n)
  BY <1>1 DEF NextCall, Moves, SyncTypeOK
<1>3. SyncMeant(s) /\ pc[s] # "idle"
  BY <1>1 DEF SyncInv, SyncsMeant, Ops
<1>4. CallMeant(pc[s], f) /\ Achieved(pc[s], f) /\ n <= updatedAt
  BY <1>1, <1>3 DEF SyncMeant
<1>5. f.apiStatus \in {"DRAFT", "PUBLISHED", "RETIRED"} /\ f \in Documents
  BY <1>4, CallTyped DEF CallMeant
<1>6. op \in Ops \cup {"update"}
  BY DEF Following, Ops
<1>7. CallMeant(op, f)
  BY <1>1, <1>4 DEF CallMeant, Following, Achieved, Ops
<1>8. CASE op = "update"
  <2>1. \/ pc[s] = "put" /\ f.apiStatus = "DRAFT" /\ reply[s] = "DRAFT"
        \/ pc[s] = "publish" \/ pc[s] = "retire"
    BY <1>1, <1>5, <1>8 DEF Following, NextCall, Ops
  <2>2. HasContent(f) /\ Reached(f)
    BY <1>4, <2>1 DEF Achieved, Reached, HasContent, CallMeant
  <2>3. ASSUME since # "overtaken", n = updatedAt PROVE Kept(f)
    <3>1. CASE pc[s] = "retire"
      BY <1>4, <3>1 DEF CallMeant, Kept
    <3>2. CASE pc[s] # "retire"
      BY <1>1, <1>3, <2>1, <2>3, <3>2
      DEF SyncInv, ArrivedAreKept, Arrived, Current
    <3>3. QED
      BY <3>1, <3>2
  <2>4. n = updatedAt => f = doc
    BY <1>3 DEF SyncInv, CurrentAreDoc, Current
  <2>5. MeantNext(op, f, n)
    BY <1>4, <1>7, <2>2, <2>3, <2>4 DEF MeantNext
  <2>6. QED
    BY <1>1, <1>2, <1>3, <1>5, <1>6, <2>5, MoveStep DEF NextCall, SyncTypeOK
<1>9. CASE op # "update"
  <2>1. n = updatedAt => f = doc
    BY <1>3 DEF SyncInv, CurrentAreDoc, Current
  <2>2. MeantNext(op, f, n)
    BY <1>4, <1>7, <1>9, <2>1 DEF MeantNext
  <2>3. QED
    BY <1>1, <1>2, <1>3, <1>5, <1>6, <2>2, MoveStep DEF NextCall, SyncTypeOK
<1>10. QED
  BY <1>8, <1>9

(* The conditional update: what was read is still the document, so its     *)
(* synchronization is recorded, and every other one is outdated.           *)
LEMMA RecordStep ==
  ASSUME SyncInv, NEW s \in Syncs, Record(s) PROVE SyncInv'
<1>1. SyncTypeOK
  BY DEF SyncInv
<1>2. Moves(s, "idle", NoDocument, 0)
  BY DEF Record, Ends, Moves
<1>3. CASE ~Unchanged(s)
  <2>1. UNCHANGED <<api, document, since, late>>
    BY <1>3 DEF Record, document
  <2>2. MeantNext("idle", NoDocument, 0) /\ 0 \in 0 .. MaxUpdates
    BY SyncAssumption DEF MeantNext
  <2>3. QED
    BY <1>2, <2>1, <2>2, MoveStep
<1>4. CASE Unchanged(s)
  <2>1. /\ pc[s] = "update" /\ readAt[s] = updatedAt
        /\ updatedAt < MaxUpdates /\ recorded' = doc
        /\ updatedAt' = updatedAt + 1
        /\ since' = IF since = "saved" THEN "recorded" ELSE since
        /\ UNCHANGED api /\ doc' = doc /\ asked' = asked /\ late' = late
    BY <1>4 DEF Record, Unchanged
  <2>2. /\ read[s] = doc /\ HasContent(doc) /\ Reached(doc)
        /\ since # "overtaken" => Kept(doc)
    BY <2>1
    DEF SyncInv, CurrentAreDoc, SyncsMeant, SyncMeant, ArrivedAreKept,
        Current, Arrived
  <2>3. /\ pc'[s] = "idle"
        /\ \A t \in Syncs \ {s} :
             /\ pc'[t] = pc[t] /\ read'[t] = read[t]
             /\ readAt'[t] = readAt[t] /\ reply'[t] = reply[t]
    BY <1>1, <1>2, OthersUnmoved
  <2>4. SyncTypeOK'
    BY <1>1, <1>2, <2>1, SyncAssumption
    DEF SyncTypeOK, Moves, api, Replies
  <2>5. ASSUME NEW t \in Syncs PROVE ~Current(t)' /\ SyncMeant(t)'
    <3>1. CASE t = s
      BY <2>3, <3>1 DEF Current, SyncMeant
    <3>2. CASE t # s
      <4>1. SyncMeant(t) /\ updatedAt \in Nat /\ readAt[t] \in Nat
        BY <1>1, SyncAssumption DEF SyncInv, SyncsMeant, SyncTypeOK
      <4>2. versions' = versions
        BY <2>1 DEF api
      <4>3. ~Current(t)'
        BY <2>1, <2>3, <3>2, <4>1 DEF Current, SyncMeant
      <4>4. SyncMeant(t)'
        BY <2>1, <2>3, <3>2, <4>1, <4>2
        DEF SyncMeant, CallMeant, Achieved, HasContent, Reached, Accepted,
            API!Saved
      <4>5. QED
        BY <4>3, <4>4
    <3>3. QED
      BY <3>1, <3>2
  <2>6. /\ RecordedIsSaved' /\ MetadataTrue'
    <3>1. versions' = versions
      BY <2>1 DEF api
    <3>2. HasContent(doc)' /\ Reached(doc)'
      BY <2>1, <2>2, <3>1 DEF HasContent, Reached, API!Saved
    <3>3. since' = "recorded" => Kept(doc)
      BY <2>1, <2>2
    <3>4. QED
      BY <2>1, <3>1, <3>2, <3>3
      DEF RecordedIsSaved, MetadataTrue, HasContent, Reached, Kept,
          API!Saved, API!Live
  <2>7. /\ ApiProofs!LifecycleInv' /\ PublishedAsSaved' /\ LateMeant'
    BY <2>1, SameApi DEF SyncInv, LateMeant
  <2>8. DocumentMeant'
    BY <2>1 DEF SyncInv, DocumentMeant
  <2>9. QED
    BY <2>4, <2>5, <2>6, <2>7, <2>8
    DEF SyncInv, SyncsMeant, CurrentAreDoc, ArrivedAreKept
<1>5. QED
  BY <1>3, <1>4

LEMMA StutterStep == SyncInv /\ UNCHANGED vars => SyncInv'
<1> SUFFICES ASSUME SyncInv, UNCHANGED vars PROVE SyncInv'
  OBVIOUS
<1>1. /\ UNCHANGED api /\ versions' = versions /\ form' = form
      /\ doc' = doc /\ updatedAt' = updatedAt /\ recorded' = recorded
      /\ asked' = asked /\ pc' = pc /\ read' = read /\ readAt' = readAt
      /\ reply' = reply /\ late' = late /\ since' = since
  BY DEF vars, api, document, sync
<1>2. /\ ApiProofs!LifecycleInv' /\ PublishedAsSaved' /\ LateMeant'
  BY <1>1, SameApi DEF SyncInv, LateMeant
<1>3. SyncTypeOK'
  BY <1>1 DEF SyncInv, SyncTypeOK
<1>4. /\ RecordedIsSaved' /\ MetadataTrue' /\ DocumentMeant'
  BY <1>1
  DEF SyncInv, RecordedIsSaved, MetadataTrue, DocumentMeant, HasContent,
      Reached, API!Saved, API!Live
<1>5. SyncsMeant'
  BY <1>1
  DEF SyncInv, SyncsMeant, SyncMeant, CallMeant, Achieved, HasContent,
      Reached, Accepted, API!Saved
<1>6. CurrentAreDoc' /\ ArrivedAreKept'
  BY <1>1
  DEF SyncInv, CurrentAreDoc, ArrivedAreKept, Current, Arrived, Accepted,
      Kept, API!Live
<1>7. QED
  BY <1>2, <1>3, <1>4, <1>5, <1>6 DEF SyncInv

LEMMA SyncInductive == SyncInv /\ [Next]_vars => SyncInv'
  BY CallStep, SaveStep, StartStep, EndStep, NextCallStep, RecordStep,
     StutterStep
  DEF Next

LEMMA SyncInitially == Init => SyncInv
<1> SUFFICES ASSUME Init PROVE SyncInv
  OBVIOUS
<1>1. ApiProofs!Init
  BY SameInit DEF Init, API!Init
<1>2. ApiProofs!LifecycleInv
  BY <1>1, SyncAssumption, ApiProofs!LifecycleInitially
<1>3. SyncTypeOK
  <2>1. API!NoRow \in API!Row
    BY DEF API!NoRow, API!Row, API!Statuses
  <2>2. doc \in Documents /\ asked \subseteq Documents
    BY DEF Init, Published
  <2>3. "waiting" \in Replies /\ 0 \in 0 .. MaxUpdates
    BY SyncAssumption DEF Replies
  <2>4. QED
    BY <2>1, <2>2, <2>3 DEF Init, SyncTypeOK
<1>4. /\ RecordedIsSaved /\ DocumentMeant /\ SyncsMeant /\ LateMeant
      /\ CurrentAreDoc /\ ArrivedAreKept /\ MetadataTrue
  BY DEF Init, RecordedIsSaved, DocumentMeant, SyncsMeant, SyncMeant,
         LateMeant, CurrentAreDoc, ArrivedAreKept, Current, MetadataTrue,
         Published
<1>5. PublishedAsSaved
  BY DEF Init, PublishedAsSaved, API!NoRow
<1>6. QED
  BY <1>2, <1>3, <1>4, <1>5 DEF SyncInv

(* The invariant of the integration, for any number of synchronizations,   *)
(* edits and late calls.                                                   *)
THEOREM SyncInvariant == Spec => []SyncInv
  BY SyncInitially, SyncInductive, PTL DEF Spec

(* Document, calls and rows stay well-typed.                               *)
THEOREM SyncTypeCorrect == Spec => []SyncTypeOK
  BY SyncInvariant, PTL DEF SyncInv

(* Nothing goes live with a content that no editor saved as PUBLISHED,     *)
(* however the calls of several synchronizations mix or come late.         *)
THEOREM LiveWasSaved == Spec => []PublishedAsSaved
  BY SyncInvariant, PTL DEF SyncInv

(* lastSyncedAt and lastSyncedVersion never claim a synchronization that   *)
(* did not happen.                                                         *)
THEOREM MetadataTellTruth == Spec => []MetadataTrue
  BY SyncInvariant, PTL DEF SyncInv

(* Whatever the synchronizations do, the API only takes steps of Forms.    *)
THEOREM SyncsUseForms == Spec => API!Spec
<1>1. Init => API!Init
  BY DEF Init, API!Init
<1>2. SyncInv /\ [Next]_vars => [API!Next]_(API!formVars)
  <2> SUFFICES ASSUME SyncInv, [Next]_vars PROVE [API!Next]_(API!formVars)
    OBVIOUS
  <2>1. UNCHANGED api => UNCHANGED API!formVars
    BY DEF api, API!formVars
  <2>2. ASSUME NEW s \in Syncs, ApiReplies(s)
        PROVE  [API!Next]_(API!formVars)
    <3>1. Call(s).document \in Documents
      BY <2>2, CallFields
      DEF ApiReplies, SyncInv, SyncsMeant, SyncMeant, CallMeant, Ops
    <3>2. QED
      BY <2>2, <3>1, CallIsApiStep DEF ApiReplies
  <2>3. ASSUME NEW c \in late, LateCall(c) PROVE [API!Next]_(API!formVars)
    BY <2>3, CallIsApiStep DEF LateCall, SyncInv, LateMeant, CallMeant
  <2>4. QED
    BY <2>1, <2>2, <2>3
    DEF Next, Save, StartSync, CallFails, CallRefused, NotADraft, NextCall,
        Record, RecordFails, vars
<1>3. QED
  BY <1>1, <1>2, SyncInvariant, PTL DEF Spec, API!Spec
=============================================================================
