---------------------------- MODULE FormsProofs ----------------------------
(* Theorems about Forms, for every number of versions and every set of     *)
(* definitions, ids, keys and bodies.                                      *)
EXTENDS Forms, TLAPS

USE DEF Versions

(* A version row is always one of the records the model names: the four    *)
(* helper operators stay inside Row.                                       *)
LEMMA RowsStayTyped ==
  /\ NoRow \in Row
  /\ \A d \in Definitions : DraftRow(d) \in Row
  /\ \A r \in Row : PublishedRow(r) \in Row /\ RetiredRow(r) \in Row
  BY DEF NoRow, DraftRow, PublishedRow, RetiredRow, Row, Statuses

(* The fields of the rows the helper operators build.                      *)
LEMMA RowFields ==
  /\ \A d \in Definitions :
       /\ DraftRow(d).status = "DRAFT" /\ DraftRow(d).definition = d
       /\ ~DraftRow(d).launched /\ ~DraftRow(d).view
  /\ \A r \in Row :
       /\ PublishedRow(r).status = "PUBLISHED"
       /\ PublishedRow(r).launched /\ PublishedRow(r).view
       /\ RetiredRow(r).status = "RETIRED"
       /\ RetiredRow(r).launched = r.launched /\ RetiredRow(r).view = r.view
       /\ PublishedRow(r).definition = r.definition
       /\ RetiredRow(r).definition = r.definition
  BY DEF DraftRow, PublishedRow, RetiredRow, Row

(* Every step keeps the type of the database.                              *)
LEMMA TypeStep == TypeOK /\ [Next]_formVars => TypeOK'
<1> SUFFICES ASSUME TypeOK, [Next]_formVars PROVE TypeOK'
  OBVIOUS
<1>1. CASE CreateForm
  BY <1>1 DEF TypeOK, CreateForm
<1>2. ASSUME NEW v \in Versions, NEW d \in Definitions, PutVersion(v, d)
      PROVE TypeOK'
  BY <1>2, RowsStayTyped DEF TypeOK, PutVersion, MayDraft
<1>3. ASSUME NEW v \in Versions, Publish(v) PROVE TypeOK'
  <2>1. \A u \in Versions : RowAfterPublish(v, u) \in Row
    BY RowsStayTyped DEF TypeOK, RowAfterPublish
  <2>2. QED
    BY <1>3, <2>1 DEF TypeOK, Publish
<1>4. ASSUME NEW v \in Versions, Retire(v) PROVE TypeOK'
  BY <1>4, RowsStayTyped DEF TypeOK, Retire
<1>5. ASSUME NEW id \in Ids, NEW v \in Versions, NEW k \in Keys,
             NEW b \in Bodies, Submit(id, v, k, b)
      PROVE TypeOK'
  BY <1>5 DEF TypeOK, Submit, Submission
<1>6. ASSUME NEW s \in submissions, Delete(s) PROVE TypeOK'
  BY <1>6 DEF TypeOK, Delete
<1>7. CASE UNCHANGED formVars
  BY <1>7 DEF TypeOK, formVars
<1>8. QED
  BY <1>1, <1>2, <1>3, <1>4, <1>5, <1>6, <1>7 DEF Next

(* Spec keeps the database well-typed for every value of the constants.    *)
THEOREM TypeCorrect == Spec => []TypeOK
<1>1. Init => TypeOK
  BY RowsStayTyped DEF Init, TypeOK
<1>2. QED
  BY <1>1, TypeStep, PTL DEF Spec
-----------------------------------------------------------------------------
(* What a step may do to one version row, in the terms the invariants use. *)
RowAdvances(v) ==
  \/ versions'[v] = versions[v]
  \/ /\ ~Saved(v)
     /\ \E d \in Definitions : versions'[v] = DraftRow(d)
  \/ /\ versions[v].status = "DRAFT"
     /\ ~NewerLaunched(v)
     /\ versions'[v] = PublishedRow(versions[v])
     /\ \A u \in Versions : u # v => versions'[u].status # "PUBLISHED"
  \/ /\ Live(v)
     /\ versions'[v] = RetiredRow(versions[v])

(* Every step of the service advances each row in one of these four ways.  *)
LEMMA StepAdvancesRows ==
  ASSUME TypeOK, [Next]_formVars
  PROVE  \A v \in Versions : RowAdvances(v)
<1> USE DEF RowAdvances
<1>1. CASE versions' = versions
  BY <1>1
<1>2. ASSUME NEW w \in Versions, NEW d \in Definitions, PutVersion(w, d)
      PROVE \A v \in Versions : RowAdvances(v)
  BY <1>2 DEF PutVersion, MayDraft, TypeOK
<1>3. ASSUME NEW w \in Versions, Publish(w)
      PROVE \A v \in Versions : RowAdvances(v)
  <2> SUFFICES ASSUME NEW v \in Versions PROVE RowAdvances(v)
    OBVIOUS
  <2>1. \A u \in Versions : versions'[u] = RowAfterPublish(w, u)
    BY <1>3 DEF Publish
  <2>2. \A u \in Versions : u # w => versions'[u].status # "PUBLISHED"
    BY <2>1, RowFields DEF RowAfterPublish, Live, TypeOK
  <2>3. CASE v = w
    BY <1>3, <2>1, <2>2, <2>3 DEF Publish, RowAfterPublish
  <2>4. CASE v # w
    BY <2>1, <2>4 DEF RowAfterPublish
  <2>5. QED
    BY <2>3, <2>4
<1>4. ASSUME NEW w \in Versions, Retire(w)
      PROVE \A v \in Versions : RowAdvances(v)
  BY <1>4 DEF Retire, TypeOK
<1>5. QED
  BY <1>1, <1>2, <1>3, <1>4
  DEF Next, CreateForm, Submit, Delete, formVars

(* The lifecycle invariant: views and launches follow the status, and the  *)
(* published version is the newest launched one (which makes it unique).   *)
LifecycleInv == TypeOK /\ ViewPerLaunch /\ LiveIsNewest

LEMMA LifecycleInductive == LifecycleInv /\ [Next]_formVars => LifecycleInv'
<1> SUFFICES ASSUME LifecycleInv, [Next]_formVars PROVE LifecycleInv'
  OBVIOUS
<1> USE DEF LifecycleInv
<1>1. TypeOK'
  BY TypeStep
<1>2. \A v \in Versions : RowAdvances(v)
  BY StepAdvancesRows
<1>3. \A v \in Versions : versions[v] \in Row /\ versions'[v] \in Row
  BY <1>1 DEF TypeOK
<1>4. ViewPerLaunch'
  <2> SUFFICES ASSUME NEW v \in Versions
               PROVE /\ versions'[v].view <=> versions'[v].launched
                     /\ versions'[v].launched <=>
                          versions'[v].status \in {"PUBLISHED", "RETIRED"}
    BY DEF ViewPerLaunch
  <2> QED
    BY <1>2, <1>3, RowFields DEF ViewPerLaunch, RowAdvances, Saved, Live
<1>5. LiveIsNewest'
  <2> SUFFICES ASSUME NEW u \in Versions, NEW v \in Versions,
                      versions'[v].status = "PUBLISHED", versions'[u].launched
               PROVE u <= v
    BY DEF LiveIsNewest, Live
  <2>1. \/ versions'[v] = versions[v]
        \/ /\ ~NewerLaunched(v)
           /\ \A w \in Versions : w # v => versions'[w].status # "PUBLISHED"
    BY <1>2, <1>3, RowFields DEF RowAdvances
  <2>2. versions[u].launched \/ versions'[u].status = "PUBLISHED"
    BY <1>2, <1>3, RowFields DEF RowAdvances, Live
  <2>3. CASE versions'[v] = versions[v]
    <3>1. CASE versions[u].launched
      BY <2>3, <3>1 DEF LiveIsNewest, Live
    <3>2. CASE ~versions[u].launched
      <4>1. /\ versions'[u].status = "PUBLISHED"
            /\ versions[u].status # "PUBLISHED"
        BY <2>2, <3>2 DEF ViewPerLaunch
      <4>2. \A w \in Versions : w # u => versions'[w].status # "PUBLISHED"
        BY <1>2, <1>3, <4>1, RowFields DEF RowAdvances
      <4>3. QED
        BY <4>2
    <3>3. QED
      BY <3>1, <3>2
  <2>4. CASE /\ ~NewerLaunched(v)
             /\ \A w \in Versions : w # v => versions'[w].status # "PUBLISHED"
    BY <2>2, <2>4 DEF NewerLaunched
  <2>5. QED
    BY <2>1, <2>3, <2>4
<1>6. QED
  BY <1>1, <1>4, <1>5

LEMMA LifecycleInitially == Init => LifecycleInv
<1> SUFFICES ASSUME Init PROVE LifecycleInv
  OBVIOUS
<1>1. \A v \in Versions : versions[v] = NoRow
  BY DEF Init
<1>2. TypeOK
  BY RowsStayTyped DEF Init, TypeOK
<1>3. QED
  BY <1>1, <1>2 DEF LifecycleInv, ViewPerLaunch, LiveIsNewest, Live, NoRow

THEOREM LifecycleInvariant == Spec => []LifecycleInv
  BY LifecycleInitially, LifecycleInductive, PTL DEF Spec

(* The published version is the newest launched one, in every reachable    *)
(* state and for every number of versions.                                 *)
THEOREM LiveVersionIsNewest == Spec => []LiveIsNewest
  BY LifecycleInvariant, PTL DEF LifecycleInv

(* Hence a form never has two published versions.                          *)
THEOREM AtMostOnePublished == Spec => []OnePublished
<1>1. LifecycleInv => OnePublished
  BY DEF LifecycleInv, ViewPerLaunch, LiveIsNewest, OnePublished, Live
<1>2. QED
  BY <1>1, LifecycleInvariant, PTL

(* A reporting view exists for exactly the launched versions.              *)
THEOREM ViewsFollowLaunches == Spec => []ViewPerLaunch
  BY LifecycleInvariant, PTL DEF LifecycleInv
-----------------------------------------------------------------------------
(* A row never loses its definition, its launch or its place in the        *)
(* lifecycle, whatever the step.                                           *)
LEMMA RowsKeepHistory ==
  ASSUME LifecycleInv, [Next]_formVars, NEW v \in Versions
  PROVE  /\ <<versions[v].status, versions'[v].status>> \in
              {<<"NONE", "DRAFT">>, <<"DRAFT", "PUBLISHED">>,
               <<"PUBLISHED", "RETIRED">>} \cup {<<s, s>> : s \in Statuses}
         /\ Saved(v) => versions'[v].definition = versions[v].definition
         /\ versions[v].launched => versions'[v].launched
<1>1. RowAdvances(v) /\ versions[v] \in Row
  BY StepAdvancesRows DEF TypeOK, LifecycleInv
<1>2. versions[v].status \in Statuses
  BY <1>1 DEF Row
<1>3. \/ versions'[v].status = versions[v].status
      \/ versions[v].status = "NONE" /\ versions'[v].status = "DRAFT"
      \/ versions[v].status = "DRAFT" /\ versions'[v].status = "PUBLISHED"
      \/ versions[v].status = "PUBLISHED" /\ versions'[v].status = "RETIRED"
  BY <1>1, RowFields DEF RowAdvances, Saved, Live
<1>4. Saved(v) => versions'[v].definition = versions[v].definition
  BY <1>1, RowFields DEF RowAdvances
<1>5. versions[v].launched => versions'[v].launched
  <2>1. versions[v].launched => Saved(v)
    BY DEF LifecycleInv, ViewPerLaunch, Saved
  <2>2. QED
    BY <1>1, <2>1, RowFields DEF RowAdvances
<1>6. QED
  BY <1>2, <1>3, <1>4, <1>5

(* protect_form_version and protect_form_definition never have to refuse.  *)
THEOREM VersionsAdvance == Spec => VersionsOnlyAdvance
<1>1. LifecycleInv /\ [Next]_formVars =>
        [\A v \in Versions :
           /\ <<versions[v].status, versions'[v].status>> \in
                {<<"NONE", "DRAFT">>, <<"DRAFT", "PUBLISHED">>,
                 <<"PUBLISHED", "RETIRED">>} \cup {<<s, s>> : s \in Statuses}
           /\ Saved(v) => versions'[v].definition = versions[v].definition
           /\ versions[v].launched => versions'[v].launched]_formVars
  BY RowsKeepHistory
<1>2. QED
  BY <1>1, LifecycleInvariant, PTL DEF Spec, VersionsOnlyAdvance

-----------------------------------------------------------------------------
(* The submission invariant: receipts are unique and every one of them     *)
(* fits a launched version.  It needs the lifecycle invariant, because a   *)
(* submission keeps fitting only if its version stays as it was.           *)
ReceiptInv == LifecycleInv /\ OneReceiptPerKey /\ SubmissionsFit

LEMMA ReceiptInductive == ReceiptInv /\ [Next]_formVars => ReceiptInv'
<1> SUFFICES ASSUME ReceiptInv, [Next]_formVars PROVE ReceiptInv'
  OBVIOUS
<1> USE DEF ReceiptInv
<1>1. LifecycleInv' /\ TypeOK /\ TypeOK'
  BY LifecycleInductive DEF LifecycleInv
<1>2. \A s \in submissions :
        /\ s.version \in Versions
        /\ versions'[s.version].launched
        /\ versions'[s.version].definition = versions[s.version].definition
  <2> SUFFICES ASSUME NEW s \in submissions
               PROVE /\ s.version \in Versions
                     /\ versions'[s.version].launched
                     /\ versions'[s.version].definition
                           = versions[s.version].definition
    OBVIOUS
  <2>1. s.version \in Versions
    BY <1>1 DEF TypeOK, Submission
  <2>2. versions[s.version].launched
    BY DEF SubmissionsFit
  <2>3. Saved(s.version)
    BY <2>1, <2>2 DEF LifecycleInv, ViewPerLaunch, Saved
  <2>4. QED
    BY <1>1, <2>1, <2>2, <2>3, RowsKeepHistory
<1>3. CASE submissions' \subseteq submissions /\ issued' = issued
  <2>1. OneReceiptPerKey'
    BY <1>3 DEF OneReceiptPerKey
  <2>2. SubmissionsFit'
    BY <1>2, <1>3 DEF SubmissionsFit, MayAnswer
  <2>3. QED
    BY <1>1, <2>1, <2>2
<1>4. ASSUME NEW id \in Ids, NEW v \in Versions, NEW k \in Keys,
             NEW b \in Bodies, Submit(id, v, k, b)
      PROVE ReceiptInv'
  <2> DEFINE new == [id |-> id, version |-> v, key |-> k, body |-> b]
  <2>1. /\ submissions' = submissions \cup {new}
        /\ issued' = issued \cup {id} /\ id \notin issued
        /\ versions' = versions
        /\ Live(v) /\ MayAnswer(v, b)
        /\ \A s \in submissions : ~(s.version = v /\ s.key = k)
    BY <1>4 DEF Submit, Earlier
  <2>2. \A s \in submissions : s.id # id
    BY <2>1 DEF SubmissionsFit
  <2>3. new.id = id /\ new.version = v /\ new.key = k /\ new.body = b
    OBVIOUS
  <2> HIDE DEF new
  <2>4. OneReceiptPerKey'
    BY <2>1, <2>2, <2>3 DEF OneReceiptPerKey
  <2>5. versions[v].launched
    BY <2>1 DEF LifecycleInv, ViewPerLaunch, Live
  <2>6. SubmissionsFit'
    BY <2>1, <2>3, <2>5 DEF SubmissionsFit, MayAnswer
  <2>7. QED
    BY <1>1, <2>4, <2>6
<1>5. QED
  BY <1>3, <1>4
  DEF Next, CreateForm, PutVersion, Publish, Retire, Delete, formVars

THEOREM ReceiptInvariant == Spec => []ReceiptInv
<1>1. Init => OneReceiptPerKey /\ SubmissionsFit
  BY DEF Init, OneReceiptPerKey, SubmissionsFit
<1>2. Init => LifecycleInv
  BY LifecycleInitially
<1>3. Init => ReceiptInv
  BY <1>1, <1>2 DEF ReceiptInv
<1>4. QED
  BY <1>3, ReceiptInductive, PTL DEF Spec

(* Two retained submissions never share a version and key, nor an id.      *)
THEOREM ReceiptsAreUnique == Spec => []OneReceiptPerKey
  BY ReceiptInvariant, PTL DEF ReceiptInv

(* Every retained submission answers a version that was published, under   *)
(* the access and field rules that version still has.                      *)
THEOREM SubmissionsStayValid == Spec => []SubmissionsFit
  BY ReceiptInvariant, PTL DEF ReceiptInv
-----------------------------------------------------------------------------
LEMMA GapsInductive == TypeOK /\ NoGaps /\ [Next]_formVars => NoGaps'
<1> SUFFICES ASSUME TypeOK, NoGaps, [Next]_formVars PROVE NoGaps'
  OBVIOUS
<1>1. ASSUME \A v \in Versions : Saved(v)' <=> Saved(v) PROVE NoGaps'
  BY <1>1 DEF NoGaps
<1>2. ASSUME NEW w \in Versions, NEW d \in Definitions, PutVersion(w, d)
      PROVE NoGaps'
  <2>1. \A v \in Versions : Saved(v)' <=> (Saved(v) \/ v = w)
    BY <1>2, RowFields DEF PutVersion, Saved, TypeOK
  <2>2. \A u \in Versions : u < w => Saved(u)
    BY <1>2 DEF PutVersion, MayDraft, IsNextNumber, NoGaps
  <2>3. QED
    BY <2>1, <2>2 DEF NoGaps
<1>3. ASSUME NEW w \in Versions, Publish(w) PROVE NoGaps'
  <2>1. \A v \in Versions : Saved(v)' <=> Saved(v)
    BY <1>3, RowFields DEF Publish, RowAfterPublish, Saved, Live, TypeOK
  <2>2. QED
    BY <1>1, <2>1
<1>4. ASSUME NEW w \in Versions, Retire(w) PROVE NoGaps'
  <2>1. \A v \in Versions : Saved(v)' <=> Saved(v)
    BY <1>4, RowFields DEF Retire, Saved, Live, TypeOK
  <2>2. QED
    BY <1>1, <2>1
<1>5. CASE versions' = versions
  BY <1>1, <1>5 DEF Saved
<1>6. QED
  BY <1>2, <1>3, <1>4, <1>5
  DEF Next, CreateForm, Submit, Delete, formVars

(* Revision numbers are handed out without gaps.                           *)
THEOREM NumbersHaveNoGaps == Spec => []NoGaps
<1>1. Init => NoGaps
  BY DEF Init, NoGaps, Saved, NoRow
<1>2. QED
  BY <1>1, GapsInductive, TypeCorrect, PTL DEF Spec
=============================================================================
