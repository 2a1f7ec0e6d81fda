----------------------------- MODULE ApiProofs -----------------------------
(* Theorems about Api, for all tokens, versions, keys and contents: the    *)
(* guarded routes implement Forms, the audit columns are final and name    *)
(* editors, and a receipt stays with the member it was given to.           *)
EXTENDS Api, FormsProofs

(* A request that passes the guard is anonymous or has normalized claims.  *)
LEMMA ActorsHaveClaims ==
  ASSUME NEW h, NEW permission, NEW a \in CanActivate(h, permission)
  PROVE  a = Anonymous \/ \E c \in Claims : HasActor(c) /\ a = NormalizeActor(c)
  BY DEF CanActivate, Actors

(* A user id is what one of the two claims of a human's token says.        *)
LEMMA MemberIdSources ==
  ASSUME NEW c \in Claims
  PROVE  /\ MemberId(c) \in Identities \cup {NoMember}
         /\ MemberId(c) # NoMember =>
              ~c.isMachine /\ MemberId(c) \in {c.userId, c.nsUserId}
  BY DEF MemberId, Given

(* Whoever passes the guard of a managing route may manage forms by docs   *)
(* and claims, and leaves a name of theirs.                                *)
LEMMA EditorsMayManage ==
  ASSUME NEW h, NEW a \in CanActivate(h, "manage")
  PROVE  /\ a.subject \in Usable
         /\ \E c \in Claims :
              MayManage(c) /\ a.subject \in {c.sub, c.userId, c.nsUserId}
<1>1. a # Anonymous /\ Allowed(a, "manage")
  BY DEF CanActivate
<1>2. PICK c \in Claims : HasActor(c) /\ a = NormalizeActor(c)
  BY <1>1, ActorsHaveClaims
<1>3. /\ a.subject = Subject(c) /\ a.machine = c.isMachine
      /\ a.roles = Roles(c) /\ a.scopes = Scopes(c)
  BY <1>2 DEF NormalizeActor
<1>4. a.subject \in Usable
  BY <1>2, <1>3 DEF HasActor
<1>5. MayManage(c)
  BY <1>1, <1>3 DEF Allowed, MayManage
<1>6. a.subject \in {c.sub, c.userId, c.nsUserId}
  <2>1. CASE c.sub # Absent
    BY <1>3, <2>1 DEF Subject, Given
  <2>2. CASE c.sub = Absent
    <3>1. Subject(c) = IF ~c.isMachine /\ MemberId(c) \in Numeric
                       THEN MemberId(c) ELSE Absent
      BY <2>2 DEF Subject, Given
    <3>2. MemberId(c) \in Numeric /\ Subject(c) = MemberId(c)
      BY <1>3, <1>4, <3>1, ApiAssumption
    <3>3. QED
      BY <1>3, <3>2, MemberIdSources, ApiAssumption
  <2>3. QED
    BY <2>1, <2>2
<1>7. QED
  BY <1>4, <1>5, <1>6

(* The member of a submission is the user of a human's token.              *)
LEMMA MembersAreUsers ==
  ASSUME NEW h, NEW a \in CanActivate(h, "public")
  PROVE  /\ a.memberId \in Identities \cup {NoMember}
         /\ a.memberId # NoMember =>
              \E c \in Claims :
                ~c.isMachine /\ a.memberId \in {c.userId, c.nsUserId}
<1>1. CASE a = Anonymous
  BY <1>1 DEF Anonymous
<1>2. ASSUME NEW c \in Claims, a = NormalizeActor(c)
      PROVE a.memberId = MemberId(c)
  BY <1>2 DEF NormalizeActor
<1>3. QED
  BY <1>1, <1>2, ActorsHaveClaims, MemberIdSources
-----------------------------------------------------------------------------
(* What a submission request does, in the terms the invariants use.        *)
LEMMA SubmissionSteps ==
  ASSUME NEW h, NEW v \in Versions, NEW k \in Keys, NEW content \in Contents,
         PostSubmission(h, v, k, content)
  PROVE  \E b \in Bodies, id \in Ids :
           /\ \/ Submit(id, v, k, b)
              \/ /\ \E s \in submissions : s.id = id /\ s.body = b
                 /\ UNCHANGED formVars
           /\ receipts' = receipts \cup {<<id, b.member>>}
           /\ UNCHANGED audit
           /\ b.member \in Identities \cup {NoMember}
           /\ b.member # NoMember =>
                \E c \in Claims :
                  ~c.isMachine /\ b.member \in {c.userId, c.nsUserId}
<1>1. PICK a \in CanActivate(h, "public") :
        LET b == [content |-> content, member |-> a.memberId]
        IN /\ \E id \in Ids :
                /\ \/ Submit(id, v, k, b)
                   \/ /\ \E s \in Earlier(v, k) : s.id = id /\ SameRequest(s, b)
                      /\ UNCHANGED formVars
                /\ receipts' = receipts \cup {<<id, b.member>>}
           /\ UNCHANGED audit
  BY DEF PostSubmission
<1> DEFINE b == [content |-> content, member |-> a.memberId]
<1>2. b \in Bodies /\ b.member = a.memberId
  BY MembersAreUsers, MembersAssumption
<1>3. PICK id \in Ids :
        /\ \/ Submit(id, v, k, b)
           \/ /\ \E s \in Earlier(v, k) : s.id = id /\ SameRequest(s, b)
              /\ UNCHANGED formVars
        /\ receipts' = receipts \cup {<<id, b.member>>}
  BY <1>1
<1>4. UNCHANGED audit
  BY <1>1
<1> HIDE DEF b
<1>5. (\E s \in Earlier(v, k) : s.id = id /\ SameRequest(s, b))
        => \E s \in submissions : s.id = id /\ s.body = b
  BY DEF Earlier, SameRequest
<1>6. QED
  BY <1>2, <1>3, <1>4, <1>5, MembersAreUsers

(* Every request is a step of Forms or changes none of its tables.         *)
LEMMA RequestsAreSteps == [ApiNext]_vars => [Next]_formVars
<1>1. ASSUME NEW h \in Headers, PostForm(h) PROVE Next
  BY <1>1 DEF PostForm, Next
<1>2. ASSUME NEW h \in Headers, NEW v \in Versions, NEW d \in Definitions,
             PutDraft(h, v, d)
      PROVE Next
  BY <1>2 DEF PutDraft, Next
<1>3. ASSUME NEW h \in Headers, NEW v \in Versions, PostPublish(h, v)
      PROVE Next
  BY <1>3 DEF PostPublish, Next
<1>4. ASSUME NEW h \in Headers, NEW v \in Versions, PostRetire(h, v)
      PROVE Next
  BY <1>4 DEF PostRetire, Next
<1>5. ASSUME NEW h \in Headers, NEW v \in Versions, NEW k \in Keys,
             NEW content \in Contents, PostSubmission(h, v, k, content)
      PROVE [Next]_formVars
  BY <1>5, SubmissionSteps DEF Next
<1>6. ASSUME NEW s \in submissions, DeleteSubmission(s) PROVE Next
  BY <1>6 DEF DeleteSubmission, Next
<1>7. CASE UNCHANGED vars
  BY <1>7 DEF vars
<1>8. QED
  BY <1>1, <1>2, <1>3, <1>4, <1>5, <1>6, <1>7 DEF ApiNext

(* Behind the guard, whatever the tokens, the service is that of Forms.    *)
THEOREM ApiImplementsForms == ApiSpec => Spec
<1>1. ApiInit => Init
  BY DEF ApiInit
<1>2. QED
  BY <1>1, RequestsAreSteps, PTL DEF ApiSpec, Spec

(* Hence the rules of the lifecycle hold for the routes.                   *)
THEOREM ApiKeepsLifecycle == ApiSpec => []LiveIsNewest /\ VersionsOnlyAdvance
  BY ApiImplementsForms, LiveVersionIsNewest, VersionsAdvance, PTL
-----------------------------------------------------------------------------
(* The fields of an audit entry after one of the three signatures.         *)
LEMMA Signatures ==
  ASSUME NEW e \in Audit, NEW who \in Usable
  PROVE  /\ DraftedBy(e, who) \in Audit
         /\ DraftedBy(e, who).created = who
         /\ DraftedBy(e, who).published = e.published
         /\ DraftedBy(e, who).retired = e.retired
         /\ PublishedBy(e, who) \in Audit
         /\ PublishedBy(e, who).created = e.created
         /\ PublishedBy(e, who).published = who
         /\ PublishedBy(e, who).retired = e.retired
         /\ RetiredBy(e, who) \in Audit
         /\ RetiredBy(e, who).created = e.created
         /\ RetiredBy(e, who).published = e.published
         /\ RetiredBy(e, who).retired = who
  BY DEF Audit, DraftedBy, PublishedBy, RetiredBy

(* What a request does to the row and the audit entry of one version: it   *)
(* leaves both alone, or an editor signs the change of the row's status.   *)
EntryAdvances(v, who) ==
  \/ versions'[v] = versions[v] /\ audit'[v] = audit[v]
  \/ /\ ~Saved(v)
     /\ \E d \in Definitions : versions'[v] = DraftRow(d)
     /\ audit'[v] = DraftedBy(audit[v], who)
  \/ /\ versions[v].status = "DRAFT"
     /\ versions'[v] = PublishedRow(versions[v])
     /\ audit'[v] = PublishedBy(audit[v], who)
  \/ /\ Live(v)
     /\ versions'[v] = RetiredRow(versions[v])
     /\ audit'[v] = RetiredBy(audit[v], who)

(* The name of somebody who may manage forms.                              *)
Named(n) == \E c \in Claims : MayManage(c) /\ n \in {c.sub, c.userId, c.nsUserId}

Editor(who) == who \in Usable /\ Named(who)

(* Either nothing is signed, or everything that changes is signed by one   *)
(* editor.                                                                 *)
LEMMA StepsAreSigned ==
  ASSUME ApiTypeOK, [ApiNext]_vars
  PROVE  \/ audit' = audit /\ versions' = versions
         \/ /\ audit' \in [Versions -> Audit]
            /\ \E who \in Usable :
                 Editor(who) /\ \A v \in Versions : EntryAdvances(v, who)
<1> DEFINE Change ==
      /\ audit' \in [Versions -> Audit]
      /\ \E who \in Usable :
           Editor(who) /\ \A v \in Versions : EntryAdvances(v, who)
<1>0. TypeOK /\ audit \in [Versions -> Audit]
  BY DEF ApiTypeOK
<1>1. ASSUME NEW h \in Headers, NEW v \in Versions, NEW d \in Definitions,
             PutDraft(h, v, d)
      PROVE Change
  <2>1. PICK a \in CanActivate(h, "manage") :
          PutVersion(v, d) /\ audit' = [audit EXCEPT ![v] = DraftedBy(@, a.subject)]
    BY <1>1 DEF PutDraft
  <2>2. Editor(a.subject)
    BY EditorsMayManage DEF Editor, Named
  <2>3. audit' \in [Versions -> Audit]
    BY <1>0, <2>1, <2>2, Signatures DEF Editor
  <2>4. ASSUME NEW u \in Versions PROVE EntryAdvances(u, a.subject)
    BY <1>0, <2>1 DEF EntryAdvances, PutVersion, MayDraft, TypeOK
  <2>5. QED
    BY <2>2, <2>3, <2>4 DEF Editor
<1>2. ASSUME NEW h \in Headers, NEW v \in Versions, PostPublish(h, v)
      PROVE Change
  <2>1. PICK a \in CanActivate(h, "manage") :
          /\ Publish(v)
          /\ audit' = [u \in Versions |->
               IF u = v THEN PublishedBy(audit[u], a.subject)
               ELSE IF Superseded(u) THEN RetiredBy(audit[u], a.subject)
               ELSE audit[u]]
    BY <1>2 DEF PostPublish
  <2>2. Editor(a.subject)
    BY EditorsMayManage DEF Editor, Named
  <2>3. audit' \in [Versions -> Audit]
    BY <1>0, <2>1, <2>2, Signatures DEF Editor
  <2>4. ASSUME NEW u \in Versions PROVE EntryAdvances(u, a.subject)
    BY <1>0, <2>1 DEF EntryAdvances, Publish, RowAfterPublish, Superseded, TypeOK
  <2>5. QED
    BY <2>2, <2>3, <2>4 DEF Editor
<1>3. ASSUME NEW h \in Headers, NEW v \in Versions, PostRetire(h, v)
      PROVE Change
  <2>1. PICK a \in CanActivate(h, "manage") :
          Retire(v) /\ audit' = [audit EXCEPT ![v] = RetiredBy(@, a.subject)]
    BY <1>3 DEF PostRetire
  <2>2. Editor(a.subject)
    BY EditorsMayManage DEF Editor, Named
  <2>3. audit' \in [Versions -> Audit]
    BY <1>0, <2>1, <2>2, Signatures DEF Editor
  <2>4. ASSUME NEW u \in Versions PROVE EntryAdvances(u, a.subject)
    BY <1>0, <2>1 DEF EntryAdvances, Retire, TypeOK
  <2>5. QED
    BY <2>2, <2>3, <2>4 DEF Editor
<1>4. ASSUME NEW h \in Headers, NEW v \in Versions, NEW k \in Keys,
             NEW content \in Contents, PostSubmission(h, v, k, content)
      PROVE audit' = audit /\ versions' = versions
  BY <1>4, SubmissionSteps DEF Submit, formVars
<1>5. CASE \E h \in Headers : PostForm(h)
  BY <1>5 DEF PostForm, CreateForm, apiVars
<1>6. CASE \E s \in submissions : DeleteSubmission(s)
  BY <1>6 DEF DeleteSubmission, Delete, apiVars
<1>7. CASE UNCHANGED vars
  BY <1>7 DEF vars, formVars, apiVars
<1>8. QED
  BY <1>1, <1>2, <1>3, <1>4, <1>5, <1>6, <1>7 DEF ApiNext

(* Every step keeps the type of tables, audit columns and receipts.        *)
LEMMA ApiTypeStep == ApiTypeOK /\ [ApiNext]_vars => ApiTypeOK'
<1> SUFFICES ASSUME ApiTypeOK, [ApiNext]_vars PROVE ApiTypeOK'
  OBVIOUS
<1>1. TypeOK'
  BY RequestsAreSteps, TypeStep DEF ApiTypeOK
<1>2. (audit \in [Versions -> Audit])'
  BY StepsAreSigned DEF ApiTypeOK
<1>3. ASSUME NEW h \in Headers, NEW v \in Versions, NEW k \in Keys,
             NEW content \in Contents, PostSubmission(h, v, k, content)
      PROVE receipts' \subseteq Ids \X (Identities \cup {NoMember})
  <2>1. PICK b \in Bodies, id \in Ids :
          /\ receipts' = receipts \cup {<<id, b.member>>}
          /\ b.member \in Identities \cup {NoMember}
    BY <1>3, SubmissionSteps
  <2>2. QED
    BY <2>1 DEF ApiTypeOK
<1>4. ASSUME receipts' = receipts
      PROVE receipts' \subseteq Ids \X (Identities \cup {NoMember})
  BY <1>4 DEF ApiTypeOK
<1>5. QED
  BY <1>1, <1>2, <1>3, <1>4
  DEF ApiTypeOK, ApiNext, PostForm, PutDraft, PostPublish, PostRetire,
      DeleteSubmission, apiVars, vars

(* Tables, audit columns and receipts stay well-typed.                     *)
THEOREM ApiTypeCorrect == ApiSpec => []ApiTypeOK
<1>1. ApiInit => ApiTypeOK
  BY LifecycleInitially DEF ApiInit, ApiTypeOK, Audit, LifecycleInv
<1>2. QED
  BY <1>1, ApiTypeStep, PTL DEF ApiSpec
-----------------------------------------------------------------------------
(* The audit columns go with the status of their version.  The lifecycle   *)
(* invariant is needed to know which of them are open.                     *)
AuditInv == ApiTypeOK /\ LifecycleInv /\ AuditNamesEditors

(* What AuditNamesEditors says of one version, as two facts.               *)
EntryComplete(v) ==
  /\ audit[v].created # Nobody <=> Saved(v)
  /\ audit[v].published # Nobody <=> versions[v].launched
  /\ audit[v].retired # Nobody <=> versions[v].status = "RETIRED"

EntryNamed(v) ==
  /\ audit[v].created = Nobody \/ Named(audit[v].created)
  /\ audit[v].published = Nobody \/ Named(audit[v].published)
  /\ audit[v].retired = Nobody \/ Named(audit[v].retired)

LEMMA EntriesAreAudited ==
  AuditNamesEditors <=> \A v \in Versions : EntryComplete(v) /\ EntryNamed(v)
  BY DEF AuditNamesEditors, EntryComplete, EntryNamed, Named

LEMMA EntryStep ==
  ASSUME AuditInv, NEW v \in Versions, NEW who \in Usable, Editor(who),
         EntryAdvances(v, who)
  PROVE  EntryComplete(v)' /\ EntryNamed(v)'
<1>1. EntryComplete(v) /\ EntryNamed(v)
  BY EntriesAreAudited DEF AuditInv
<1>2. audit[v] \in Audit /\ versions[v] \in Row
  BY DEF AuditInv, ApiTypeOK, TypeOK
<1>3. who # Nobody /\ Named(who)
  BY ApiAssumption DEF Editor
<1>4. versions[v].launched <=> versions[v].status \in {"PUBLISHED", "RETIRED"}
  BY DEF AuditInv, LifecycleInv, ViewPerLaunch
<1>5. \/ audit'[v].created = audit[v].created
      \/ audit'[v].created = who
  BY <1>2, Signatures DEF EntryAdvances
<1>6. \/ audit'[v].published = audit[v].published
      \/ audit'[v].published = who
  BY <1>2, Signatures DEF EntryAdvances
<1>7. \/ audit'[v].retired = audit[v].retired
      \/ audit'[v].retired = who
  BY <1>2, Signatures DEF EntryAdvances
<1>8. EntryNamed(v)'
  BY <1>1, <1>3, <1>5, <1>6, <1>7 DEF EntryNamed, Named, MayManage
<1>9. EntryComplete(v)'
  <2>1. CASE versions'[v] = versions[v] /\ audit'[v] = audit[v]
    BY <1>1, <2>1 DEF EntryComplete, Saved
  <2>2. CASE /\ ~Saved(v)
             /\ \E d \in Definitions : versions'[v] = DraftRow(d)
             /\ audit'[v] = DraftedBy(audit[v], who)
    <3>1. versions'[v].status = "DRAFT" /\ ~versions'[v].launched
      BY <2>2, RowFields
    <3>2. /\ audit'[v].created = who
          /\ audit'[v].published = audit[v].published
          /\ audit'[v].retired = audit[v].retired
      BY <1>2, <2>2, Signatures
    <3>3. audit[v].published = Nobody /\ audit[v].retired = Nobody
      BY <1>1, <1>4, <2>2 DEF EntryComplete, Saved
    <3>4. QED
      BY <1>3, <3>1, <3>2, <3>3 DEF EntryComplete, Saved
  <2>3. CASE /\ versions[v].status = "DRAFT"
             /\ versions'[v] = PublishedRow(versions[v])
             /\ audit'[v] = PublishedBy(audit[v], who)
    <3>1. versions'[v].status = "PUBLISHED" /\ versions'[v].launched
      BY <1>2, <2>3, RowFields
    <3>2. /\ audit'[v].created = audit[v].created
          /\ audit'[v].published = who
          /\ audit'[v].retired = audit[v].retired
      BY <1>2, <2>3, Signatures
    <3>3. audit[v].created # Nobody /\ audit[v].retired = Nobody
      BY <1>1, <2>3 DEF EntryComplete, Saved
    <3>4. QED
      BY <1>3, <3>1, <3>2, <3>3 DEF EntryComplete, Saved
  <2>4. CASE /\ Live(v)
             /\ versions'[v] = RetiredRow(versions[v])
             /\ audit'[v] = RetiredBy(audit[v], who)
    <3>1. versions'[v].status = "RETIRED" /\ versions'[v].launched
      BY <1>2, <1>4, <2>4, RowFields DEF Live
    <3>2. /\ audit'[v].created = audit[v].created
          /\ audit'[v].published = audit[v].published
          /\ audit'[v].retired = who
      BY <1>2, <2>4, Signatures
    <3>3. audit[v].created # Nobody /\ audit[v].published # Nobody
      BY <1>1, <1>4, <2>4 DEF EntryComplete, Saved, Live
    <3>4. QED
      BY <1>3, <3>1, <3>2, <3>3 DEF EntryComplete, Saved
  <2>5. QED
    BY <2>1, <2>2, <2>3, <2>4 DEF EntryAdvances
<1>10. QED
  BY <1>8, <1>9

LEMMA AuditInductive == AuditInv /\ [ApiNext]_vars => AuditInv'
<1> SUFFICES ASSUME AuditInv, [ApiNext]_vars PROVE AuditInv'
  OBVIOUS
<1>1. ApiTypeOK'
  BY ApiTypeStep DEF AuditInv
<1>2. LifecycleInv'
  BY RequestsAreSteps, LifecycleInductive DEF AuditInv
<1>3. AuditNamesEditors'
  <2>1. CASE audit' = audit /\ versions' = versions
    BY <2>1 DEF AuditInv, AuditNamesEditors, Saved
  <2>2. ASSUME NEW who \in Usable, Editor(who),
               \A v \in Versions : EntryAdvances(v, who)
        PROVE AuditNamesEditors'
    <3>1. \A v \in Versions : EntryComplete(v)' /\ EntryNamed(v)'
      BY <2>2, EntryStep
    <3>2. QED
      BY <3>1 DEF AuditNamesEditors, EntryComplete, EntryNamed, Named
  <2>3. QED
    BY <2>1, <2>2, StepsAreSigned DEF AuditInv
<1>4. QED
  BY <1>1, <1>2, <1>3 DEF AuditInv

LEMMA AuditInvariant == ApiSpec => []AuditInv
<1>1. ApiInit => ApiTypeOK /\ LifecycleInv
  BY LifecycleInitially DEF ApiInit, ApiTypeOK, Audit, LifecycleInv
<1>2. ApiInit => AuditNamesEditors
  BY DEF ApiInit, Init, AuditNamesEditors, Saved, NoRow
<1>3. QED
  BY <1>1, <1>2, AuditInductive, PTL DEF ApiSpec, AuditInv

(* Whatever the tokens, the audit columns are complete and name people and *)
(* machines that may manage forms.                                         *)
THEOREM AuditsNameEditors == ApiSpec => []AuditNamesEditors
  BY AuditInvariant, PTL DEF AuditInv

(* No request rewrites an audit entry that is set.                         *)
LEMMA EntriesAreKept ==
  ASSUME AuditInv, [ApiNext]_vars, NEW v \in Versions
  PROVE  /\ audit[v].created # Nobody => audit'[v].created = audit[v].created
         /\ audit[v].published # Nobody => audit'[v].published = audit[v].published
         /\ audit[v].retired # Nobody => audit'[v].retired = audit[v].retired
<1>1. EntryComplete(v)
  BY EntriesAreAudited DEF AuditInv
<1>2. audit[v] \in Audit /\ versions[v] \in Row
  BY DEF AuditInv, ApiTypeOK, TypeOK
<1>3. versions[v].launched <=> versions[v].status \in {"PUBLISHED", "RETIRED"}
  BY DEF AuditInv, LifecycleInv, ViewPerLaunch
<1>4. ASSUME NEW who \in Usable, EntryAdvances(v, who)
      PROVE /\ audit[v].created # Nobody => audit'[v].created = audit[v].created
            /\ audit[v].published # Nobody =>
                 audit'[v].published = audit[v].published
            /\ audit[v].retired # Nobody => audit'[v].retired = audit[v].retired
  <2>1. audit[v].created = Nobody \/ audit'[v].created = audit[v].created
    BY <1>1, <1>2, <1>4, Signatures DEF EntryComplete, EntryAdvances
  <2>2. audit[v].published = Nobody \/ audit'[v].published = audit[v].published
    BY <1>1, <1>2, <1>3, <1>4, Signatures DEF EntryComplete, EntryAdvances
  <2>3. audit[v].retired = Nobody \/ audit'[v].retired = audit[v].retired
    BY <1>1, <1>2, <1>4, Signatures DEF EntryComplete, EntryAdvances, Live
  <2>4. QED
    BY <2>1, <2>2, <2>3
<1>5. QED
  BY <1>4, StepsAreSigned DEF AuditInv

(* Whoever drafted, launched or retired a version stays on record.         *)
THEOREM AuditEntriesAreFinal == ApiSpec => AuditIsFinal
<1>1. AuditInv /\ [ApiNext]_vars =>
        [\A v \in Versions :
           /\ audit[v].created # Nobody => audit'[v].created = audit[v].created
           /\ audit[v].published # Nobody =>
                audit'[v].published = audit[v].published
           /\ audit[v].retired # Nobody => audit'[v].retired = audit[v].retired]_vars
  BY EntriesAreKept
<1>2. QED
  BY <1>1, AuditInvariant, PTL DEF ApiSpec, AuditIsFinal
-----------------------------------------------------------------------------
(* Receipts are only given for ids that were issued, a retained submission *)
(* shares its id with no other, and its member is a user or nobody.        *)
ReceiptsInv ==
  /\ ReceiptInv
  /\ \A r \in receipts : r[1] \in issued
  /\ \A s \in submissions :
       /\ \A r \in receipts : r[1] = s.id => r[2] = s.body.member
       /\ s.body.member # NoMember =>
            \E c \in Claims :
              ~c.isMachine /\ s.body.member \in {c.userId, c.nsUserId}

LEMMA ReceiptsInductive == ReceiptsInv /\ [ApiNext]_vars => ReceiptsInv'
<1> SUFFICES ASSUME ReceiptsInv, [ApiNext]_vars PROVE ReceiptsInv'
  OBVIOUS
<1>1. ReceiptInv'
  BY RequestsAreSteps, ReceiptInductive DEF ReceiptsInv
<1>2. ASSUME submissions' \subseteq submissions, issued' = issued,
             receipts' = receipts
      PROVE ReceiptsInv'
  BY <1>1, <1>2 DEF ReceiptsInv
<1>3. ASSUME NEW h \in Headers, NEW v \in Versions, NEW k \in Keys,
             NEW content \in Contents, PostSubmission(h, v, k, content)
      PROVE ReceiptsInv'
  <2>1. PICK b \in Bodies, id \in Ids :
          /\ \/ Submit(id, v, k, b)
             \/ /\ \E s \in submissions : s.id = id /\ s.body = b
                /\ UNCHANGED formVars
          /\ receipts' = receipts \cup {<<id, b.member>>}
          /\ b.member # NoMember =>
               \E c \in Claims :
                 ~c.isMachine /\ b.member \in {c.userId, c.nsUserId}
    BY <1>3, SubmissionSteps
  <2>2. CASE Submit(id, v, k, b)
    <3> DEFINE new == [id |-> id, version |-> v, key |-> k, body |-> b]
    <3>1. /\ submissions' = submissions \cup {new}
          /\ issued' = issued \cup {id} /\ id \notin issued
      BY <2>2 DEF Submit
    <3>2. new.id = id /\ new.body = b
      OBVIOUS
    <3> HIDE DEF new
    <3>3. \A s \in submissions : s.id # id
      BY <3>1 DEF ReceiptsInv, ReceiptInv, SubmissionsFit
    <3>4. \A r \in receipts : r[1] # id
      BY <3>1 DEF ReceiptsInv
    <3>5. \A r \in receipts' : r[1] \in issued'
      BY <2>1, <3>1 DEF ReceiptsInv
    <3>6. QED
      BY <1>1, <2>1, <3>1, <3>2, <3>3, <3>4, <3>5 DEF ReceiptsInv
  <2>3. CASE (\E s \in submissions : s.id = id /\ s.body = b) /\ UNCHANGED formVars
    <3>1. PICK t \in submissions : t.id = id /\ t.body = b
      BY <2>3
    <3>2. submissions' = submissions /\ issued' = issued
      BY <2>3 DEF formVars
    <3>3. \A s \in submissions : s.id = id => s = t
      BY <3>1 DEF ReceiptsInv, ReceiptInv, OneReceiptPerKey
    <3>4. t.id \in issued
      BY <3>1 DEF ReceiptsInv, ReceiptInv, SubmissionsFit
    <3>5. QED
      BY <1>1, <2>1, <3>1, <3>2, <3>3, <3>4 DEF ReceiptsInv
  <2>4. QED
    BY <2>1, <2>2, <2>3
<1>4. QED
  BY <1>2, <1>3
  DEF ApiNext, PostForm, PutDraft, PostPublish, PostRetire, DeleteSubmission,
      CreateForm, PutVersion, Publish, Retire, Delete, formVars, apiVars, vars

(* A receipt is never given to anybody but the member on record, and the   *)
(* member of a member form is the user of a human's token.                 *)
THEOREM ReceiptsStay == ApiSpec => []ReceiptsStayWithMember
<1>1. ApiInit => ReceiptInv
  BY LifecycleInitially
  DEF ApiInit, Init, ReceiptInv, OneReceiptPerKey, SubmissionsFit
<1>2. ApiInit => ReceiptsInv
  BY <1>1 DEF ApiInit, Init, ReceiptsInv
<1>3. ReceiptsInv => ReceiptsStayWithMember
  <2> SUFFICES ASSUME ReceiptsInv, NEW s \in submissions
               PROVE /\ \A r \in receipts : r[1] = s.id => r[2] = s.body.member
                     /\ versions[s.version].definition \in MemberOnly =>
                          s.body.member # NoMember
    BY DEF ReceiptsInv, ReceiptsStayWithMember
  <2>1. versions[s.version].definition \in MemberOnly => s.body \in Signed
    BY DEF ReceiptsInv, ReceiptInv, SubmissionsFit, MayAnswer
  <2>2. QED
    BY <2>1, MembersAssumption DEF ReceiptsInv
<1>4. QED
  BY <1>2, <1>3, ReceiptsInductive, PTL DEF ApiSpec
=============================================================================
