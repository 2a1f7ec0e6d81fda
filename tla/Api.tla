-------------------------------- MODULE Api --------------------------------
(***************************************************************************)
(* The routes of src/src/forms/forms.controller.ts as callers reach them:  *)
(* AuthGuard (src/src/auth.ts) turns the claims of a verified token into   *)
(* an actor and decides by the permission of the route, and the handler    *)
(* acts in that actor's name, as the audit columns of a version and the    *)
(* member of a submission record.  Verifying a token is the business of    *)
(* tc-core-library-js and external.  Requests are single steps of Forms;   *)
(* the routes that only read change nothing and are left out.              *)
(***************************************************************************)
EXTENDS Forms

CONSTANTS
  Claims,      \* the claims of the verified tokens in circulation
  NoToken,     \* a request without Authorization header
  BadToken,    \* one whose header or token is not valid
  Absent,      \* a claim the token does not have
  LowerCase,   \* toLowerCase of each role name
  Identities,  \* user ids that are strings (the empty one aside) or safe integers
  Usable,      \* the identities and subjects of 1 to 200 characters
  Numeric,     \* the identities that are positive integers
  NoMember,    \* no member identity
  Nobody,      \* an audit column that is not set
  Contents     \* answers, source page and Kafka opt-in of a submission

(* A list claim is the set of its trimmed members, in whichever of the two *)
(* forms, array or separated string, the token has it.                     *)
ClaimsAssumption ==
  \A c \in Claims :
    /\ c.roles = Absent \/ c.roles \subseteq DOMAIN LowerCase
    /\ c.nsRoles = Absent \/ c.nsRoles \subseteq DOMAIN LowerCase
    /\ c.isMachine \in BOOLEAN

ASSUME ApiAssumption ==
  /\ ClaimsAssumption
  /\ Numeric \subseteq Usable /\ Numeric \subseteq Identities
  /\ NoMember \notin Identities /\ Nobody \notin Usable /\ Absent \notin Usable
  /\ NoToken \notin Claims /\ BadToken \notin Claims /\ NoToken # BadToken

(* requestHash covers the content and the member.                          *)
ASSUME MembersAssumption ==
  /\ Bodies = [content : Contents, member : Identities \cup {NoMember}]
  /\ Signed = {b \in Bodies : b.member # NoMember}

VARIABLES
  audit,     \* createdBy, publishedBy and retiredBy of each version
  receipts   \* history: <<id, m>>, receipt id has been given to member m

apiVars == <<audit, receipts>>
vars == <<formVars, apiVars>>

Audit == [created : Usable \cup {Nobody}, published : Usable \cup {Nobody},
          retired : Usable \cup {Nobody}]

ApiTypeOK ==
  /\ TypeOK
  /\ audit \in [Versions -> Audit]
  /\ receipts \subseteq Ids \X (Identities \cup {NoMember})

DraftedBy(entry, who) == [entry EXCEPT !.created = who]
PublishedBy(entry, who) == [entry EXCEPT !.published = who]
RetiredBy(entry, who) == [entry EXCEPT !.retired = who]

ApiInit ==
  /\ Init
  /\ audit = [v \in Versions |->
       [created |-> Nobody, published |-> Nobody, retired |-> Nobody]]
  /\ receipts = {}

-----------------------------------------------------------------------------
(* claims.x ?? claims[namespace + x]                                       *)
Given(claim, fallback) == IF claim = Absent THEN fallback ELSE claim

List(claim) == IF claim = Absent THEN {} ELSE claim

Roles(c) == {LowerCase[r] : r \in List(Given(c.roles, c.nsRoles))}
Scopes(c) == List(Given(c.scope, c.scopes))

MemberId(c) ==
  LET user == Given(c.userId, c.nsUserId)
  IN IF ~c.isMachine /\ user \in Identities THEN user ELSE NoMember

(* Legacy human tokens have no sub; their member id stands in for it.      *)
Subject(c) ==
  Given(c.sub, IF ~c.isMachine /\ MemberId(c) \in Numeric THEN MemberId(c)
               ELSE Absent)

(* normalizeActor throws for any other claims.                             *)
HasActor(c) ==
  /\ MemberId(c) \in Usable \cup {NoMember}
  /\ Subject(c) \in Usable

NormalizeActor(c) ==
  [subject |-> Subject(c), memberId |-> MemberId(c), machine |-> c.isMachine,
   roles |-> Roles(c), scopes |-> Scopes(c)]

(* actor?.memberId, actor?.machine of a request without a token.           *)
Anonymous ==
  [subject |-> Nobody, memberId |-> NoMember, machine |-> FALSE,
   roles |-> {}, scopes |-> {}]

(* The identity in which a request is handled, if the guard lets it pass.  *)
Actors(header) ==
  IF header = NoToken THEN {Anonymous}
  ELSE {NormalizeActor(c) : c \in {d \in Claims : d = header /\ HasActor(d)}}

(* Faulty: roles and scopes are not told apart.                            *)
ByRoleOrScope(actor, permission) ==
  \/ "administrator" \in actor.roles
  \/ permission = "manage" /\ "manage:forms" \in actor.scopes

Allowed(actor, permission) ==
  \/ /\ actor.machine
     /\ (IF permission = "report" THEN "read:forms-submissions"
                                  ELSE "manage:forms") \in actor.scopes
  \/ /\ ~actor.machine
     /\ \/ "administrator" \in actor.roles
        \/ permission = "manage" /\ "forms administrator" \in actor.roles
        \/ permission = "report" /\ "forms reporter" \in actor.roles

(* canActivate: an invalid token is refused on public routes as well.      *)
CanActivate(header, permission) ==
  {a \in Actors(header) :
     permission = "public" \/ (a # Anonymous /\ Allowed(a, permission))}

Headers == Claims \cup {NoToken, BadToken}

-----------------------------------------------------------------------------
PostForm(header) ==
  /\ CanActivate(header, "manage") # {}
  /\ CreateForm
  /\ UNCHANGED apiVars

PutDraft(header, v, d) ==
  \E actor \in CanActivate(header, "manage") :
    /\ PutVersion(v, d)
    /\ audit' = [audit EXCEPT ![v] = DraftedBy(@, actor.subject)]
    /\ UNCHANGED receipts

(* Faulty: updateMany without its status condition.                        *)
EveryLaunched(u) == versions[u].launched

Superseded(u) == Live(u)

(* The version that is published names the publisher, and so does the one  *)
(* it retires.  Repeated calls change nothing, whoever makes them.         *)
PostPublish(header, v) ==
  \E actor \in CanActivate(header, "manage") :
    /\ Publish(v)
    /\ audit' = [u \in Versions |->
         IF u = v THEN PublishedBy(audit[u], actor.subject)
         ELSE IF Superseded(u) THEN RetiredBy(audit[u], actor.subject)
         ELSE audit[u]]
    /\ UNCHANGED receipts

PostRetire(header, v) ==
  \E actor \in CanActivate(header, "manage") :
    /\ Retire(v)
    /\ audit' = [audit EXCEPT ![v] = RetiredBy(@, actor.subject)]
    /\ UNCHANGED receipts

(* Faulty: requestHash leaves the member out.                              *)
SameContent(s, b) == s.body.content = b.content

SameRequest(s, b) == s.body = b

(* A visitor's submission in the actor's name.  Machines get a 403, and    *)
(* MayAnswer refuses a member form without member before it looks for an   *)
(* earlier submission: the receipt of a retry is that of the original.     *)
PostSubmission(header, v, k, content) ==
  \E actor \in CanActivate(header, "public") :
    LET b == [content |-> content, member |-> actor.memberId]
    IN /\ ~actor.machine
       /\ Saved(v) /\ MayAnswer(v, b)
       /\ \E id \in Ids :
            /\ \/ Submit(id, v, k, b)
               \/ /\ \E s \in Earlier(v, k) : s.id = id /\ SameRequest(s, b)
                  /\ UNCHANGED formVars
            /\ receipts' = receipts \cup {<<id, b.member>>}
       /\ UNCHANGED audit

DeleteSubmission(s) == Delete(s) /\ UNCHANGED apiVars

ApiNext ==
  \/ \E h \in Headers : PostForm(h)
  \/ \E h \in Headers, v \in Versions, d \in Definitions : PutDraft(h, v, d)
  \/ \E h \in Headers, v \in Versions : PostPublish(h, v)
  \/ \E h \in Headers, v \in Versions : PostRetire(h, v)
  \/ \E h \in Headers, v \in Versions, k \in Keys, content \in Contents :
        PostSubmission(h, v, k, content)
  \/ \E s \in submissions : DeleteSubmission(s)

ApiSpec == ApiInit /\ [][ApiNext]_vars

-----------------------------------------------------------------------------
(* docs/api.md lines 36-40, the table: who may manage forms, by the claims *)
(* of the token.                                                           *)
MayManage(c) ==
  IF c.isMachine THEN "manage:forms" \in Scopes(c)
  ELSE Roles(c) \cap {"administrator", "forms administrator"} # {}

(* The audit columns are complete and name people and machines that may    *)
(* manage forms: "machines cannot gain human permissions through role      *)
(* claims; human tokens do not gain management/report access solely        *)
(* through scopes" (docs/api.md line 42).                                  *)
AuditNamesEditors ==
  \A v \in Versions :
    LET names == {audit[v].created, audit[v].published, audit[v].retired}
    IN /\ audit[v].created # Nobody <=> Saved(v)
       /\ audit[v].published # Nobody <=> versions[v].launched
       /\ audit[v].retired # Nobody <=> versions[v].status = "RETIRED"
       /\ \A n \in names \ {Nobody} :
            \E c \in Claims : MayManage(c) /\ n \in {c.sub, c.userId, c.nsUserId}

(* Whoever drafted, launched or retired a version stays on record: no      *)
(* later call, of the same or of another version, rewrites an audit entry. *)
AuditIsFinal ==
  [][\A v \in Versions :
       /\ audit[v].created # Nobody => audit'[v].created = audit[v].created
       /\ audit[v].published # Nobody => audit'[v].published = audit[v].published
       /\ audit[v].retired # Nobody => audit'[v].retired = audit[v].retired]_vars

(* docs/api.md line 111: "The API does not replay a submission under a     *)
(* different member identity", and member forms have "an actual userId"    *)
(* (line 34): every receipt went to the member on record, also the         *)
(* anonymous ones, and a member is the user of a human's token.            *)
ReceiptsStayWithMember ==
  \A s \in submissions :
    /\ \A r \in receipts : r[1] = s.id => r[2] = s.body.member
    /\ versions[s.version].definition \in MemberOnly =>
         \E c \in Claims :
           ~c.isMachine /\ s.body.member \in {c.userId, c.nsUserId}
=============================================================================
