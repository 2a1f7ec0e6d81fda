-------------------------- MODULE FormTransactions --------------------------
(***************************************************************************)
(* The lifecycle and submission transactions of src/src/forms/             *)
(* forms.service.ts as they really run: several requests, of several       *)
(* replicas, at once, each in a PostgreSQL READ COMMITTED transaction that *)
(* first locks the Form row (lockForm), then reads and decides, then       *)
(* commits its private writes; any of them may be rolled back on the way.  *)
(*                                                                         *)
(* The unique indexes and the triggers of the migration are left out of    *)
(* the steps on purpose: SchemaNeverRefuses states that, with the form     *)
(* lock, no step of this service would ever meet one of them.              *)
(***************************************************************************)
EXTENDS Integers

CONSTANTS
  MaxVersion, Definitions, NoDefinition, MemberOnly,
  Ids, Keys, Bodies, Signed, WantsEvent, Fits,
  Requests,       \* the HTTP calls that can be in service at the same time
  Nobody,         \* the owner of a Form row that is not locked
  NoCall,         \* what an idle request asks for
  Untouched,      \* a version row the transaction has not written
  NoInsert,       \* the transaction has inserted no submission
  NoAnswer,       \* no HTTP response yet
  NoReceipt       \* the receipt of a response that carries none


VARIABLES
  form, versions, submissions,  \* the committed database
  lock,     \* owner of the lock on the Form row
  pc,       \* where each request is
  call,     \* what it asks for
  written,  \* version rows its open transaction has written
  inserted, \* the submission its open transaction has inserted
  answer    \* its HTTP response

database == <<form, versions, submissions>>
vars == <<form, versions, submissions, lock, pc, call, written, inserted, answer>>

(* The promise: the same database, changed in single atomic steps.         *)
Atomic == INSTANCE Forms WITH issued <- {s.id : s \in submissions}

Versions == Atomic!Versions

PutCalls == [op : {"put"}, version : Versions, definition : Definitions]
MoveCalls == [op : {"publish", "retire"}, version : Versions]
SubmitCalls == [op : {"submit"}, version : Versions, key : Keys, body : Bodies]
Calls == PutCalls \cup MoveCalls \cup SubmitCalls

Answers == [code : {200, 400, 404, 409, 500}, receipt : Ids \cup {NoReceipt}]

ASSUME FormsAssumption ==
  /\ MaxVersion \in Nat
  /\ NoDefinition \notin Definitions /\ MemberOnly \subseteq Definitions
  /\ Signed \subseteq Bodies /\ WantsEvent \subseteq Bodies
  /\ Fits \subseteq Definitions \X Bodies

(* The stand-ins for "none" differ from every real value.                  *)
ASSUME NoneAssumption ==
  /\ Nobody \notin Requests
  /\ NoCall \notin Calls
  /\ Untouched \notin Atomic!Row
  /\ NoInsert \notin Atomic!Submission

(* "locking": the transaction is open and waits for the Form row; "body":  *)
(* it owns the row and has statements to run; "commit": all have run.      *)
Steps == {"idle", "locking", "body", "commit", "answered"}

DatabaseTypeOK ==
  /\ form \in BOOLEAN
  /\ versions \in [Versions -> Atomic!Row]
  /\ submissions \subseteq Atomic!Submission

ControlTypeOK ==
  /\ lock \in Requests \cup {Nobody}
  /\ pc \in [Requests -> Steps]
  /\ call \in [Requests -> Calls \cup {NoCall}]
  /\ written \in [Requests -> [Versions -> Atomic!Row \cup {Untouched}]]
  /\ inserted \in [Requests -> Atomic!Submission \cup {NoInsert}]
  /\ answer \in [Requests -> Answers \cup {NoAnswer}]

TypeOK == DatabaseTypeOK /\ ControlTypeOK

NothingWritten == [v \in Versions |-> Untouched]
OnlyRow(v, row) == [NothingWritten EXCEPT ![v] = row]

Init ==
  /\ form = FALSE
  /\ versions = [v \in Versions |-> Atomic!NoRow]
  /\ submissions = {}
  /\ lock = Nobody
  /\ pc = [p \in Requests |-> "idle"]
  /\ call = [p \in Requests |-> NoCall]
  /\ written = [p \in Requests |-> NothingWritten]
  /\ inserted = [p \in Requests |-> NoInsert]
  /\ answer = [p \in Requests |-> NoAnswer]

-----------------------------------------------------------------------------
(* createForm is one upsert outside any of these transactions.             *)
CreateForm ==
  /\ form' = TRUE
  /\ UNCHANGED <<versions, submissions, lock, pc, call, written, inserted, answer>>

(* A request arrives, opens its transaction and asks for the Form row.     *)
Begin(p) ==
  /\ pc[p] = "idle"
  /\ \E c \in Calls : call' = [call EXCEPT ![p] = c]
  /\ pc' = [pc EXCEPT ![p] = "locking"]
  /\ UNCHANGED <<database, lock, written, inserted, answer>>

(* Faulty: the lock outlives the transaction.                              *)
LockKept(p) == lock

LockReleased(p) == IF lock = p THEN Nobody ELSE lock

(* The transaction ends, its lock is released and the response is formed.  *)
End(p, code, receipt) ==
  /\ pc' = [pc EXCEPT ![p] = "answered"]
  /\ answer' = [answer EXCEPT ![p] = [code |-> code, receipt |-> receipt]]
  /\ lock' = LockReleased(p)
  /\ written' = [written EXCEPT ![p] = NothingWritten]
  /\ inserted' = [inserted EXCEPT ![p] = NoInsert]
  /\ UNCHANGED call

(* It ends without having changed anything.                                *)
EndUnchanged(p, code, receipt) ==
  End(p, code, receipt) /\ UNCHANGED database

(* SELECT ... FOR UPDATE of a form that does not exist returns no row.     *)
FormMissing(p) ==
  /\ pc[p] = "locking"
  /\ ~form
  /\ EndUnchanged(p, 404, NoReceipt)

(* Faulty: the Form row is read without FOR UPDATE.                        *)
ReadsFormRow(p) == form

GetsFormRow(p) == form /\ lock = Nobody

LockForm(p) ==
  /\ pc[p] = "locking"
  /\ GetsFormRow(p)
  /\ lock' = p
  /\ pc' = [pc EXCEPT ![p] = "body"]
  /\ UNCHANGED <<database, call, written, inserted, answer>>

(* The transaction's last statement has run; only COMMIT is left.          *)
Prepare(p, rows, insert) ==
  /\ pc' = [pc EXCEPT ![p] = "commit"]
  /\ written' = [written EXCEPT ![p] = rows]
  /\ inserted' = [inserted EXCEPT ![p] = insert]
  /\ UNCHANGED <<database, lock, call, answer>>

(* findVersion inside publish, retire and submit.                          *)
VersionMissing(p) ==
  /\ pc[p] = "body"
  /\ call[p].op # "put"
  /\ ~Atomic!Saved(call[p].version)
  /\ EndUnchanged(p, 404, NoReceipt)

PutVersion(p) ==
  LET v == call[p].version
      d == call[p].definition
  IN /\ pc[p] = "body"
     /\ call[p].op = "put"
     /\ \/ /\ Atomic!Saved(v)
           /\ EndUnchanged(p, IF versions[v].definition = d THEN 200 ELSE 409,
                           NoReceipt)
        \/ /\ ~Atomic!Saved(v)
           /\ ~Atomic!IsNextNumber(v)
           /\ EndUnchanged(p, 409, NoReceipt)
        \/ /\ ~Atomic!Saved(v)
           /\ Atomic!IsNextNumber(v)
           /\ Prepare(p, OnlyRow(v, Atomic!DraftRow(d)), NoInsert)

(* Faulty: the version that has been live is left as it is.                *)
OnlyPublished(v) == OnlyRow(v, Atomic!PublishedRow(versions[v]))

(* The rows updateMany retires and the row the last update publishes; the  *)
(* view is created between the two, and its failure is a RollBack.         *)
PublishWrites(v) ==
  [u \in Versions |->
     IF u = v \/ Atomic!Live(u) THEN Atomic!RowAfterPublish(v, u) ELSE Untouched]

Publish(p) ==
  LET v == call[p].version
  IN /\ pc[p] = "body"
     /\ call[p].op = "publish"
     /\ \/ /\ Atomic!Live(v)
           /\ EndUnchanged(p, 200, NoReceipt)
        \/ /\ \/ versions[v].status = "RETIRED"
              \/ versions[v].status = "DRAFT" /\ Atomic!NewerLaunched(v)
           /\ EndUnchanged(p, 409, NoReceipt)
        \/ /\ versions[v].status = "DRAFT"
           /\ ~Atomic!NewerLaunched(v)
           /\ Prepare(p, PublishWrites(v), NoInsert)

Retire(p) ==
  LET v == call[p].version
  IN /\ pc[p] = "body"
     /\ call[p].op = "retire"
     /\ \/ /\ versions[v].status = "DRAFT"
           /\ EndUnchanged(p, 409, NoReceipt)
        \/ /\ versions[v].status = "RETIRED"
           /\ EndUnchanged(p, 200, NoReceipt)
        \/ /\ Atomic!Live(v)
           /\ Prepare(p, OnlyRow(v, Atomic!RetiredRow(versions[v])), NoInsert)

(* gen_random_uuid: an id no committed or pending submission has.          *)
Fresh(id) ==
  /\ \A s \in submissions : s.id # id
  /\ \A q \in Requests : inserted[q] # NoInsert => inserted[q].id # id

(* Faulty: a retired version forgets the keys it has seen.                 *)
EarlierWhileLive(v, k) ==
  IF Atomic!Live(v) THEN Atomic!Earlier(v, k) ELSE {}

Earlier(v, k) == Atomic!Earlier(v, k)

(* Faulty: the content of a reused key is not compared.                    *)
SameKey(s, b) == TRUE

SameRequest(s, b) == s.body = b

Accepting(v) == Atomic!Live(v)

Submit(p) ==
  LET v == call[p].version
      k == call[p].key
      b == call[p].body
      earlier == Earlier(v, k)
  IN /\ pc[p] = "body"
     /\ call[p].op = "submit"
     /\ Atomic!Saved(v)
     /\ \/ /\ ~Atomic!MayAnswer(v, b)           \* 400, or 401 on member forms
           /\ EndUnchanged(p, 400, NoReceipt)
        \/ /\ Atomic!MayAnswer(v, b)
           /\ \E s \in earlier :                \* a retry, or a reused key
                IF SameRequest(s, b) THEN EndUnchanged(p, 200, s.id)
                                     ELSE EndUnchanged(p, 409, NoReceipt)
        \/ /\ Atomic!MayAnswer(v, b)
           /\ earlier = {}
           /\ ~Accepting(v)
           /\ EndUnchanged(p, 409, NoReceipt)
        \/ /\ Atomic!MayAnswer(v, b)
           /\ earlier = {}
           /\ Accepting(v)
           /\ \E id \in Ids :
                /\ Fresh(id)
                /\ Prepare(p, NothingWritten,
                           [id |-> id, version |-> v, key |-> k, body |-> b])

CommittedRow(p, v) ==
  IF written[p][v] = Untouched THEN versions[v] ELSE written[p][v]

(* COMMIT makes the writes visible and releases the lock.                  *)
Commit(p) ==
  /\ pc[p] = "commit"
  /\ versions' = [v \in Versions |-> CommittedRow(p, v)]
  /\ submissions' = submissions \cup ({inserted[p]} \ {NoInsert})
  /\ End(p, 200, IF inserted[p] = NoInsert THEN NoReceipt ELSE inserted[p].id)
  /\ UNCHANGED form

(* The interactive transaction times out, a statement or COMMIT fails, or  *)
(* the replica dies (then nobody receives the 500).                        *)
RollBack(p) ==
  /\ pc[p] \in {"locking", "body", "commit"}
  /\ EndUnchanged(p, 500, NoReceipt)

(* The response arrives, or is lost: the service does not learn which.     *)
Close(p) ==
  /\ pc[p] = "answered"
  /\ pc' = [pc EXCEPT ![p] = "idle"]
  /\ call' = [call EXCEPT ![p] = NoCall]
  /\ answer' = [answer EXCEPT ![p] = NoAnswer]
  /\ UNCHANGED <<database, lock, written, inserted>>

Body(p) == VersionMissing(p) \/ PutVersion(p) \/ Publish(p) \/ Retire(p) \/ Submit(p)

Serve(p) ==
  Begin(p) \/ FormMissing(p) \/ LockForm(p) \/ Body(p)
    \/ Commit(p) \/ RollBack(p) \/ Close(p)

Next == CreateForm \/ \E p \in Requests : Serve(p)

Spec == Init /\ [][Next]_vars

(* A request that does not wait for the Form row takes some next step, if  *)
(* only to fail.                                                           *)
MovesOn(p) ==
  /\ \/ pc[p] \in {"body", "commit", "answered"}
     \/ pc[p] = "locking" /\ ~form
  /\ \E step \in Steps \ {pc[p]} : pc' = [pc EXCEPT ![p] = step]

(* The event loop and the database keep running every open transaction,    *)
(* and PostgreSQL hands a row lock to its waiters in turn.                 *)
Fairness ==
  \A p \in Requests : WF_pc(MovesOn(p)) /\ SF_lock(LockForm(p))

FairSpec == Spec /\ Fairness

-----------------------------------------------------------------------------
(* Every committed transaction is one atomic step of Forms, and nothing    *)
(* else changes the database: the interleaving of requests is invisible.   *)
Linearizable == Atomic!Spec

OnePublished == Atomic!OnePublished
OneReceiptPerKey == Atomic!OneReceiptPerKey

(* Exactly the transactions that have passed lockForm own the Form row, so *)
(* two bodies never overlap.                                               *)
LockHeld == \A p \in Requests : lock = p <=> pc[p] \in {"body", "commit"}

(* What a transaction read before its COMMIT is still true when it commits *)
(* (publish: the draft, the absence of a newer launch and the set of rows  *)
(* to retire; put: the next number; submit: the live version and the       *)
(* unused key): no decision is taken on stale state.                       *)
DecisionHolds(p) ==
  LET v == call[p].version
  IN \/ /\ call[p].op = "put"
        /\ form /\ ~Atomic!Saved(v) /\ Atomic!IsNextNumber(v)
        /\ written[p] = OnlyRow(v, Atomic!DraftRow(call[p].definition))
        /\ inserted[p] = NoInsert
     \/ /\ call[p].op = "publish"
        /\ versions[v].status = "DRAFT" /\ ~Atomic!NewerLaunched(v)
        /\ written[p] = PublishWrites(v)
        /\ inserted[p] = NoInsert
     \/ /\ call[p].op = "retire"
        /\ Atomic!Live(v)
        /\ written[p] = OnlyRow(v, Atomic!RetiredRow(versions[v]))
        /\ inserted[p] = NoInsert
     \/ /\ call[p].op = "submit"
        /\ Atomic!Live(v)
        /\ Atomic!MayAnswer(v, call[p].body)
        /\ Atomic!Earlier(v, call[p].key) = {}
        /\ written[p] = NothingWritten
        /\ \E id \in Ids :
             /\ \A s \in submissions : s.id # id
             /\ inserted[p] = [id |-> id, version |-> v, key |-> call[p].key,
                               body |-> call[p].body]

NoStaleDecision == \A p \in Requests : pc[p] = "commit" => DecisionHolds(p)

(* Trigger protect_form_version, for a row as it is and as it becomes.     *)
ProtectFormVersion(old, new) ==
  /\ old.status \in {"PUBLISHED", "RETIRED"} =>
       new.definition = old.definition /\ new.launched = old.launched
  /\ old.status = "DRAFT" => new.status # "RETIRED"
  /\ old.status = "PUBLISHED" => new.status # "DRAFT"
  /\ old.status = "RETIRED" => new.status = "RETIRED"

(* Unique index FormVersion_formId_version_key: only putVersion writes a    *)
(* draft, and it inserts.                                                  *)
VersionIndex(old, new) == new.status = "DRAFT" => old.status = "NONE"

(* Trigger protect_form_definition: fields are written in a draft only.    *)
ProtectFormDefinition(old, new) ==
  new.definition # old.definition =>
    old.status \in {"NONE", "DRAFT"} /\ new.status = "DRAFT"

(* CREATE VIEW refuses a view that exists: publish creates the version's.  *)
CreateView(old, new) == new.status = "PUBLISHED" => ~old.view

(* Trigger validate_submission_envelope, which sees the transaction's own  *)
(* writes, for the row p inserts.                                          *)
ValidateEnvelope(p) ==
  LET pinned == CommittedRow(p, inserted[p].version)
  IN /\ pinned.status = "PUBLISHED"
     /\ pinned.definition \in MemberOnly => inserted[p].body \in Signed

(* The partial index FormVersion_one_published, for the rows the whole     *)
(* transaction leaves.  That publish runs its updateMany (line 540) before *)
(* the update that publishes (line 552) is read off the code, not checked. *)
OnePublishedIndex(p) ==
  \A u, v \in Versions :
    CommittedRow(p, u).status = "PUBLISHED"
      /\ CommittedRow(p, v).status = "PUBLISHED" => u = v

(* The primary key and the index on (versionId, idempotencyKey).           *)
SubmissionIndexes(p) ==
  \A s \in submissions :
    /\ s.id # inserted[p].id
    /\ <<s.version, s.key>> # <<inserted[p].version, inserted[p].key>>

(* No transaction that reaches its COMMIT has written what the triggers or *)
(* unique indexes of the migration or CREATE VIEW refuse, or what would    *)
(* wait in an index for another transaction: such an error has no mapping  *)
(* and would be a 500 for a correct request.                               *)
SchemaNeverRefuses ==
  \A p \in Requests :
    pc[p] = "commit" =>
      /\ \A v \in Versions :
           written[p][v] # Untouched =>
             /\ VersionIndex(versions[v], written[p][v])
             /\ ProtectFormVersion(versions[v], written[p][v])
             /\ ProtectFormDefinition(versions[v], written[p][v])
             /\ CreateView(versions[v], written[p][v])
      /\ OnePublishedIndex(p)
      /\ inserted[p] # NoInsert => ValidateEnvelope(p) /\ SubmissionIndexes(p)
      /\ \A q \in Requests \ {p} :
           written[q] = NothingWritten /\ inserted[q] = NoInsert

(* Has the database already recorded what the call asks for?               *)
Done(c) ==
  \/ c.op = "put" /\ versions[c.version].definition = c.definition
  \/ c.op = "publish" /\ Atomic!Live(c.version)
  \/ c.op = "retire" /\ versions[c.version].status = "RETIRED"
  \/ c.op = "submit" /\ \E s \in Atomic!Earlier(c.version, c.key) : s.body = c.body

(* A success is never reported for work that was rolled back or lost: as   *)
(* long as a 200 is on its way, the version is saved with that definition, *)
(* has been launched, is retired, or the receipt names the committed       *)
(* submission with that version, key and content.                          *)
SuccessIsDurable ==
  \A p \in Requests :
    pc[p] = "answered" /\ answer[p].code = 200 =>
      LET c == call[p]
      IN /\ c.op = "publish" => versions[c.version].launched
         /\ c.op # "publish" => Done(c)
         /\ c.op = "submit" =>
              \E s \in Atomic!Earlier(c.version, c.key) :
                 s.id = answer[p].receipt /\ s.body = c.body

(* docs/api.md lines 13-16 and 109: repeating a request that has already   *)
(* taken effect (after a lost response, or beside a twin still running)    *)
(* is never answered with a conflict: a definition, a retirement and a     *)
(* submission even once the version is retired; a publication while it is  *)
(* live, since publish refuses a retired version (lines 525-528).          *)
RetriesNeverConflict ==
  [][\A p \in Requests :
       pc[p] = "body" /\ Done(call[p]) /\ pc'[p] = "answered" =>
         answer'[p].code \in {200, 500}]_vars

(* Every request is answered: early returns and failures all release the   *)
(* Form row, so no waiter is stranded behind it.                           *)
RequestsEnd == \A p \in Requests : pc[p] = "locking" ~> pc[p] = "idle"
=============================================================================
