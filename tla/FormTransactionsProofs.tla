----------------------- MODULE FormTransactionsProofs -----------------------
(* The row lock makes the transactions of FormTransactions atomic: for any *)
(* number of concurrent requests they implement Forms, whose invariants    *)
(* therefore hold for them.                                                *)
EXTENDS FormTransactions, TLAPS

(* The theorems about Forms, read for the database of this module.         *)
AtomicProofs == INSTANCE FormsProofs WITH issued <- {s.id : s \in submissions}

USE DEF Versions, Atomic!Versions

LEMMA NoWritesTyped ==
  /\ NothingWritten \in [Versions -> Atomic!Row \cup {Untouched}]
  /\ \A v \in Versions, r \in Atomic!Row :
       OnlyRow(v, r) \in [Versions -> Atomic!Row \cup {Untouched}]
  BY DEF NothingWritten, OnlyRow

LEMMA RowsTyped ==
  /\ Atomic!NoRow \in Atomic!Row
  /\ \A d \in Definitions : Atomic!DraftRow(d) \in Atomic!Row
  /\ \A r \in Atomic!Row : /\ Atomic!PublishedRow(r) \in Atomic!Row
                           /\ Atomic!RetiredRow(r) \in Atomic!Row
  BY DEF Atomic!NoRow, Atomic!DraftRow, Atomic!PublishedRow,
         Atomic!RetiredRow, Atomic!Row, Atomic!Statuses

LEMMA CallFields ==
  \A c \in Calls :
    /\ c.version \in Versions
    /\ c.op \in {"put", "publish", "retire", "submit"}
    /\ c.op = "put" => c.definition \in Definitions
    /\ c.op = "submit" => c.key \in Keys /\ c.body \in Bodies
  BY DEF Calls, PutCalls, MoveCalls, SubmitCalls
(* Does p carry a call once it has left "idle"?  (part of the invariant)   *)
CallsKnown == \A p \in Requests : pc[p] # "idle" => call[p] \in Calls

(* A committing transaction's writes are rows and a submission.            *)
LEMMA EndTyped ==
  ASSUME TypeOK, CallsKnown, NEW p \in Requests, pc[p] # "idle",
         NEW code \in {200, 400, 404, 409, 500},
         NEW receipt \in Ids \cup {NoReceipt}, End(p, code, receipt)
  PROVE  ControlTypeOK' /\ CallsKnown'
<1>1. [code |-> code, receipt |-> receipt] \in Answers
  BY DEF Answers
<1>2. ControlTypeOK'
  BY <1>1, NoWritesTyped DEF End, LockReleased, TypeOK, ControlTypeOK, Steps
<1>3. CallsKnown'
  BY DEF End, CallsKnown, TypeOK, ControlTypeOK
<1>4. QED
  BY <1>2, <1>3

LEMMA EndUnchangedTyped ==
  ASSUME TypeOK, CallsKnown, NEW p \in Requests, pc[p] # "idle",
         NEW code \in {200, 400, 404, 409, 500},
         NEW receipt \in Ids \cup {NoReceipt}, EndUnchanged(p, code, receipt)
  PROVE  TypeOK' /\ CallsKnown'
<1>1. ControlTypeOK' /\ CallsKnown'
  BY EndTyped DEF EndUnchanged
<1>2. DatabaseTypeOK'
  BY DEF EndUnchanged, database, TypeOK, DatabaseTypeOK
<1>3. QED
  BY <1>1, <1>2 DEF TypeOK

LEMMA PrepareTyped ==
  ASSUME TypeOK, CallsKnown, NEW p \in Requests, pc[p] # "idle",
         NEW rows \in [Versions -> Atomic!Row \cup {Untouched}],
         NEW insert \in Atomic!Submission \cup {NoInsert},
         Prepare(p, rows, insert)
  PROVE  TypeOK' /\ CallsKnown'
<1>1. DatabaseTypeOK'
  BY DEF Prepare, database, TypeOK, DatabaseTypeOK
<1>2. ControlTypeOK'
  BY DEF Prepare, TypeOK, ControlTypeOK, Steps
<1>3. CallsKnown'
  BY DEF Prepare, CallsKnown, TypeOK, ControlTypeOK
<1>4. QED
  BY <1>1, <1>2, <1>3 DEF TypeOK

LEMMA TypeStep == TypeOK /\ CallsKnown /\ [Next]_vars => TypeOK' /\ CallsKnown'
<1> SUFFICES ASSUME TypeOK, CallsKnown, [Next]_vars PROVE TypeOK' /\ CallsKnown'
  OBVIOUS
<1>1. CASE CreateForm
  BY <1>1 DEF CreateForm, TypeOK, DatabaseTypeOK, ControlTypeOK, CallsKnown
<1>2. ASSUME NEW p \in Requests, Begin(p) PROVE TypeOK' /\ CallsKnown'
  BY <1>2
  DEF Begin, database, TypeOK, DatabaseTypeOK, ControlTypeOK, Steps, CallsKnown
<1>3. ASSUME NEW p \in Requests, FormMissing(p) PROVE TypeOK' /\ CallsKnown'
  BY <1>3, EndUnchangedTyped DEF FormMissing
<1>4. ASSUME NEW p \in Requests, LockForm(p) PROVE TypeOK' /\ CallsKnown'
  BY <1>4
  DEF LockForm, GetsFormRow, database, TypeOK, DatabaseTypeOK, ControlTypeOK,
      Steps, CallsKnown
<1>5. ASSUME NEW p \in Requests, VersionMissing(p) PROVE TypeOK' /\ CallsKnown'
  BY <1>5, EndUnchangedTyped DEF VersionMissing
<1>6. ASSUME NEW p \in Requests, pc[p] = "body" PROVE call[p] \in Calls
  BY <1>6 DEF CallsKnown
<1>7. ASSUME NEW p \in Requests, PutVersion(p) PROVE TypeOK' /\ CallsKnown'
  <2>1. /\ pc[p] = "body" /\ call[p].version \in Versions
        /\ call[p].definition \in Definitions
    BY <1>6, <1>7, CallFields DEF PutVersion
  <2>2. OnlyRow(call[p].version, Atomic!DraftRow(call[p].definition))
          \in [Versions -> Atomic!Row \cup {Untouched}]
    BY <2>1, NoWritesTyped, RowsTyped
  <2>3. QED
    BY <1>7, <2>1, <2>2, EndUnchangedTyped, PrepareTyped DEF PutVersion
<1>8. ASSUME NEW p \in Requests, Publish(p) PROVE TypeOK' /\ CallsKnown'
  <2>1. pc[p] = "body" /\ call[p].version \in Versions
    BY <1>6, <1>8, CallFields DEF Publish
  <2>2. PublishWrites(call[p].version) \in [Versions -> Atomic!Row \cup {Untouched}]
    BY <2>1, RowsTyped
    DEF PublishWrites, Atomic!RowAfterPublish, TypeOK, DatabaseTypeOK
  <2>3. QED
    BY <1>8, <2>1, <2>2, EndUnchangedTyped, PrepareTyped DEF Publish
<1>9. ASSUME NEW p \in Requests, Retire(p) PROVE TypeOK' /\ CallsKnown'
  <2>1. pc[p] = "body" /\ call[p].version \in Versions
    BY <1>6, <1>9, CallFields DEF Retire
  <2>2. OnlyRow(call[p].version, Atomic!RetiredRow(versions[call[p].version]))
          \in [Versions -> Atomic!Row \cup {Untouched}]
    BY <2>1, NoWritesTyped, RowsTyped DEF TypeOK, DatabaseTypeOK
  <2>3. QED
    BY <1>9, <2>1, <2>2, EndUnchangedTyped, PrepareTyped DEF Retire
<1>10. ASSUME NEW p \in Requests, Submit(p) PROVE TypeOK' /\ CallsKnown'
  <2>1. /\ pc[p] = "body" /\ call[p].version \in Versions
        /\ call[p].key \in Keys /\ call[p].body \in Bodies
    BY <1>6, <1>10, CallFields DEF Submit
  <2>2. \A s \in submissions : s.id \in Ids
    BY DEF TypeOK, DatabaseTypeOK, Atomic!Submission
  <2>3. \A id \in Ids :
          [id |-> id, version |-> call[p].version, key |-> call[p].key,
           body |-> call[p].body] \in Atomic!Submission
    BY <2>1 DEF Atomic!Submission
  <2>4. \A s \in Earlier(call[p].version, call[p].key) : s \in submissions
    BY DEF Earlier, Atomic!Earlier
  <2>5. \/ EndUnchanged(p, 400, NoReceipt) \/ EndUnchanged(p, 409, NoReceipt)
        \/ \E s \in submissions : EndUnchanged(p, 200, s.id)
        \/ \E id \in Ids :
             Prepare(p, NothingWritten,
               [id |-> id, version |-> call[p].version, key |-> call[p].key,
                body |-> call[p].body])
    BY <1>10, <2>4 DEF Submit
  <2>6. ASSUME NEW id \in Ids,
               Prepare(p, NothingWritten,
                 [id |-> id, version |-> call[p].version, key |-> call[p].key,
                  body |-> call[p].body])
        PROVE TypeOK' /\ CallsKnown'
    BY <2>1, <2>3, <2>6, NoWritesTyped, PrepareTyped
  <2>7. ASSUME NEW s \in submissions, EndUnchanged(p, 200, s.id)
        PROVE TypeOK' /\ CallsKnown'
    BY <2>1, <2>2, <2>7, EndUnchangedTyped
  <2>8. CASE EndUnchanged(p, 400, NoReceipt) \/ EndUnchanged(p, 409, NoReceipt)
    BY <2>1, <2>8, EndUnchangedTyped
  <2>9. QED
    BY <2>5, <2>6, <2>7, <2>8
<1>11. ASSUME NEW p \in Requests, Commit(p) PROVE TypeOK' /\ CallsKnown'
  <2>1. DatabaseTypeOK'
    <3>1. \A v \in Versions : written[p][v] \in Atomic!Row \cup {Untouched}
      BY DEF TypeOK, ControlTypeOK
    <3>2. versions' \in [Versions -> Atomic!Row]
      BY <1>11, <3>1 DEF Commit, CommittedRow, TypeOK, DatabaseTypeOK
    <3>3. submissions' \subseteq Atomic!Submission
      BY <1>11 DEF Commit, TypeOK, DatabaseTypeOK, ControlTypeOK
    <3>4. QED
      BY <1>11, <3>2, <3>3 DEF Commit, TypeOK, DatabaseTypeOK
  <2>2. (IF inserted[p] = NoInsert THEN NoReceipt ELSE inserted[p].id)
          \in Ids \cup {NoReceipt}
    BY DEF TypeOK, ControlTypeOK, Atomic!Submission
  <2>3. ControlTypeOK' /\ CallsKnown'
    BY <1>11, <2>2, EndTyped DEF Commit
  <2>4. QED
    BY <2>1, <2>3 DEF TypeOK
<1>12. ASSUME NEW p \in Requests, RollBack(p) PROVE TypeOK' /\ CallsKnown'
  BY <1>12, EndUnchangedTyped DEF RollBack
<1>13. ASSUME NEW p \in Requests, Close(p) PROVE TypeOK' /\ CallsKnown'
  BY <1>13
  DEF Close, database, TypeOK, DatabaseTypeOK, ControlTypeOK, Steps, CallsKnown
<1>14. CASE UNCHANGED vars
  BY <1>14 DEF vars, TypeOK, DatabaseTypeOK, ControlTypeOK, CallsKnown
<1>15. QED
  BY <1>1, <1>2, <1>3, <1>4, <1>5, <1>7, <1>8, <1>9, <1>10, <1>11, <1>12,
     <1>13, <1>14
  DEF Next, Serve, Body

LEMMA TypeInitially == Init => TypeOK /\ CallsKnown
  BY NoWritesTyped, RowsTyped
  DEF Init, TypeOK, DatabaseTypeOK, ControlTypeOK, Steps, CallsKnown

(* Database, lock and transactions stay well-typed.                        *)
THEOREM TypeCorrect == Spec => []TypeOK
<1>1. Spec => [](TypeOK /\ CallsKnown)
  BY TypeInitially, TypeStep, PTL DEF Spec
<1>2. QED
  BY <1>1, PTL
-----------------------------------------------------------------------------
(* Under the lock a transaction ends unchanged or prepares its commit.     *)
LEMMA BodyOutcomes ==
  ASSUME NEW p, Body(p)
  PROVE  /\ pc[p] = "body"
         /\ \/ \E code, receipt : EndUnchanged(p, code, receipt)
            \/ \E rows, insert : Prepare(p, rows, insert)
<1>1. CASE VersionMissing(p)
  BY <1>1 DEF VersionMissing
<1>2. CASE PutVersion(p)
  BY <1>2 DEF PutVersion
<1>3. CASE Publish(p)
  BY <1>3 DEF Publish
<1>4. CASE Retire(p)
  BY <1>4 DEF Retire
<1>5. CASE Submit(p)
  BY <1>5 DEF Submit
<1>6. QED
  BY <1>1, <1>2, <1>3, <1>4, <1>5 DEF Body

(* A step of one request leaves the transactions of the others alone.      *)
OthersKeep(p) ==
  \A q \in Requests \ {p} :
    /\ pc'[q] = pc[q] /\ call'[q] = call[q]
    /\ written'[q] = written[q] /\ inserted'[q] = inserted[q]
    /\ answer'[q] = answer[q]

LEMMA ServeIsLocal ==
  ASSUME TypeOK, NEW p \in Requests, Serve(p)
  PROVE  /\ OthersKeep(p)
         /\ pc[p] # "commit" => UNCHANGED database
<1> USE DEF OthersKeep, TypeOK, ControlTypeOK
<1>1. ASSUME NEW code, NEW receipt, End(p, code, receipt) PROVE OthersKeep(p)
  BY <1>1 DEF End
<1>2. ASSUME NEW rows, NEW insert, Prepare(p, rows, insert)
      PROVE OthersKeep(p) /\ UNCHANGED database
  BY <1>2 DEF Prepare
<1>3. ASSUME NEW code, NEW receipt, EndUnchanged(p, code, receipt)
      PROVE OthersKeep(p) /\ UNCHANGED database
  BY <1>1, <1>3 DEF EndUnchanged
<1>4. CASE Begin(p) \/ LockForm(p) \/ Close(p)
  BY <1>4 DEF Begin, LockForm, Close
<1>5. CASE FormMissing(p) \/ RollBack(p)
  BY <1>3, <1>5 DEF FormMissing, RollBack
<1>6. CASE Body(p)
  <2>1. \/ \E code, receipt : EndUnchanged(p, code, receipt)
        \/ \E rows, insert : Prepare(p, rows, insert)
    BY <1>6, BodyOutcomes
  <2>2. QED
    BY <1>2, <1>3, <2>1
<1>7. CASE Commit(p)
  BY <1>1, <1>7 DEF Commit
<1>8. QED
  BY <1>4, <1>5, <1>6, <1>7 DEF Serve

LEMMA LockStep == TypeOK /\ LockHeld /\ [Next]_vars => LockHeld'
<1> SUFFICES ASSUME TypeOK, LockHeld, [Next]_vars PROVE LockHeld'
  OBVIOUS
<1> USE DEF TypeOK, ControlTypeOK, LockHeld
<1>1. ASSUME NEW p \in Requests, NEW code, NEW receipt, End(p, code, receipt)
      PROVE LockHeld'
  BY <1>1, NoneAssumption DEF End, LockReleased
<1>2. ASSUME NEW p \in Requests, NEW rows, NEW insert, pc[p] = "body",
             Prepare(p, rows, insert)
      PROVE LockHeld'
  BY <1>2 DEF Prepare
<1>3. ASSUME NEW p \in Requests, Body(p) PROVE LockHeld'
  <2>1. \/ \E code, receipt : End(p, code, receipt)
        \/ pc[p] = "body" /\ \E rows, insert : Prepare(p, rows, insert)
    BY <1>3, BodyOutcomes DEF EndUnchanged
  <2>2. QED
    BY <1>1, <1>2, <2>1
<1>4. ASSUME NEW p \in Requests, Begin(p) \/ LockForm(p) \/ Close(p)
      PROVE LockHeld'
  BY <1>4, NoneAssumption DEF Begin, LockForm, GetsFormRow, Close
<1>5. ASSUME NEW p \in Requests, FormMissing(p) \/ RollBack(p) \/ Commit(p)
      PROVE LockHeld'
  BY <1>1, <1>5 DEF FormMissing, RollBack, Commit, EndUnchanged
<1>6. CASE CreateForm \/ UNCHANGED vars
  BY <1>6 DEF CreateForm, vars
<1>7. QED
  BY <1>3, <1>4, <1>5, <1>6 DEF Next, Serve

(* Who owns the Form row has found it, and rows of Form are never removed. *)
FormFound == lock # Nobody => form

LEMMA FoundStep == TypeOK /\ FormFound /\ [Next]_vars => FormFound'
<1> SUFFICES ASSUME TypeOK, FormFound, [Next]_vars PROVE FormFound'
  OBVIOUS
<1> USE DEF FormFound
<1>1. ASSUME form' = form, lock' \in {lock, Nobody} PROVE FormFound'
  BY <1>1
<1>2. CASE CreateForm
  BY <1>2 DEF CreateForm
<1>3. ASSUME NEW p \in Requests, Serve(p) PROVE FormFound'
  <2>1. CASE LockForm(p)
    BY <2>1 DEF LockForm, GetsFormRow, database
  <2>2. CASE Begin(p) \/ Close(p)
    BY <1>1, <2>2 DEF Begin, Close, database
  <2>3. CASE FormMissing(p) \/ RollBack(p) \/ Commit(p)
    BY <1>1, <2>3 DEF FormMissing, RollBack, Commit, EndUnchanged,
       End, LockReleased, database
  <2>4. CASE Body(p)
    <3>1. \/ \E code, receipt : EndUnchanged(p, code, receipt)
          \/ \E rows, insert : Prepare(p, rows, insert)
      BY <2>4, BodyOutcomes
    <3>2. QED
      BY <1>1, <3>1 DEF EndUnchanged, End, LockReleased, Prepare, database
  <2>5. QED
    BY <1>3, <2>1, <2>2, <2>3, <2>4 DEF Serve
<1>4. CASE UNCHANGED vars
  BY <1>4 DEF vars
<1>5. QED
  BY <1>2, <1>3, <1>4 DEF Next

-----------------------------------------------------------------------------
(* The inductive invariant.  The lock alone does not make a commit safe:   *)
(* it also has to be true that whatever the transaction read is still so,  *)
(* which is NoStaleDecision.                                               *)
IInv == TypeOK /\ CallsKnown /\ LockHeld /\ FormFound /\ NoStaleDecision

(* A transaction that has just run its last statement decided rightly.     *)
LEMMA FreshDecision ==
  ASSUME IInv, NEW p \in Requests, Body(p), pc'[p] = "commit"
  PROVE  DecisionHolds(p)'
<1> USE DEF IInv
<1>1. ASSUME NEW code, NEW receipt, EndUnchanged(p, code, receipt) PROVE FALSE
  BY <1>1 DEF EndUnchanged, End, TypeOK, ControlTypeOK
<1>2. ASSUME NEW rows, NEW insert, Prepare(p, rows, insert)
      PROVE /\ written'[p] = rows /\ inserted'[p] = insert
            /\ call' = call /\ UNCHANGED <<form, versions, submissions>>
  BY <1>2 DEF Prepare, database, TypeOK, ControlTypeOK
<1> DEFINE v == call[p].version
<1>3. CASE VersionMissing(p)
  BY <1>1, <1>3 DEF VersionMissing
<1>4. CASE PutVersion(p)
  <2>1. /\ pc[p] = "body" /\ call[p].op = "put"
        /\ ~Atomic!Saved(v) /\ Atomic!IsNextNumber(v)
        /\ Prepare(p, OnlyRow(v, Atomic!DraftRow(call[p].definition)), NoInsert)
    BY <1>1, <1>4 DEF PutVersion
  <2>2. form
    BY <2>1, NoneAssumption DEF LockHeld, FormFound
  <2>3. /\ written'[p] = OnlyRow(v, Atomic!DraftRow(call[p].definition))
        /\ inserted'[p] = NoInsert
        /\ call' = call /\ form' = form /\ versions' = versions
    BY <1>2, <2>1
  <2>4. QED
    BY <2>1, <2>2, <2>3 DEF DecisionHolds, Atomic!Saved, Atomic!IsNextNumber
<1>5. CASE Publish(p)
  <2>1. /\ call[p].op = "publish"
        /\ versions[v].status = "DRAFT" /\ ~Atomic!NewerLaunched(v)
        /\ Prepare(p, PublishWrites(v), NoInsert)
    BY <1>1, <1>5 DEF Publish
  <2>2. /\ written'[p] = PublishWrites(v) /\ inserted'[p] = NoInsert
        /\ call' = call /\ versions' = versions
    BY <1>2, <2>1
  <2>3. PublishWrites(v)' = PublishWrites(v)
    BY <2>2 DEF PublishWrites, Atomic!Live, Atomic!RowAfterPublish
  <2>4. QED
    BY <2>1, <2>2, <2>3 DEF DecisionHolds, Atomic!NewerLaunched
<1>6. CASE Retire(p)
  <2>1. /\ call[p].op = "retire" /\ Atomic!Live(v)
        /\ Prepare(p, OnlyRow(v, Atomic!RetiredRow(versions[v])), NoInsert)
    BY <1>1, <1>6 DEF Retire
  <2>2. /\ written'[p] = OnlyRow(v, Atomic!RetiredRow(versions[v]))
        /\ inserted'[p] = NoInsert
        /\ call' = call /\ versions' = versions
    BY <1>2, <2>1
  <2>3. QED
    BY <2>1, <2>2 DEF DecisionHolds, Atomic!Live
<1>7. CASE Submit(p)
  <2> DEFINE new(id) == [id |-> id, version |-> v, key |-> call[p].key,
                         body |-> call[p].body]
  <2>1. /\ call[p].op = "submit"
        /\ Atomic!MayAnswer(v, call[p].body)
        /\ Atomic!Earlier(v, call[p].key) = {}
        /\ Atomic!Live(v)
        /\ \E id \in Ids : Fresh(id) /\ Prepare(p, NothingWritten, new(id))
    BY <1>1, <1>7 DEF Submit, Earlier, Accepting
  <2>2. PICK id \in Ids : Fresh(id) /\ Prepare(p, NothingWritten, new(id))
    BY <2>1
  <2>3. /\ written'[p] = NothingWritten /\ inserted'[p] = new(id)
        /\ call' = call /\ versions' = versions /\ submissions' = submissions
    BY <1>2, <2>2
  <2>4. \A s \in submissions : s.id # id
    BY <2>2 DEF Fresh
  <2>5. QED
    BY <2>1, <2>3, <2>4
    DEF DecisionHolds, Atomic!Live, Atomic!MayAnswer, Atomic!Earlier
<1>8. QED
  BY <1>3, <1>4, <1>5, <1>6, <1>7 DEF Body

(* Nobody else can spoil a decision: that would take the lock.             *)
LEMMA DecisionStep == IInv /\ [Next]_vars => NoStaleDecision'
<1> SUFFICES ASSUME IInv, [Next]_vars, NEW q \in Requests, pc'[q] = "commit"
             PROVE DecisionHolds(q)'
  BY DEF NoStaleDecision
<1> USE DEF IInv
<1>1. ASSUME pc[q] = "commit", call'[q] = call[q], written'[q] = written[q],
             inserted'[q] = inserted[q], versions' = versions,
             submissions' = submissions, form' = form \/ form' = TRUE
      PROVE DecisionHolds(q)'
  <2>1. DecisionHolds(q)
    BY <1>1 DEF NoStaleDecision
  <2> DEFINE v == call[q].version
  <2>2. /\ Atomic!Saved(v)' = Atomic!Saved(v)
        /\ Atomic!IsNextNumber(v)' = Atomic!IsNextNumber(v)
        /\ Atomic!NewerLaunched(v)' = Atomic!NewerLaunched(v)
        /\ Atomic!Live(v)' = Atomic!Live(v)
        /\ PublishWrites(v)' = PublishWrites(v)
        /\ Atomic!MayAnswer(v, call[q].body)'
              = Atomic!MayAnswer(v, call[q].body)
        /\ Atomic!Earlier(v, call[q].key)' = Atomic!Earlier(v, call[q].key)
    BY <1>1
    DEF Atomic!Saved, Atomic!IsNextNumber, Atomic!NewerLaunched, Atomic!Live,
        PublishWrites, Atomic!RowAfterPublish, Atomic!MayAnswer, Atomic!Earlier
  <2>3. QED
    BY <1>1, <2>1, <2>2 DEF DecisionHolds
<1>2. CASE CreateForm
  BY <1>1, <1>2 DEF CreateForm
<1>3. CASE UNCHANGED vars
  BY <1>1, <1>3 DEF vars
<1>4. ASSUME NEW p \in Requests \ {q}, Serve(p) PROVE DecisionHolds(q)'
  <2>1. OthersKeep(p) /\ pc[q] = "commit"
    BY <1>4, ServeIsLocal DEF OthersKeep
  <2>2. pc[p] # "commit"
    BY <2>1 DEF LockHeld
  <2>3. UNCHANGED database
    BY <1>4, <2>2, ServeIsLocal
  <2>4. QED
    BY <1>1, <2>1, <2>3 DEF OthersKeep, database
<1>5. CASE Serve(q)
  <2>1. Body(q)
    BY <1>5 DEF Serve, Begin, FormMissing, LockForm, Commit, RollBack, Close,
       EndUnchanged, End, TypeOK, ControlTypeOK
  <2>2. QED
    BY <2>1, FreshDecision
<1>6. QED
  BY <1>2, <1>3, <1>4, <1>5 DEF Next

LEMMA InvariantInitially == Init => IInv
  BY TypeInitially, NoneAssumption
  DEF Init, IInv, LockHeld, FormFound, NoStaleDecision

LEMMA InvariantInductive == IInv /\ [Next]_vars => IInv'
  BY TypeStep, LockStep, FoundStep, DecisionStep DEF IInv

THEOREM Invariant == Spec => []IInv
  BY InvariantInitially, InvariantInductive, PTL DEF Spec

(* Two transaction bodies never overlap.                                   *)
THEOREM LockExcludes == Spec => []LockHeld
  BY Invariant, PTL DEF IInv

(* What a transaction read is still true when it commits.                  *)
THEOREM DecisionsAreFresh == Spec => []NoStaleDecision
  BY Invariant, PTL DEF IInv
-----------------------------------------------------------------------------
(* Each commit is one step of the abstract specification.                  *)
LEMMA CommitIsAtomic ==
  ASSUME IInv, NEW p \in Requests, Commit(p) PROVE Atomic!Next
<1> DEFINE v == call[p].version
           issued == {s.id : s \in submissions}
<1>1. DecisionHolds(p) /\ call[p] \in Calls
  BY DEF Commit, IInv, NoStaleDecision, CallsKnown
<1>2. v \in Versions
  BY <1>1, CallFields
<1>3. /\ versions' = [u \in Versions |->
            IF written[p][u] = Untouched THEN versions[u] ELSE written[p][u]]
      /\ submissions' = submissions \cup ({inserted[p]} \ {NoInsert})
      /\ form' = form
  BY DEF Commit, CommittedRow
<1>4. /\ versions \in [Versions -> Atomic!Row]
      /\ Untouched \notin Atomic!Row
  BY NoneAssumption DEF IInv, TypeOK, DatabaseTypeOK
<1>5. ASSUME NEW row \in Atomic!Row, written[p] = OnlyRow(v, row)
      PROVE versions' = [versions EXCEPT ![v] = row]
  BY <1>2, <1>3, <1>4, <1>5 DEF OnlyRow, NothingWritten
<1>6. ASSUME inserted[p] = NoInsert PROVE submissions' = submissions
  BY <1>3, <1>6
<1>7. CASE call[p].op = "put"
  <2> DEFINE d == call[p].definition
  <2>1. d \in Definitions /\ Atomic!DraftRow(d) \in Atomic!Row
    BY <1>1, <1>7, CallFields, RowsTyped
  <2>2. /\ form /\ ~Atomic!Saved(v) /\ Atomic!IsNextNumber(v)
        /\ written[p] = OnlyRow(v, Atomic!DraftRow(d))
        /\ inserted[p] = NoInsert
    BY <1>1, <1>7 DEF DecisionHolds
  <2>3. Atomic!PutVersion(v, d)
    BY <1>3, <1>5, <1>6, <2>1, <2>2 DEF Atomic!PutVersion, Atomic!MayDraft
  <2>4. QED
    BY <1>2, <2>1, <2>3 DEF Atomic!Next
<1>8. CASE call[p].op = "publish"
  <2>1. /\ versions[v].status = "DRAFT" /\ ~Atomic!NewerLaunched(v)
        /\ written[p] = PublishWrites(v) /\ inserted[p] = NoInsert
    BY <1>1, <1>8 DEF DecisionHolds
  <2>2. \A u \in Versions : Atomic!RowAfterPublish(v, u) \in Atomic!Row
    BY <1>4, RowsTyped DEF Atomic!RowAfterPublish
  <2>3. versions' = [u \in Versions |-> Atomic!RowAfterPublish(v, u)]
    BY <1>3, <1>4, <2>1, <2>2 DEF PublishWrites, Atomic!RowAfterPublish
  <2>4. Atomic!Publish(v)
    BY <1>3, <1>6, <2>1, <2>3 DEF Atomic!Publish
  <2>5. QED
    BY <1>2, <2>4 DEF Atomic!Next
<1>9. CASE call[p].op = "retire"
  <2>1. /\ Atomic!Live(v) /\ inserted[p] = NoInsert
        /\ written[p] = OnlyRow(v, Atomic!RetiredRow(versions[v]))
    BY <1>1, <1>9 DEF DecisionHolds
  <2>2. Atomic!RetiredRow(versions[v]) \in Atomic!Row
    BY <1>2, <1>4, RowsTyped
  <2>3. Atomic!Retire(v)
    BY <1>2, <1>3, <1>4, <1>5, <1>6, <2>1, <2>2 DEF Atomic!Retire
  <2>4. QED
    BY <1>2, <2>3 DEF Atomic!Next
<1>10. CASE call[p].op = "submit"
  <2>1. PICK w \in Versions, k \in Keys, b \in Bodies :
          w = call[p].version /\ k = call[p].key /\ b = call[p].body
    BY <1>1, <1>2, <1>10, CallFields
  <2> DEFINE new(id) == [id |-> id, version |-> w, key |-> k, body |-> b]
  <2>2. /\ Atomic!Live(w) /\ Atomic!MayAnswer(w, b)
        /\ Atomic!Earlier(w, k) = {}
        /\ written[p] = NothingWritten
    BY <1>1, <1>10, <2>1 DEF DecisionHolds
  <2>3. PICK id \in Ids : /\ \A s \in submissions : s.id # id
                          /\ inserted[p] = new(id)
    BY <1>1, <1>10, <2>1 DEF DecisionHolds
  <2>4. new(id) \in Atomic!Submission
    BY DEF Atomic!Submission
  <2>5. submissions' = submissions \cup {new(id)}
    BY <1>3, <2>3, <2>4, NoneAssumption
  <2>6. id \notin issued
    BY <2>3
  <2>7. {s.id : s \in submissions'} = {s.id : s \in submissions} \cup {id}
    <3>1. new(id).id = id
      OBVIOUS
    <3> HIDE DEF new
    <3>2. QED
      BY <2>5, <3>1
  <2>8. versions' = versions
    BY <1>3, <1>4, <2>2 DEF NothingWritten
  <2>9. Atomic!Submit(id, w, k, b)
    BY <1>3, <2>2, <2>5, <2>6, <2>7, <2>8 DEF Atomic!Submit
  <2>10. QED
    BY <2>9 DEF Atomic!Next
<1>11. QED
  BY <1>1, <1>7, <1>8, <1>9, <1>10, CallFields

LEMMA StepIsAtomic == IInv /\ [Next]_vars => [Atomic!Next]_(Atomic!formVars)
<1> SUFFICES ASSUME IInv, [Next]_vars
             PROVE Atomic!Next \/ UNCHANGED Atomic!formVars
  OBVIOUS
<1>1. ASSUME UNCHANGED database PROVE UNCHANGED Atomic!formVars
  BY <1>1 DEF database, Atomic!formVars
<1>2. CASE CreateForm
  BY <1>2 DEF CreateForm, Atomic!Next, Atomic!CreateForm
<1>3. ASSUME NEW p \in Requests, Serve(p)
      PROVE Atomic!Next \/ UNCHANGED Atomic!formVars
  <2>1. CASE Commit(p)
    BY <2>1, CommitIsAtomic
  <2>2. CASE ~Commit(p)
    <3>1. UNCHANGED database
      BY <1>3, <2>2, BodyOutcomes
      DEF Serve, Begin, FormMissing, LockForm, RollBack, Close, EndUnchanged, Prepare
    <3>2. QED
      BY <1>1, <3>1
  <2>3. QED
    BY <2>1, <2>2
<1>4. CASE UNCHANGED vars
  BY <1>1, <1>4 DEF vars, database
<1>5. QED
  BY <1>2, <1>3, <1>4 DEF Next

(* The transactions implement Forms: for any number of concurrent          *)
(* requests, with rollbacks at any point, the database changes exactly as  *)
(* if every successful request ran in one atomic step.                     *)
THEOREM TransactionsAreAtomic == Spec => Linearizable
<1>1. Init => Atomic!Init
  BY DEF Init, Atomic!Init
<1>2. QED
  BY <1>1, StepIsAtomic, Invariant, PTL DEF Spec, Linearizable, Atomic!Spec

-----------------------------------------------------------------------------
(* The two readings of Forms, as a promise and as the module whose         *)
(* theorems are cited, have the same initial states and steps.             *)
LEMMA SameInit == AtomicProofs!Init <=> Atomic!Init
  BY DEF AtomicProofs!Init, Atomic!Init, AtomicProofs!NoRow,
         Atomic!NoRow, AtomicProofs!Versions, Atomic!Versions

LEMMA SameSteps ==
  [AtomicProofs!Next]_(AtomicProofs!formVars)
    <=> [Atomic!Next]_(Atomic!formVars)
<1>1. AtomicProofs!Next <=> Atomic!Next
  BY Zenon
  DEF AtomicProofs!Next, Atomic!Next, AtomicProofs!CreateForm,
      Atomic!CreateForm, AtomicProofs!PutVersion, Atomic!PutVersion,
      AtomicProofs!MayDraft, Atomic!MayDraft,
      AtomicProofs!Publish, Atomic!Publish, AtomicProofs!Retire,
      Atomic!Retire, AtomicProofs!Submit, Atomic!Submit,
      AtomicProofs!Delete, Atomic!Delete, AtomicProofs!Saved,
      Atomic!Saved, AtomicProofs!Live, Atomic!Live,
      AtomicProofs!IsNextNumber, Atomic!IsNextNumber,
      AtomicProofs!NewerLaunched, Atomic!NewerLaunched,
      AtomicProofs!RowAfterPublish, Atomic!RowAfterPublish,
      AtomicProofs!DraftRow, Atomic!DraftRow,
      AtomicProofs!PublishedRow, Atomic!PublishedRow,
      AtomicProofs!RetiredRow, Atomic!RetiredRow,
      AtomicProofs!MayAnswer, Atomic!MayAnswer, AtomicProofs!Earlier,
      Atomic!Earlier, AtomicProofs!Versions, Atomic!Versions
<1>2. QED
  BY <1>1 DEF AtomicProofs!formVars, Atomic!formVars

LEMMA SameSpec == AtomicProofs!Spec <=> Atomic!Spec
  BY SameInit, SameSteps, PTL DEF AtomicProofs!Spec, Atomic!Spec

(* Hence what is proved of Forms holds of the transactions too: one        *)
(* published version at most, one receipt per version and key.             *)
THEOREM AtMostOnePublished == Spec => []OnePublished
<1>1. AtomicProofs!Spec => []AtomicProofs!OnePublished
  BY AtomicProofs!AtMostOnePublished, FormsAssumption
<1>2. AtomicProofs!OnePublished <=> Atomic!OnePublished
  BY
  DEF AtomicProofs!OnePublished, Atomic!OnePublished,
      AtomicProofs!Live, Atomic!Live, AtomicProofs!Versions,
      Atomic!Versions
<1>3. QED
  BY <1>1, <1>2, SameSpec, TransactionsAreAtomic, PTL
  DEF Linearizable, OnePublished

THEOREM ReceiptsAreUnique == Spec => []OneReceiptPerKey
<1>1. AtomicProofs!Spec => []AtomicProofs!OneReceiptPerKey
  BY AtomicProofs!ReceiptsAreUnique, FormsAssumption
<1>2. AtomicProofs!OneReceiptPerKey <=> Atomic!OneReceiptPerKey
  BY DEF AtomicProofs!OneReceiptPerKey, Atomic!OneReceiptPerKey
<1>3. QED
  BY <1>1, <1>2, SameSpec, TransactionsAreAtomic, PTL
  DEF Linearizable, OneReceiptPerKey
-----------------------------------------------------------------------------
(* A version that is not saved has no definition.                          *)
UnsavedIsEmpty ==
  \A v \in Versions :
    ~Atomic!Saved(v) => versions[v].definition = NoDefinition

(* What a success of call c with that receipt stands for, in terms no      *)
(* later step can undo.                                                    *)
Recorded(c, receipt) ==
  /\ c.op = "put" => /\ Atomic!Saved(c.version)
                     /\ versions[c.version].definition = c.definition
  /\ c.op = "publish" => versions[c.version].launched
  /\ c.op = "retire" => versions[c.version].status = "RETIRED"
  /\ c.op = "submit" =>
       \E s \in submissions :
          /\ s.version = c.version /\ s.key = c.key /\ s.body = c.body
          /\ s.id = receipt

SuccessRecorded ==
  \A p \in Requests :
    pc[p] = "answered" /\ answer[p].code = 200 =>
      Recorded(call[p], answer[p].receipt)

HistoryInv ==
  IInv /\ AtomicProofs!ReceiptInv /\ UnsavedIsEmpty /\ SuccessRecorded

(* What any step does to the rows, as proved of Forms.                     *)
LEMMA RowsKept ==
  ASSUME AtomicProofs!ReceiptInv, [Atomic!Next]_(Atomic!formVars),
         NEW v \in Versions
  PROVE  /\ Atomic!Saved(v) =>
              /\ Atomic!Saved(v)'
              /\ versions'[v].definition = versions[v].definition
         /\ versions[v].launched => versions'[v].launched
         /\ versions[v].status = "RETIRED" => versions'[v].status = "RETIRED"
         /\ ~Atomic!Saved(v)' => versions'[v] = versions[v]
<1>1. AtomicProofs!LifecycleInv /\ AtomicProofs!TypeOK
  BY DEF AtomicProofs!ReceiptInv, AtomicProofs!LifecycleInv
<1>2. [AtomicProofs!Next]_(AtomicProofs!formVars)
  BY SameSteps
<1>3. v \in AtomicProofs!Versions
  BY DEF AtomicProofs!Versions
<1>4. /\ <<versions[v].status, versions'[v].status>> \in
           {<<"NONE", "DRAFT">>, <<"DRAFT", "PUBLISHED">>,
            <<"PUBLISHED", "RETIRED">>}
           \cup {<<s, s>> : s \in AtomicProofs!Statuses}
      /\ AtomicProofs!Saved(v) =>
           versions'[v].definition = versions[v].definition
      /\ versions[v].launched => versions'[v].launched
  BY <1>1, <1>2, <1>3, FormsAssumption, AtomicProofs!RowsKeepHistory
<1>5. AtomicProofs!RowAdvances(v)
  BY <1>1, <1>2, <1>3, FormsAssumption, AtomicProofs!StepAdvancesRows
<1>6. ~Atomic!Saved(v)' => versions'[v] = versions[v]
  BY <1>1, <1>3, <1>5, FormsAssumption, AtomicProofs!RowFields
  DEF AtomicProofs!RowAdvances, Atomic!Saved, AtomicProofs!TypeOK
<1>7. QED
  BY <1>4, <1>6 DEF Atomic!Saved, AtomicProofs!Saved

(* The service never removes a submission.                                 *)
LEMMA SubmissionsKept ==
  ASSUME IInv, [Next]_vars PROVE submissions \subseteq submissions'
<1>1. ASSUME NEW p \in Requests, Serve(p)
      PROVE  submissions \subseteq submissions'
  <2>1. CASE Commit(p)
    BY <2>1 DEF Commit
  <2>2. CASE pc[p] # "commit"
    BY <1>1, <2>2, ServeIsLocal DEF IInv, database
  <2>3. CASE pc[p] = "commit" /\ ~Commit(p)
    BY <1>1, <2>3, BodyOutcomes
    DEF Serve, Begin, FormMissing, LockForm, RollBack, Close, EndUnchanged,
        database
  <2>4. QED
    BY <2>1, <2>2, <2>3
<1>2. QED
  BY <1>1 DEF Next, CreateForm, vars

(* So a success that is recorded stays recorded.                           *)
LEMMA RecordsLast ==
  ASSUME HistoryInv, [Next]_vars, NEW c \in Calls, NEW receipt,
         Recorded(c, receipt)
  PROVE  Recorded(c, receipt)'
<1>1. c.version \in Versions
  BY CallFields
<1>2. [Atomic!Next]_(Atomic!formVars)
  BY StepIsAtomic DEF HistoryInv
<1>3. submissions \subseteq submissions'
  BY SubmissionsKept DEF HistoryInv
<1>4. QED
  BY <1>1, <1>2, <1>3, RowsKept DEF HistoryInv, Recorded

LEMMA UnsavedStep ==
  ASSUME HistoryInv, [Next]_vars PROVE UnsavedIsEmpty'
<1>1. [Atomic!Next]_(Atomic!formVars)
  BY StepIsAtomic DEF HistoryInv
<1>2. \A v \in Versions : ~Atomic!Saved(v)' => versions'[v] = versions[v]
  BY <1>1, RowsKept DEF HistoryInv
<1>3. QED
  BY <1>2 DEF HistoryInv, UnsavedIsEmpty, Atomic!Saved

(* A commit records what its call asked for.                               *)
LEMMA CommitRecords ==
  ASSUME HistoryInv, NEW p \in Requests, Commit(p),
         NEW c, c = call[p], NEW receipt, receipt = answer'[p].receipt
  PROVE  Recorded(c, receipt)'
<1> DEFINE v == call[p].version
<1>1. DecisionHolds(p) /\ call[p] \in Calls
  BY DEF Commit, HistoryInv, IInv, NoStaleDecision, CallsKnown
<1>2. v \in Versions
  BY <1>1, CallFields
<1>3. /\ versions' = [u \in Versions |->
            IF written[p][u] = Untouched THEN versions[u] ELSE written[p][u]]
      /\ submissions' = submissions \cup ({inserted[p]} \ {NoInsert})
      /\ call' = call
  BY DEF Commit, CommittedRow, End
<1>4. /\ versions[v] \in Atomic!Row /\ Untouched \notin Atomic!Row
  BY <1>2, NoneAssumption DEF HistoryInv, IInv, TypeOK, DatabaseTypeOK
<1>5. ASSUME NEW row \in Atomic!Row, written[p][v] = row
      PROVE  versions'[v] = row
  BY <1>2, <1>3, <1>4, <1>5
<1>6. CASE call[p].op = "put"
  <2>1. call[p].definition \in Definitions
    BY <1>1, <1>6, CallFields
  <2>2. written[p][v] = Atomic!DraftRow(call[p].definition)
    BY <1>1, <1>2, <1>6 DEF DecisionHolds, OnlyRow, NothingWritten
  <2>3. versions'[v] = Atomic!DraftRow(call[p].definition)
    BY <1>5, <2>1, <2>2, RowsTyped
  <2>4. QED
    BY <1>3, <1>6, <2>3 DEF Recorded, Atomic!DraftRow, Atomic!Saved
<1>7. CASE call[p].op = "publish"
  <2>1. written[p][v] = Atomic!PublishedRow(versions[v])
    BY <1>1, <1>2, <1>7
    DEF DecisionHolds, PublishWrites, Atomic!RowAfterPublish
  <2>2. versions'[v] = Atomic!PublishedRow(versions[v])
    BY <1>4, <1>5, <2>1, RowsTyped
  <2>3. QED
    BY <1>3, <1>7, <2>2 DEF Recorded, Atomic!PublishedRow
<1>8. CASE call[p].op = "retire"
  <2>1. written[p][v] = Atomic!RetiredRow(versions[v])
    BY <1>1, <1>2, <1>8 DEF DecisionHolds, OnlyRow, NothingWritten
  <2>2. versions'[v] = Atomic!RetiredRow(versions[v])
    BY <1>4, <1>5, <2>1, RowsTyped
  <2>3. versions'[v].status = "RETIRED"
    BY <1>4, <2>2 DEF Atomic!RetiredRow, Atomic!Row
  <2>4. QED
    BY <1>3, <1>8, <2>3 DEF Recorded
<1>9. CASE call[p].op = "submit"
  <2>1. PICK id \in Ids :
          inserted[p] = [id |-> id, version |-> v, key |-> call[p].key,
                         body |-> call[p].body]
    BY <1>1, <1>9 DEF DecisionHolds
  <2>2. call[p].key \in Keys /\ call[p].body \in Bodies
    BY <1>1, <1>9, CallFields
  <2>3. inserted[p] \in Atomic!Submission
    BY <1>2, <2>1, <2>2 DEF Atomic!Submission
  <2>4. inserted[p] # NoInsert
    BY <2>3, NoneAssumption
  <2>5. answer'[p].receipt = inserted[p].id
    BY <2>4 DEF Commit, End, HistoryInv, IInv, TypeOK, ControlTypeOK
  <2>6. inserted[p] \in submissions'
    BY <1>3, <2>4
  <2>7. /\ inserted[p].version = v /\ inserted[p].key = call[p].key
        /\ inserted[p].body = call[p].body
    BY <2>1
  <2>8. QED
    BY <1>3, <1>9, <2>5, <2>6, <2>7 DEF Recorded
<1>10. QED
  BY <1>1, <1>6, <1>7, <1>8, <1>9, CallFields

(* An early return answers 200 only for what is recorded already.          *)
LEMMA ReturnRecords ==
  ASSUME HistoryInv, NEW p \in Requests, Body(p),
         pc'[p] = "answered", answer'[p].code = 200,
         NEW c, c = call[p], NEW r, r = answer'[p].receipt
  PROVE  Recorded(c, r)'
<1> USE DEF HistoryInv, IInv
<1> DEFINE v == call[p].version
<1>1. ASSUME NEW rows, NEW insert, Prepare(p, rows, insert) PROVE FALSE
  BY <1>1 DEF Prepare, TypeOK, ControlTypeOK
<1>2. ASSUME NEW code, NEW receipt, EndUnchanged(p, code, receipt)
      PROVE  /\ code = 200 /\ receipt = r
             /\ call' = call /\ UNCHANGED <<form, versions, submissions>>
  BY <1>2 DEF EndUnchanged, End, database, TypeOK, ControlTypeOK
<1>3. ASSUME NEW code, NEW receipt, EndUnchanged(p, code, receipt),
             Recorded(c, receipt)
      PROVE  Recorded(c, r)'
  BY <1>2, <1>3 DEF Recorded, Atomic!Saved
<1>4. call[p] \in Calls /\ v \in Versions
  BY BodyOutcomes, CallFields DEF CallsKnown
<1>5. CASE VersionMissing(p)
  BY <1>2, <1>5 DEF VersionMissing
<1>6. CASE PutVersion(p)
  <2>1. /\ call[p].op = "put" /\ Atomic!Saved(v)
        /\ EndUnchanged(p, IF versions[v].definition = call[p].definition
                           THEN 200 ELSE 409, NoReceipt)
    BY <1>1, <1>2, <1>6 DEF PutVersion
  <2>2. versions[v].definition = call[p].definition
    BY <1>2, <2>1
  <2>3. Recorded(c, NoReceipt)
    BY <2>1, <2>2 DEF Recorded
  <2>4. QED
    BY <1>3, <2>1, <2>3
<1>7. CASE Publish(p)
  <2>1. /\ call[p].op = "publish" /\ Atomic!Live(v)
        /\ EndUnchanged(p, 200, NoReceipt)
    BY <1>1, <1>2, <1>7 DEF Publish
  <2>2. versions[v].launched
    BY <1>4, <2>1
    DEF Atomic!Live, AtomicProofs!ReceiptInv, AtomicProofs!LifecycleInv,
        AtomicProofs!ViewPerLaunch, AtomicProofs!Versions
  <2>3. Recorded(c, NoReceipt)
    BY <2>1, <2>2 DEF Recorded
  <2>4. QED
    BY <1>3, <2>1, <2>3
<1>8. CASE Retire(p)
  <2>1. /\ call[p].op = "retire" /\ versions[v].status = "RETIRED"
        /\ EndUnchanged(p, 200, NoReceipt)
    BY <1>1, <1>2, <1>8 DEF Retire
  <2>2. Recorded(c, NoReceipt)
    BY <2>1 DEF Recorded
  <2>3. QED
    BY <1>3, <2>1, <2>2
<1>9. CASE Submit(p)
  <2> DEFINE k == call[p].key
             b == call[p].body
             new(id) == [id |-> id, version |-> v, key |-> k, body |-> b]
  <2>1. /\ call[p].op = "submit"
        /\ \/ EndUnchanged(p, 400, NoReceipt)
           \/ \E s \in Earlier(v, k) :
                IF SameRequest(s, b) THEN EndUnchanged(p, 200, s.id)
                                     ELSE EndUnchanged(p, 409, NoReceipt)
           \/ EndUnchanged(p, 409, NoReceipt)
           \/ \E id \in Ids : Prepare(p, NothingWritten, new(id))
    BY <1>9 DEF Submit
  <2>2. /\ ~EndUnchanged(p, 400, NoReceipt)
        /\ ~EndUnchanged(p, 409, NoReceipt)
    BY <1>2
  <2>3. \A id : ~Prepare(p, NothingWritten, new(id))
    BY <1>1
  <2> HIDE DEF HistoryInv, IInv
  <2>4. /\ call[p].op = "submit"
        /\ \E s \in Earlier(v, k) :
             IF SameRequest(s, b) THEN EndUnchanged(p, 200, s.id)
                                  ELSE EndUnchanged(p, 409, NoReceipt)
    BY <2>1, <2>2, <2>3, Zenon
  <2>5. PICK s \in Earlier(v, k) :
             IF SameRequest(s, b) THEN EndUnchanged(p, 200, s.id)
                                  ELSE EndUnchanged(p, 409, NoReceipt)
    BY <2>4
  <2>6. s.body = call[p].body /\ EndUnchanged(p, 200, s.id)
    BY <1>2, <2>5 DEF SameRequest
  <2>7. s \in submissions /\ s.version = v /\ s.key = call[p].key
    BY DEF Earlier, Atomic!Earlier
  <2>8. Recorded(c, s.id)
    BY <2>4, <2>6, <2>7 DEF Recorded
  <2>9. QED
    BY <1>3, <2>6, <2>8
<1>10. QED
  BY <1>5, <1>6, <1>7, <1>8, <1>9 DEF Body

LEMMA SuccessStep ==
  ASSUME HistoryInv, [Next]_vars PROVE SuccessRecorded'
<1> SUFFICES ASSUME NEW q \in Requests,
                    pc'[q] = "answered", answer'[q].code = 200,
                    NEW c, c = call'[q], NEW r, r = answer'[q].receipt
             PROVE  Recorded(c, r)'
  BY DEF SuccessRecorded, Recorded, Atomic!Saved
<1>1. TypeOK /\ CallsKnown
  BY DEF HistoryInv, IInv
<1>2. ASSUME pc[q] = "answered", answer[q].code = 200, c = call[q],
             r = answer[q].receipt
      PROVE  Recorded(c, r)'
  <2>1. c \in Calls /\ Recorded(c, r)
    BY <1>1, <1>2 DEF HistoryInv, SuccessRecorded, CallsKnown
  <2>2. QED
    BY <2>1, RecordsLast
<1>3. CASE CreateForm \/ UNCHANGED vars
  BY <1>2, <1>3 DEF CreateForm, vars
<1>4. ASSUME NEW p \in Requests \ {q}, Serve(p) PROVE Recorded(c, r)'
  BY <1>1, <1>2, <1>4, ServeIsLocal DEF OthersKeep
<1>5. CASE Serve(q)
  <2>1. ASSUME NEW code, NEW receipt, EndUnchanged(q, code, receipt)
        PROVE  call' = call /\ answer'[q].code = code
    BY <1>1, <2>1 DEF EndUnchanged, End, TypeOK, ControlTypeOK
  <2>2. CASE Commit(q)
    <3>1. call' = call
      BY <2>2 DEF Commit, End
    <3>2. QED
      BY <2>2, <3>1, CommitRecords
  <2>3. CASE Body(q)
    <3>1. call' = call
      BY <2>1, <2>3, BodyOutcomes DEF Prepare
    <3>2. QED
      BY <2>3, <3>1, ReturnRecords
  <2>4. CASE FormMissing(q) \/ RollBack(q)
    BY <2>1, <2>4 DEF FormMissing, RollBack
  <2>5. CASE Begin(q) \/ LockForm(q) \/ Close(q)
    BY <1>1, <2>5 DEF Begin, LockForm, Close, TypeOK, ControlTypeOK
  <2>6. QED
    BY <1>5, <2>2, <2>3, <2>4, <2>5 DEF Serve
<1>6. QED
  BY <1>3, <1>4, <1>5 DEF Next

LEMMA HistoryInitially == Init => HistoryInv
<1> SUFFICES ASSUME Init PROVE HistoryInv
  OBVIOUS
<1>1. IInv
  BY InvariantInitially
<1>2. AtomicProofs!Init
  BY SameInit DEF Init, Atomic!Init
<1>3. AtomicProofs!ReceiptInv
  BY <1>2, AtomicProofs!LifecycleInitially, FormsAssumption
  DEF AtomicProofs!ReceiptInv, AtomicProofs!Init,
      AtomicProofs!OneReceiptPerKey, AtomicProofs!SubmissionsFit
<1>4. UnsavedIsEmpty /\ SuccessRecorded
  BY DEF Init, UnsavedIsEmpty, SuccessRecorded, Atomic!NoRow
<1>5. QED
  BY <1>1, <1>3, <1>4 DEF HistoryInv

LEMMA HistoryInductive == HistoryInv /\ [Next]_vars => HistoryInv'
<1> SUFFICES ASSUME HistoryInv, [Next]_vars PROVE HistoryInv'
  OBVIOUS
<1>1. [AtomicProofs!Next]_(AtomicProofs!formVars)
  BY StepIsAtomic, SameSteps DEF HistoryInv
<1>2. AtomicProofs!ReceiptInv'
  BY <1>1, AtomicProofs!ReceiptInductive, FormsAssumption DEF HistoryInv
<1>3. QED
  BY <1>2, InvariantInductive, UnsavedStep, SuccessStep DEF HistoryInv

THEOREM HistoryInvariant == Spec => []HistoryInv
  BY HistoryInitially, HistoryInductive, PTL DEF Spec

(* A 200 on its way reports work that is committed and can no longer be    *)
(* undone, and its receipt names the caller's own submission.              *)
THEOREM SuccessLasts == Spec => []SuccessIsDurable
<1>1. HistoryInv => SuccessIsDurable
  <2> SUFFICES ASSUME HistoryInv, NEW p \in Requests,
                      pc[p] = "answered", answer[p].code = 200,
                      NEW c, c = call[p]
               PROVE  /\ c.op = "publish" => versions[c.version].launched
                      /\ c.op # "publish" => Done(c)
                      /\ c.op = "submit" =>
                           \E s \in Atomic!Earlier(c.version, c.key) :
                              s.id = answer[p].receipt /\ s.body = c.body
    BY DEF SuccessIsDurable
  <2>1. c \in Calls /\ Recorded(c, answer[p].receipt)
    BY DEF HistoryInv, IInv, CallsKnown, SuccessRecorded
  <2>2. c.op \in {"put", "publish", "retire", "submit"}
    BY <2>1, CallFields
  <2>3. c.op = "submit" =>
           \E s \in Atomic!Earlier(c.version, c.key) :
              s.id = answer[p].receipt /\ s.body = c.body
    BY <2>1 DEF Recorded, Atomic!Earlier
  <2>4. QED
    BY <2>1, <2>2, <2>3 DEF Recorded, Done
<1>2. QED
  BY <1>1, HistoryInvariant, PTL
-----------------------------------------------------------------------------
(* The conflicts a body can answer are refusals of work that is not done:  *)
(* what is Done has been saved, is live, is retired, or is an earlier      *)
(* submission that fits its version and is the only one with its key.      *)
LEMMA DoneIsNotRefused ==
  ASSUME HistoryInv, NEW p \in Requests, Body(p), Done(call[p]),
         pc'[p] = "answered"
  PROVE  answer'[p].code = 200
<1> USE DEF HistoryInv, IInv
<1> DEFINE c == call[p]
           v == c.version
<1>1. ASSUME NEW rows, NEW insert, Prepare(p, rows, insert) PROVE FALSE
  BY <1>1 DEF Prepare, TypeOK, ControlTypeOK
<1>2. ASSUME NEW receipt, EndUnchanged(p, 200, receipt)
      PROVE  answer'[p].code = 200
  BY <1>2 DEF EndUnchanged, End, TypeOK, ControlTypeOK
<1>3. c \in Calls /\ v \in Versions
  BY BodyOutcomes, CallFields DEF CallsKnown
<1>4. ASSUME NEW s \in submissions
      PROVE  /\ versions[s.version].launched
             /\ Atomic!MayAnswer(s.version, s.body)
  BY <1>4
  DEF AtomicProofs!ReceiptInv, AtomicProofs!SubmissionsFit,
      AtomicProofs!MayAnswer, Atomic!MayAnswer
<1>5. \A s, t \in submissions :
        s.version = t.version /\ s.key = t.key => s = t
  BY DEF AtomicProofs!ReceiptInv, AtomicProofs!OneReceiptPerKey
<1>6. versions[v].launched => Atomic!Saved(v)
  BY <1>3
  DEF AtomicProofs!ReceiptInv, AtomicProofs!LifecycleInv,
      AtomicProofs!ViewPerLaunch, AtomicProofs!Versions, Atomic!Saved
<1>7. CASE VersionMissing(p)
  <2>1. c.op # "put" /\ ~Atomic!Saved(v)
    BY <1>7 DEF VersionMissing
  <2>2. c.op = "submit" /\ \E s \in Atomic!Earlier(v, c.key) : s.body = c.body
    BY <2>1 DEF Done, Atomic!Saved, Atomic!Live
  <2>3. QED
    BY <1>4, <1>6, <2>1, <2>2 DEF Atomic!Earlier
<1>8. CASE PutVersion(p)
  <2>1. c.op = "put" /\ c.definition \in Definitions
    BY <1>3, <1>8, CallFields DEF PutVersion
  <2>2. versions[v].definition = c.definition
    BY <2>1 DEF Done
  <2>3. Atomic!Saved(v)
    BY <1>3, <2>1, <2>2, FormsAssumption DEF UnsavedIsEmpty
  <2>4. EndUnchanged(p, 200, NoReceipt)
    BY <1>8, <2>2, <2>3 DEF PutVersion
  <2>5. QED
    BY <1>2, <2>4
<1>9. CASE Publish(p)
  <2>1. c.op = "publish"
    BY <1>9 DEF Publish
  <2>2. Atomic!Live(v)
    BY <2>1 DEF Done
  <2>3. EndUnchanged(p, 200, NoReceipt)
    BY <1>9, <2>2 DEF Publish, Atomic!Live
  <2>4. QED
    BY <1>2, <2>3
<1>10. CASE Retire(p)
  <2>1. c.op = "retire"
    BY <1>10 DEF Retire
  <2>2. versions[v].status = "RETIRED"
    BY <2>1 DEF Done
  <2>3. EndUnchanged(p, 200, NoReceipt)
    BY <1>10, <2>2 DEF Retire, Atomic!Live
  <2>4. QED
    BY <1>2, <2>3
<1>11. CASE Submit(p)
  <2> DEFINE k == c.key
             b == c.body
  <2>1. c.op = "submit"
    BY <1>11 DEF Submit
  <2>2. PICK s \in Earlier(v, k) : s.body = b
    BY <2>1 DEF Done, Earlier
  <2>3. s \in submissions /\ s.version = v /\ s.key = k
    BY DEF Earlier, Atomic!Earlier
  <2>4. Atomic!MayAnswer(v, b)
    BY <1>4, <2>2, <2>3
  <2>5. \A t \in Earlier(v, k) : t = s
    BY <1>5, <2>3 DEF Earlier, Atomic!Earlier
  <2>6. \E t \in Earlier(v, k) :
          IF SameRequest(t, b) THEN EndUnchanged(p, 200, t.id)
                               ELSE EndUnchanged(p, 409, NoReceipt)
    BY <1>11, <2>2, <2>4 DEF Submit
  <2>7. EndUnchanged(p, 200, s.id)
    BY <2>2, <2>5, <2>6 DEF SameRequest
  <2>8. QED
    BY <1>2, <2>7
<1>12. QED
  BY <1>7, <1>8, <1>9, <1>10, <1>11 DEF Body

(* A request for work that is already done never meets a conflict: it      *)
(* succeeds, or its transaction fails.                                     *)
THEOREM RetriesSucceed == Spec => RetriesNeverConflict
<1>1. HistoryInv /\ [Next]_vars =>
        [\A p \in Requests :
           pc[p] = "body" /\ Done(call[p]) /\ pc'[p] = "answered" =>
             answer'[p].code \in {200, 500}]_vars
  <2> SUFFICES ASSUME HistoryInv, Next, NEW p \in Requests,
                      pc[p] = "body", Done(call[p]), pc'[p] = "answered"
               PROVE  answer'[p].code \in {200, 500}
    OBVIOUS
  <2>1. TypeOK
    BY DEF HistoryInv, IInv
  <2>2. Serve(p)
    BY <2>1, ServeIsLocal DEF Next, CreateForm, OthersKeep
  <2>3. Body(p) \/ RollBack(p)
    BY <2>2 DEF Serve, Begin, FormMissing, LockForm, Commit, Close
  <2>4. CASE Body(p)
    BY <2>4, DoneIsNotRefused
  <2>5. CASE RollBack(p)
    BY <2>1, <2>5
    DEF RollBack, EndUnchanged, End, TypeOK, ControlTypeOK
  <2>6. QED
    BY <2>3, <2>4, <2>5
<1>2. QED
  BY <1>1, HistoryInvariant, PTL DEF Spec, RetriesNeverConflict
-----------------------------------------------------------------------------
(* Only the transaction that waits for its COMMIT has written anything.    *)
NothingElseWritten ==
  \A p \in Requests :
    pc[p] # "commit" => written[p] = NothingWritten /\ inserted[p] = NoInsert

LEMMA WritersStep ==
  TypeOK /\ NothingElseWritten /\ [Next]_vars => NothingElseWritten'
<1> SUFFICES ASSUME TypeOK, NothingElseWritten, [Next]_vars
             PROVE  NothingElseWritten'
  OBVIOUS
<1>1. ASSUME NEW p \in Requests, Serve(p) PROVE NothingElseWritten'
  <2>1. OthersKeep(p)
    BY <1>1, ServeIsLocal
  <2>2. pc'[p] # "commit" =>
          written'[p] = NothingWritten /\ inserted'[p] = NoInsert
    <3> USE DEF TypeOK, ControlTypeOK
    <3>1. CASE Begin(p) \/ LockForm(p) \/ Close(p)
      BY <3>1 DEF Begin, LockForm, Close, NothingElseWritten
    <3>2. ASSUME NEW code, NEW receipt, End(p, code, receipt)
          PROVE  written'[p] = NothingWritten /\ inserted'[p] = NoInsert
      BY <3>2 DEF End
    <3>3. ASSUME NEW rows, NEW insert, Prepare(p, rows, insert)
          PROVE  pc'[p] = "commit"
      BY <3>3 DEF Prepare
    <3>4. CASE FormMissing(p) \/ RollBack(p) \/ Commit(p)
      BY <3>2, <3>4 DEF FormMissing, RollBack, Commit, EndUnchanged
    <3>5. CASE Body(p)
      BY <3>2, <3>3, <3>5, BodyOutcomes DEF EndUnchanged
    <3>6. QED
      BY <1>1, <3>1, <3>4, <3>5 DEF Serve
  <2>3. QED
    BY <2>1, <2>2 DEF OthersKeep, NothingElseWritten
<1>2. CASE CreateForm \/ UNCHANGED vars
  BY <1>2 DEF CreateForm, vars, NothingElseWritten
<1>3. QED
  BY <1>1, <1>2 DEF Next

THEOREM WritersCommit == Spec => []NothingElseWritten
<1>1. Init => NothingElseWritten
  BY DEF Init, NothingElseWritten
<1>2. QED
  BY <1>1, WritersStep, TypeCorrect, PTL DEF Spec

(* What publish and retire make of a row.                                  *)
LEMMA RowsBecome ==
  ASSUME NEW r \in Atomic!Row
  PROVE  /\ Atomic!PublishedRow(r).status = "PUBLISHED"
         /\ Atomic!PublishedRow(r).definition = r.definition
         /\ Atomic!RetiredRow(r).status = "RETIRED"
         /\ Atomic!RetiredRow(r).definition = r.definition
         /\ Atomic!RetiredRow(r).launched = r.launched
  BY DEF Atomic!Row, Atomic!PublishedRow, Atomic!RetiredRow

(* What a request writes suits the schema.                                 *)
WritesSuit(p) ==
  /\ \A v \in Versions :
       written[p][v] # Untouched =>
         /\ VersionIndex(versions[v], written[p][v])
         /\ ProtectFormVersion(versions[v], written[p][v])
         /\ ProtectFormDefinition(versions[v], written[p][v])
         /\ CreateView(versions[v], written[p][v])
  /\ OnePublishedIndex(p)
  /\ inserted[p] # NoInsert => ValidateEnvelope(p) /\ SubmissionIndexes(p)

LEMMA PreparedWritesSuit ==
  ASSUME HistoryInv, NEW p \in Requests, pc[p] = "commit"
  PROVE  WritesSuit(p)
<1> DEFINE v == call[p].version
<1>1. DecisionHolds(p) /\ call[p] \in Calls
  BY DEF HistoryInv, IInv, NoStaleDecision, CallsKnown
<1>2. v \in Versions
  BY <1>1, CallFields
<1>3. /\ versions \in [Versions -> Atomic!Row]
      /\ Untouched \notin Atomic!Row
      /\ \A u \in Versions : versions[u] \in Atomic!Row
  BY NoneAssumption DEF HistoryInv, IInv, TypeOK, DatabaseTypeOK
<1>4. \A u, w \in Versions :
        versions[u].status = "PUBLISHED" /\ versions[w].status = "PUBLISHED"
          => u = w
  BY DEF HistoryInv, AtomicProofs!ReceiptInv, AtomicProofs!LifecycleInv,
         AtomicProofs!ViewPerLaunch, AtomicProofs!LiveIsNewest,
         AtomicProofs!Live, AtomicProofs!Versions
<1>5. versions[v].status = "DRAFT" => ~versions[v].view
  BY <1>2, <1>3
  DEF HistoryInv, AtomicProofs!ReceiptInv, AtomicProofs!LifecycleInv,
      AtomicProofs!ViewPerLaunch, AtomicProofs!Versions, Atomic!Row
<1>6. ASSUME NEW row \in Atomic!Row, written[p] = OnlyRow(v, row)
      PROVE  /\ \A u \in Versions :
                  IF u = v THEN written[p][u] = row /\ CommittedRow(p, u) = row
                  ELSE /\ written[p][u] = Untouched
                       /\ CommittedRow(p, u) = versions[u]
  BY <1>2, <1>3, <1>6 DEF OnlyRow, NothingWritten, CommittedRow
<1>7. CASE call[p].op = "put"
  <2> DEFINE row == Atomic!DraftRow(call[p].definition)
  <2>1. /\ row \in Atomic!Row /\ row.status = "DRAFT"
    BY <1>1, <1>7, CallFields, RowsTyped DEF Atomic!DraftRow
  <2>2. /\ versions[v].status = "NONE" /\ inserted[p] = NoInsert
        /\ written[p] = OnlyRow(v, row)
    BY <1>1, <1>7 DEF DecisionHolds, Atomic!Saved
  <2> HIDE DEF row
  <2>3. OnePublishedIndex(p)
    BY <1>4, <1>6, <2>1, <2>2 DEF OnePublishedIndex
  <2>4. QED
    BY <1>6, <2>1, <2>2, <2>3
    DEF WritesSuit, VersionIndex, ProtectFormVersion, ProtectFormDefinition, CreateView
<1>8. CASE call[p].op = "publish"
  <2>1. /\ versions[v].status = "DRAFT" /\ inserted[p] = NoInsert
        /\ written[p] = PublishWrites(v)
    BY <1>1, <1>8 DEF DecisionHolds
  <2>2. ASSUME NEW u \in Versions
        PROVE  \/ /\ u = v
                  /\ written[p][u] = Atomic!PublishedRow(versions[u])
                  /\ CommittedRow(p, u) = written[p][u]
               \/ /\ u # v /\ versions[u].status = "PUBLISHED"
                  /\ written[p][u] = Atomic!RetiredRow(versions[u])
                  /\ CommittedRow(p, u) = written[p][u]
               \/ /\ u # v /\ versions[u].status # "PUBLISHED"
                  /\ written[p][u] = Untouched
                  /\ CommittedRow(p, u) = versions[u]
    <3>1. written[p][u] = IF u = v \/ Atomic!Live(u)
                            THEN Atomic!RowAfterPublish(v, u) ELSE Untouched
      BY <2>1 DEF PublishWrites
    <3>2. /\ Atomic!PublishedRow(versions[u]) # Untouched
          /\ Atomic!RetiredRow(versions[u]) # Untouched
      BY <1>3, RowsTyped
    <3>3. QED
      BY <3>1, <3>2 DEF CommittedRow, Atomic!RowAfterPublish, Atomic!Live
  <2>3. \A u \in Versions : CommittedRow(p, u).status = "PUBLISHED" => u = v
    BY <1>3, <2>2, RowsBecome
  <2>4. OnePublishedIndex(p)
    BY <2>3 DEF OnePublishedIndex
  <2>5. ASSUME NEW u \in Versions, written[p][u] # Untouched
        PROVE  /\ VersionIndex(versions[u], written[p][u])
               /\ ProtectFormVersion(versions[u], written[p][u])
               /\ ProtectFormDefinition(versions[u], written[p][u])
               /\ CreateView(versions[u], written[p][u])
    BY <1>3, <1>5, <2>1, <2>2, <2>5, RowsBecome
    DEF VersionIndex, ProtectFormVersion, ProtectFormDefinition, CreateView
  <2>6. QED
    BY <2>1, <2>4, <2>5 DEF WritesSuit
<1>9. CASE call[p].op = "retire"
  <2> DEFINE row == Atomic!RetiredRow(versions[v])
  <2>1. /\ row \in Atomic!Row /\ row.status = "RETIRED"
        /\ row.definition = versions[v].definition
        /\ row.launched = versions[v].launched
    BY <1>2, <1>3, RowsTyped, RowsBecome
  <2>2. /\ versions[v].status = "PUBLISHED" /\ inserted[p] = NoInsert
        /\ written[p] = OnlyRow(v, row)
    BY <1>1, <1>9 DEF DecisionHolds, Atomic!Live
  <2> HIDE DEF row
  <2>3. OnePublishedIndex(p)
    BY <1>4, <1>6, <2>1, <2>2 DEF OnePublishedIndex
  <2>4. QED
    BY <1>6, <2>1, <2>2, <2>3
    DEF WritesSuit, VersionIndex, ProtectFormVersion, ProtectFormDefinition, CreateView
<1>10. CASE call[p].op = "submit"
  <2>1. /\ Atomic!Live(v) /\ Atomic!MayAnswer(v, call[p].body)
        /\ Atomic!Earlier(v, call[p].key) = {}
        /\ written[p] = NothingWritten
    BY <1>1, <1>10 DEF DecisionHolds
  <2>2. PICK id \in Ids :
          /\ \A s \in submissions : s.id # id
          /\ inserted[p] = [id |-> id, version |-> v, key |-> call[p].key,
                            body |-> call[p].body]
    BY <1>1, <1>10 DEF DecisionHolds
  <2>3. /\ inserted[p].id = id /\ inserted[p].version = v
        /\ inserted[p].key = call[p].key /\ inserted[p].body = call[p].body
    BY <2>2
  <2>4. \A u \in Versions :
          written[p][u] = Untouched /\ CommittedRow(p, u) = versions[u]
    BY <2>1 DEF NothingWritten, CommittedRow
  <2>5. OnePublishedIndex(p)
    BY <1>4, <2>4 DEF OnePublishedIndex
  <2>6. ValidateEnvelope(p)
    BY <1>2, <2>1, <2>3, <2>4
    DEF ValidateEnvelope, Atomic!Live, Atomic!MayAnswer
  <2>7. SubmissionIndexes(p)
    BY <2>1, <2>2, <2>3 DEF SubmissionIndexes, Atomic!Earlier
  <2>8. QED
    BY <2>4, <2>5, <2>6, <2>7 DEF WritesSuit
<1>11. QED
  BY <1>1, <1>7, <1>8, <1>9, <1>10, CallFields

(* Whatever the requests, and however they interleave, what a transaction  *)
(* writes runs into no lifecycle trigger, unique index or existing view of *)
(* the schema, nor does it wait for another transaction in one: the form   *)
(* lock and the checks before the writes leave nothing to refuse.          *)
THEOREM SchemaAcceptsWrites == Spec => []SchemaNeverRefuses
<1>1. HistoryInv /\ NothingElseWritten => SchemaNeverRefuses
  <2> SUFFICES ASSUME HistoryInv, NothingElseWritten,
                      NEW p \in Requests, pc[p] = "commit"
               PROVE  /\ WritesSuit(p)
                      /\ \A q \in Requests \ {p} :
                           written[q] = NothingWritten /\ inserted[q] = NoInsert
    BY DEF SchemaNeverRefuses, WritesSuit
  <2>1. \A q \in Requests \ {p} : pc[q] # "commit"
    BY DEF HistoryInv, IInv, LockHeld
  <2>2. QED
    BY <2>1, PreparedWritesSuit DEF NothingElseWritten
<1>2. QED
  BY <1>1, HistoryInvariant, WritersCommit, PTL
=============================================================================
