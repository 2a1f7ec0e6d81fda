------------------------- MODULE EventDeliveryProofs -------------------------
(* Theorems about EventDelivery, for any number of requests, pool size,    *)
(* submissions and bound on failures: what reaches the bus is what was     *)
(* saved, a recorded delivery has reached it, and every further copy has a *)
(* lost attempt to blame.                                                  *)
EXTENDS EventDelivery, FormsProofs, FiniteSetTheorems

(* The delivery transactions that hold the lock of their event row.        *)
Holding(p) == pc[p] \in {"posting", "recording"} /\ ~expired[p]

(* Where a request is determines what it carries.                          *)
StageOK(p) ==
  /\ pc[p] # "idle" => sub[p] \in Submission
  /\ pc[p] \notin {"idle", "answered"} => sub[p].body \in WantsEvent
  /\ pc[p] # "answered" => code[p] = 0
  /\ pc[p] = "posting" => post[p] # "none"
  /\ pc[p] = "recording" => post[p] = "accepted" /\ ~expired[p]
  /\ pc[p] \notin {"posting", "recording"} => post[p] = "none" /\ ~expired[p]

StagesOK == \A p \in Requests : StageOK(p)

(* A row is locked by exactly the transaction that is delivering it.       *)
LocksHeld ==
  \A p \in Requests, id \in Ids :
    rowLock[id] = p <=> Holding(p) /\ sub[p].id = id

(* What holds the lock found the row undelivered, and it still is.         *)
HeldRowsPend ==
  \A p \in Requests : Holding(p) => event[sub[p].id] = "pending"

(* Everything in circulation that claims to be the content of an id.       *)
Contents ==
  {<<s.id, s.body>> : s \in submissions}
    \cup {<<sub[p].id, sub[p].body>> : p \in {q \in Requests : pc[q] # "idle"}}
    \cup seen

(* An id has been issued before anything carries it, and has one content.  *)
ContentsAgree ==
  /\ \A c \in Contents : c[1] \in issued
  /\ \A c, d \in Contents : c[1] = d[1] => c = d

(* Only contents that ask for an event were ever sent.                     *)
SeenWanted == \A c \in seen : c[2] \in WantsEvent

(* What a request or a row knows to be accepted has been accepted.         *)
AcceptedMeansSent ==
  /\ \A p \in Requests : post[p] = "accepted" => accepted[sub[p].id] > 0
  /\ \A id \in Ids : accepted[id] > 0 => id \in issued

(* Calls the bus may still accept although their attempt has been counted  *)
(* as a failure.                                                           *)
Late(id) == {p \in Requests : post[p] = "sent" /\ expired[p] /\ sub[p].id = id}

(* One copy needs no failure: the recorded one, or the one about to be.    *)
OneIsFree(id) ==
  \/ event[id] # "pending"
  \/ \E p \in Requests : Holding(p) /\ sub[p].id = id /\ post[p] = "accepted"

CopiesCounted ==
  \A id \in Ids :
    /\ IsFiniteSet(Late(id))
    /\ accepted[id] + Cardinality(Late(id)) <=
         failures[id] + (IF OneIsFree(id) THEN 1 ELSE 0)

RowInv == DeliveryTypeOK /\ ReceiptInv /\ StagesOK /\ LocksHeld
CopyInv ==
  /\ RowInv
  /\ HeldRowsPend
  /\ ContentsAgree
  /\ SeenWanted
  /\ AcceptedMeansSent
  /\ RecordedMeansAccepted
  /\ CopiesCounted
-----------------------------------------------------------------------------
(* Whatever a delivery does to the tables, Forms may do: the second        *)
(* transaction adds no way to change them.                                 *)
LEMMA StepIsForms == [DeliveryNext]_vars => [Next]_formVars
<1> SUFFICES ASSUME [DeliveryNext]_vars PROVE [Next]_formVars
  OBVIOUS
<1>1. CASE UNCHANGED vars
  BY <1>1 DEF vars
<1>2. CASE Lifecycle
  BY <1>2 DEF Lifecycle, Next
<1>3. ASSUME NEW p \in Requests, NEW id \in Ids, NEW v \in Versions,
             NEW k \in Keys, NEW b \in Bodies, SubmitNew(p, id, v, k, b)
      PROVE [Next]_formVars
  BY <1>3 DEF SubmitNew, Next
<1>4. ASSUME NEW p \in Requests, NEW v \in Versions, NEW k \in Keys,
             NEW b \in Bodies, SubmitAgain(p, v, k, b)
      PROVE [Next]_formVars
  BY <1>4 DEF SubmitAgain
<1>5. ASSUME NEW p \in Requests,
             \/ Deliver(p) \/ Trouble(p)
             \/ BusAccepts(p) \/ BusRefuses(p) \/ Close(p)
      PROVE [Next]_formVars
  BY <1>5
  DEF Deliver, Trouble, Connect, ReceiptMissing, AlreadyPublished, Send,
      Acknowledged, AcknowledgedLate, Record, PoolExhausted, PostFails,
      RecordFails, WaitTimesOut, TransactionExpires, Crash, BusAccepts,
      BusRefuses, Close, Answer
<1>6. ASSUME NEW s \in submissions, DeleteCascade(s) PROVE [Next]_formVars
  BY <1>6 DEF DeleteCascade, Next
<1>7. QED
  BY <1>1, <1>2, <1>3, <1>4, <1>5, <1>6 DEF DeliveryNext

LEMMA StartsAsForms == DeliveryInit => Init
  BY DEF DeliveryInit

(* Serving the events leaves a system that obeys Forms.                    *)
THEOREM DeliveryImplementsForms == DeliverySpec => Spec
  BY StepIsForms, StartsAsForms, PTL DEF DeliverySpec, Spec

(* The steps one request takes on its own, once it has a receipt.          *)
Leaves(p) ==
  \/ ReceiptMissing(p) \/ AlreadyPublished(p) \/ AcknowledgedLate(p)
  \/ Record(p) \/ PoolExhausted(p) \/ PostFails(p) \/ RecordFails(p)
  \/ WaitTimesOut(p)

RequestStep(p) ==
  \/ Connect(p) \/ Send(p) \/ Acknowledged(p) \/ BusAccepts(p)
  \/ BusRefuses(p) \/ TransactionExpires(p) \/ Leaves(p) \/ Crash(p) \/ Close(p)

(* What a step is: one of a single request, the submission that makes the  *)
(* event row, a retry of it, its deletion, or one that leaves all delivery *)
(* state alone.                                                            *)
LEMMA StepCases ==
  ASSUME [DeliveryNext]_vars
  PROVE  \/ \E p \in Requests : RequestStep(p)
         \/ \E p \in Requests, id \in Ids, v \in Versions, k \in Keys,
               b \in Bodies : SubmitNew(p, id, v, k, b)
         \/ \E p \in Requests, v \in Versions, k \in Keys, b \in Bodies :
               SubmitAgain(p, v, k, b)
         \/ \E s \in submissions : DeleteCascade(s)
         \/ UNCHANGED <<submissions, issued, deliveryVars>>
<1>1. CASE UNCHANGED vars
  BY <1>1 DEF vars, formVars
<1>2. CASE Lifecycle
  BY <1>2 DEF Lifecycle, CreateForm, PutVersion, Publish, Retire
<1>3. ASSUME NEW p \in Requests,
             \/ Deliver(p) \/ Trouble(p)
             \/ BusAccepts(p) \/ BusRefuses(p) \/ Close(p)
      PROVE  RequestStep(p)
  BY <1>3 DEF Deliver, Trouble, RequestStep, Leaves
<1>4. QED
  BY <1>1, <1>2, <1>3 DEF DeliveryNext

(* The receipt that begins a delivery, and the content it carries.         *)
LEMMA SaveTyped ==
  ASSUME DeliveryTypeOK, StagesOK, NEW p \in Requests, NEW s \in Submission,
         Saved1(p, s)
  PROVE  /\ sub' \in [Requests -> Submission \cup {NoSubmission}]
         /\ pc' \in [Requests -> Steps]
         /\ code' \in [Requests -> {0, 200, 500, 503}]
         /\ StagesOK'
<1> USE DEF DeliveryTypeOK, StagesOK, StageOK, Saved1, Steps
<1>1. CASE s.body \in WantsEvent
  BY <1>1
<1>2. CASE s.body \notin WantsEvent
  BY <1>2
<1>3. QED
  BY <1>1, <1>2

(* Both ways to begin, as one: the tables may grow by the receipt's row.   *)
LEMMA Begins ==
  ASSUME DeliveryTypeOK, NEW p \in Requests, NEW v \in Versions,
         NEW k \in Keys, NEW b \in Bodies,
         \/ \E id \in Ids : SubmitNew(p, id, v, k, b)
         \/ SubmitAgain(p, v, k, b)
  PROVE  \E s \in Submission :
           /\ Saved1(p, s)
           /\ \/ /\ event' = event /\ UNCHANGED formVars
                 /\ \E t \in submissions : t.id = s.id /\ t.body = s.body
              \/ /\ event' = [event EXCEPT ![s.id] = EventRow(s.body)]
                 /\ s.id \notin issued
                 /\ submissions' = submissions \cup {s}
                 /\ issued' = issued \cup {s.id}
<1>1. ASSUME NEW id \in Ids, SubmitNew(p, id, v, k, b)
      PROVE \E s \in Submission :
              /\ Saved1(p, s)
              /\ event' = [event EXCEPT ![s.id] = EventRow(s.body)]
              /\ s.id \notin issued
              /\ submissions' = submissions \cup {s}
              /\ issued' = issued \cup {s.id}
  <2> DEFINE s == [id |-> id, version |-> v, key |-> k, body |-> b]
  <2>1. s \in Submission /\ s.id = id /\ s.body = b
    BY DEF Submission
  <2>2. /\ Saved1(p, s)
        /\ event' = [event EXCEPT ![id] = EventRow(b)]
        /\ id \notin issued
        /\ submissions' = submissions \cup {s}
        /\ issued' = issued \cup {id}
    BY <1>1 DEF SubmitNew, Submit
  <2> HIDE DEF s
  <2>3. QED
    BY <2>1, <2>2
<1>2. ASSUME SubmitAgain(p, v, k, b)
      PROVE \E s \in Submission :
              /\ Saved1(p, s)
              /\ event' = event /\ UNCHANGED formVars
              /\ \E t \in submissions : t.id = s.id /\ t.body = s.body
  <2>1. PICK t \in Original(v, k, b) :
          Saved1(p, [id |-> t.id, version |-> v, key |-> k, body |-> b])
    BY <1>2 DEF SubmitAgain
  <2> DEFINE s == [id |-> t.id, version |-> v, key |-> k, body |-> b]
  <2>2. t \in submissions /\ t.id \in Ids /\ t.body = b
    BY DEF Original, Earlier, DeliveryTypeOK, TypeOK, Submission
  <2>3. s \in Submission /\ s.id = t.id /\ s.body = b
    BY <2>2 DEF Submission
  <2>4. Saved1(p, s) /\ event' = event /\ UNCHANGED formVars
    BY <1>2, <2>1 DEF SubmitAgain
  <2> HIDE DEF s
  <2>5. QED
    BY <2>2, <2>3, <2>4
<1>3. QED
  BY <1>1, <1>2
-----------------------------------------------------------------------------
(* Counting a failure, or a copy, keeps the counters in their types.       *)
LEMMA CountersTyped ==
  ASSUME DeliveryTypeOK, NEW p \in Requests, sub[p] \in Submission
  PROVE  /\ CountFailure(p) => failures' \in [Ids -> 0 .. MaxFailures]
         /\ Accepted(p) => /\ accepted' \in [Ids -> Nat]
                           /\ seen' \subseteq Ids \X Bodies
<1>1. sub[p].id \in Ids /\ sub[p].body \in Bodies
  BY DEF Submission
<1>2. CountFailure(p) => failures' \in [Ids -> 0 .. MaxFailures]
  BY <1>1, DeliveryAssumption DEF CountFailure, DeliveryTypeOK
<1>3. Accepted(p) => /\ accepted' \in [Ids -> Nat]
                     /\ seen' \subseteq Ids \X Bodies
  BY <1>1 DEF Accepted, DeliveryTypeOK
<1>4. QED
  BY <1>2, <1>3

(* A request's own step keeps the types and moves it to a proper stage.    *)
LEMMA RequestTyped ==
  ASSUME DeliveryTypeOK, StagesOK, TypeOK', NEW p \in Requests, RequestStep(p)
  PROVE  DeliveryTypeOK' /\ StagesOK'
<1> USE DEF StagesOK, StageOK, DeliveryTypeOK, Steps
<1>1. CASE Connect(p)
  BY <1>1 DEF Connect
<1>2. CASE Leaves(p)
  <2>1. sub[p] \in Submission
    BY <1>2
    DEF Leaves, ReceiptMissing, AlreadyPublished, AcknowledgedLate, Record,
        PoolExhausted, PostFails, RecordFails, WaitTimesOut, Confirmed
  <2>2. \E c \in {200, 500, 503} : Answer(p, c)
    BY <1>2
    DEF Leaves, ReceiptMissing, AlreadyPublished, AcknowledgedLate, Record,
        PoolExhausted, PostFails, RecordFails, WaitTimesOut
  <2>3. StagesOK'
    BY <2>1, <2>2 DEF Answer
  <2>4. /\ event' \in [Ids -> {"none", "pending", "published"}]
        /\ failures' \in [Ids -> 0 .. MaxFailures]
        /\ accepted' \in [Ids -> Nat] /\ seen' \subseteq Ids \X Bodies
    BY <1>2, <2>1, CountersTyped
    DEF Leaves, ReceiptMissing, AlreadyPublished, AcknowledgedLate, Record,
        PoolExhausted, PostFails, RecordFails, WaitTimesOut, MaybeAccepted
  <2>5. QED
    BY <2>2, <2>3, <2>4 DEF Answer, Unlock
<1>3. CASE Send(p)
  BY <1>3 DEF Send, Submission
<1>4. CASE Acknowledged(p)
  BY <1>4 DEF Acknowledged
<1>5. CASE TransactionExpires(p)
  BY <1>5, CountersTyped DEF TransactionExpires, Unlock
<1>6. CASE Crash(p)
  BY <1>6, CountersTyped DEF Crash, Unlock, MaybeAccepted
<1>7. CASE BusAccepts(p)
  BY <1>7, CountersTyped DEF BusAccepts
<1>8. CASE BusRefuses(p)
  BY <1>8 DEF BusRefuses
<1>9. CASE Close(p)
  BY <1>9 DEF Close
<1>10. QED
  BY <1>1, <1>2, <1>3, <1>4, <1>5, <1>6, <1>7, <1>8, <1>9 DEF RequestStep

LEMMA DeliveryTypeStep ==
  DeliveryTypeOK /\ StagesOK /\ [DeliveryNext]_vars =>
    DeliveryTypeOK' /\ StagesOK'
<1> SUFFICES ASSUME DeliveryTypeOK, StagesOK, [DeliveryNext]_vars
             PROVE  DeliveryTypeOK' /\ StagesOK'
  OBVIOUS
<1>1. TypeOK'
  BY StepIsForms, TypeStep DEF DeliveryTypeOK
<1>2. ASSUME NEW p \in Requests, RequestStep(p)
      PROVE  DeliveryTypeOK' /\ StagesOK'
  BY <1>1, <1>2, RequestTyped
<1>3. ASSUME NEW p \in Requests, NEW v \in Versions, NEW k \in Keys,
             NEW b \in Bodies,
             \/ \E id \in Ids : SubmitNew(p, id, v, k, b)
             \/ SubmitAgain(p, v, k, b)
      PROVE  DeliveryTypeOK' /\ StagesOK'
  <2>1. PICK s \in Submission :
          /\ Saved1(p, s)
          /\ \/ event' = event
             \/ event' = [event EXCEPT ![s.id] = EventRow(s.body)]
    BY <1>3, Begins
  <2>2. event' \in [Ids -> {"none", "pending", "published"}]
    BY <2>1 DEF EventRow, DeliveryTypeOK
  <2>3. UNCHANGED <<pool, rowLock, post, expired, accepted, seen, failures>>
    BY <2>1 DEF Saved1
  <2>4. QED
    BY <1>1, <2>1, <2>2, <2>3, SaveTyped DEF DeliveryTypeOK
<1>4. ASSUME NEW s \in submissions, DeleteCascade(s)
      PROVE  DeliveryTypeOK' /\ StagesOK'
  BY <1>1, <1>4 DEF DeleteCascade, DeliveryTypeOK, StagesOK, StageOK
<1>5. CASE UNCHANGED deliveryVars
  BY <1>1, <1>5 DEF deliveryVars, DeliveryTypeOK, StagesOK, StageOK
<1>6. QED
  BY <1>2, <1>3, <1>4, <1>5, StepCases
-----------------------------------------------------------------------------
(* The lock of a row follows the request that is delivering it.            *)
LEMMA RequestLocks ==
  ASSUME DeliveryTypeOK, StagesOK, LocksHeld, NEW p \in Requests, RequestStep(p)
  PROVE  LocksHeld'
<1> USE DEF LocksHeld, Holding, StagesOK, StageOK, DeliveryTypeOK
<1>1. Nobody \notin Requests
  BY DeliveryAssumption
<1>2. CASE Connect(p)
  BY <1>2 DEF Connect
<1>3. CASE Leaves(p)
  <2>1. PICK c : Answer(p, c)
    BY <1>3
    DEF Leaves, ReceiptMissing, AlreadyPublished, AcknowledgedLate, Record,
        PoolExhausted, PostFails, RecordFails, WaitTimesOut
  <2>2. QED
    BY <1>1, <2>1 DEF Answer, Unlock
<1>4. CASE Send(p)
  BY <1>1, <1>4 DEF Send, RowFree, Submission
<1>5. CASE Acknowledged(p)
  BY <1>5 DEF Acknowledged
<1>6. CASE TransactionExpires(p)
  BY <1>1, <1>6 DEF TransactionExpires, Unlock
<1>7. CASE Crash(p)
  BY <1>1, <1>7 DEF Crash, Unlock
<1>8. CASE BusAccepts(p)
  BY <1>8 DEF BusAccepts
<1>9. CASE BusRefuses(p)
  BY <1>9 DEF BusRefuses
<1>10. CASE Close(p)
  BY <1>10 DEF Close
<1>11. QED
  BY <1>2, <1>3, <1>4, <1>5, <1>6, <1>7, <1>8, <1>9, <1>10 DEF RequestStep

(* Beginning and deleting touch neither locks nor holders.                 *)
LEMMA BeginHolds ==
  ASSUME DeliveryTypeOK, StagesOK, NEW p \in Requests, NEW s \in Submission,
         Saved1(p, s)
  PROVE  /\ rowLock' = rowLock
         /\ ~Holding(p)
         /\ \A q \in Requests :
              /\ Holding(q)' <=> Holding(q)
              /\ Holding(q) => sub'[q] = sub[q]
              /\ post'[q] = post[q] /\ expired'[q] = expired[q]
              /\ post[q] # "none" => sub'[q] = sub[q]
  BY DEF Saved1, Holding, StagesOK, StageOK, DeliveryTypeOK

LEMMA LockStep ==
  ASSUME DeliveryTypeOK, StagesOK, LocksHeld, [DeliveryNext]_vars
  PROVE  LocksHeld'
<1>1. ASSUME NEW p \in Requests, NEW v \in Versions, NEW k \in Keys,
             NEW b \in Bodies,
             \/ \E id \in Ids : SubmitNew(p, id, v, k, b)
             \/ SubmitAgain(p, v, k, b)
      PROVE  LocksHeld'
  <2>1. PICK s \in Submission : Saved1(p, s)
    BY <1>1, Begins
  <2>2. QED
    BY <2>1, BeginHolds DEF LocksHeld
<1>2. CASE UNCHANGED <<pool, rowLock, pc, sub, post, expired>>
  BY <1>2 DEF LocksHeld, Holding
<1>3. QED
  BY <1>1, <1>2, RequestLocks, StepCases DEF DeleteCascade, deliveryVars

(* The three ways a content is in circulation.                             *)
LEMMA InContents ==
  /\ \A s \in submissions : <<s.id, s.body>> \in Contents
  /\ \A q \in Requests :
       pc[q] # "idle" => <<sub[q].id, sub[q].body>> \in Contents
  /\ seen \subseteq Contents
  BY DEF Contents

(* Whatever a request carries was issued before.                           *)
LEMMA CarriedIssued ==
  ASSUME DeliveryTypeOK, StagesOK, ContentsAgree,
         NEW q \in Requests, pc[q] # "idle"
  PROVE  sub[q] \in Submission /\ sub[q].id \in Ids /\ sub[q].id \in issued
<1>1. sub[q] \in Submission
  BY DEF StagesOK, StageOK
<1> DEFINE c == <<sub[q].id, sub[q].body>>
<1>2. c \in Contents /\ c[1] = sub[q].id
  BY InContents
<1>3. c[1] \in issued
  BY <1>2 DEF ContentsAgree
<1>4. QED
  BY <1>1, <1>2, <1>3 DEF Submission

(* A held row stays pending until its holder lets go: a new row belongs to *)
(* a new submission, a record to its holder, and a deletion has to wait.   *)
LEMMA PendStep ==
  ASSUME RowInv, HeldRowsPend, ContentsAgree, [DeliveryNext]_vars
  PROVE  HeldRowsPend'
<1> USE DEF RowInv
<1>1. ASSUME NEW p \in Requests, RequestStep(p) PROVE HeldRowsPend'
  <2> USE DEF HeldRowsPend, Holding, StagesOK, StageOK, DeliveryTypeOK
  <2>1. CASE Connect(p)
    BY <2>1 DEF Connect
  <2>2. CASE Leaves(p) /\ UNCHANGED event
    <3>1. PICK c : Answer(p, c)
      BY <2>2
      DEF Leaves, ReceiptMissing, AlreadyPublished, AcknowledgedLate, Record,
          PoolExhausted, PostFails, RecordFails, WaitTimesOut
    <3>2. QED
      BY <2>2, <3>1 DEF Answer
  <2>3. CASE Record(p)
    <3>1. Holding(p) /\ sub[p].id \in Ids
      BY <2>3 DEF Record, Confirmed, Submission
    <3>2. \A q \in Requests \ {p} : Holding(q) => sub[q].id # sub[p].id
      BY <3>1 DEF LocksHeld
    <3>3. QED
      BY <2>3, <3>1, <3>2 DEF Record, Answer
  <2>4. CASE Send(p)
    BY <2>4 DEF Send, Undelivered
  <2>5. CASE Acknowledged(p)
    BY <2>5 DEF Acknowledged
  <2>6. CASE TransactionExpires(p)
    BY <2>6 DEF TransactionExpires
  <2>7. CASE Crash(p)
    BY <2>7 DEF Crash
  <2>8. CASE BusAccepts(p)
    BY <2>8 DEF BusAccepts
  <2>9. CASE BusRefuses(p)
    BY <2>9 DEF BusRefuses
  <2>10. CASE Close(p)
    BY <2>10 DEF Close
  <2>11. Leaves(p) => UNCHANGED event \/ Record(p)
    BY DEF Leaves, ReceiptMissing, AlreadyPublished, AcknowledgedLate,
           PoolExhausted, PostFails, RecordFails, WaitTimesOut
  <2>12. QED
    BY <1>1, <2>1, <2>2, <2>3, <2>4, <2>5, <2>6, <2>7, <2>8, <2>9, <2>10,
       <2>11 DEF RequestStep
<1>2. ASSUME NEW p \in Requests, NEW v \in Versions, NEW k \in Keys,
             NEW b \in Bodies,
             \/ \E id \in Ids : SubmitNew(p, id, v, k, b)
             \/ SubmitAgain(p, v, k, b)
      PROVE  HeldRowsPend'
  <2>1. PICK s \in Submission :
          /\ Saved1(p, s)
          /\ \/ event' = event
             \/ /\ event' = [event EXCEPT ![s.id] = EventRow(s.body)]
                /\ s.id \notin issued
    BY <1>2, Begins
  <2>2. \A q \in Requests :
          Holding(q) => sub[q].id \in issued /\ sub[q].id \in Ids
    BY CarriedIssued DEF Holding
  <2>3. \A q \in Requests : Holding(q) => event'[sub[q].id] = event[sub[q].id]
    BY <2>1, <2>2 DEF DeliveryTypeOK
  <2>4. QED
    BY <2>1, <2>3, BeginHolds DEF HeldRowsPend
<1>3. ASSUME NEW s \in submissions, DeleteCascade(s) PROVE HeldRowsPend'
  <2>1. s.id \in Ids /\ rowLock[s.id] = Nobody
    BY <1>3 DEF DeleteCascade, DeliveryTypeOK, TypeOK, Submission
  <2>2. \A q \in Requests : Holding(q) => sub[q].id # s.id
    BY <2>1, DeliveryAssumption DEF LocksHeld
  <2>3. QED
    BY <1>3, <2>2 DEF DeleteCascade, HeldRowsPend, Holding, DeliveryTypeOK
<1>4. CASE UNCHANGED deliveryVars
  BY <1>4 DEF deliveryVars, HeldRowsPend, Holding
<1>5. QED
  BY <1>1, <1>2, <1>3, <1>4, StepCases
-----------------------------------------------------------------------------
(* Contents are copied from what circulates already; only a submission     *)
(* adds one, under an id that is new.                                      *)
LEMMA RequestContents ==
  ASSUME RowInv, NEW p \in Requests, RequestStep(p)
  PROVE  /\ UNCHANGED formVars
         /\ \A q \in Requests :
              pc'[q] # "idle" => pc[q] # "idle" /\ sub'[q] = sub[q]
         /\ \/ seen' = seen
            \/ /\ seen' = seen \cup {<<sub[p].id, sub[p].body>>}
               /\ post[p] = "sent" /\ pc[p] # "idle"
               /\ sub[p].body \in WantsEvent
<1> USE DEF RowInv, StagesOK, StageOK, DeliveryTypeOK
<1>1. CASE Leaves(p)
  <2>1. PICK c : Answer(p, c)
    BY <1>1
    DEF Leaves, ReceiptMissing, AlreadyPublished, AcknowledgedLate, Record,
        PoolExhausted, PostFails, RecordFails, WaitTimesOut
  <2>2. \/ seen' = seen
        \/ /\ seen' = seen \cup {<<sub[p].id, sub[p].body>>}
           /\ post[p] = "sent"
    BY <1>1
    DEF Leaves, ReceiptMissing, AlreadyPublished, AcknowledgedLate, Record,
        PoolExhausted, PostFails, RecordFails, WaitTimesOut, MaybeAccepted,
        Accepted
  <2>3. pc[p] # "idle"
    BY <1>1
    DEF Leaves, ReceiptMissing, AlreadyPublished, AcknowledgedLate, Record,
        PoolExhausted, PostFails, RecordFails, WaitTimesOut, Confirmed
  <2>4. post[p] = "sent" => sub[p].body \in WantsEvent
    OBVIOUS
  <2>5. QED
    BY <2>1, <2>2, <2>3, <2>4 DEF Answer
<1>2. CASE Crash(p)
  BY <1>2 DEF Crash, MaybeAccepted, Accepted
<1>3. CASE BusAccepts(p)
  BY <1>3 DEF BusAccepts, Accepted
<1>4. CASE Connect(p) \/ Send(p) \/ Acknowledged(p) \/ BusRefuses(p)
             \/ TransactionExpires(p) \/ Close(p)
  BY <1>4
  DEF Connect, Send, Acknowledged, BusRefuses, TransactionExpires, Close
<1>5. QED
  BY <1>1, <1>2, <1>3, <1>4 DEF RequestStep

LEMMA ContentsGrow ==
  ASSUME RowInv, [DeliveryNext]_vars
  PROVE  /\ issued \subseteq issued'
         /\ \/ Contents' \subseteq Contents
            \/ \E id \in issued' \ issued, b \in Bodies :
                 Contents' \subseteq Contents \cup {<<id, b>>}
<1> USE DEF RowInv
<1>1. ASSUME NEW p \in Requests, RequestStep(p)
      PROVE  issued' = issued /\ Contents' \subseteq Contents
  BY <1>1, RequestContents DEF Contents, formVars
<1>2. ASSUME NEW p \in Requests, NEW v \in Versions, NEW k \in Keys,
             NEW b \in Bodies,
             \/ \E id \in Ids : SubmitNew(p, id, v, k, b)
             \/ SubmitAgain(p, v, k, b)
      PROVE  /\ issued \subseteq issued'
             /\ \/ Contents' \subseteq Contents
                \/ \E id \in issued' \ issued, c \in Bodies :
                     Contents' \subseteq Contents \cup {<<id, c>>}
  <2>1. PICK s \in Submission :
          /\ Saved1(p, s)
          /\ \/ /\ event' = event /\ UNCHANGED formVars
                /\ \E t \in submissions : t.id = s.id /\ t.body = s.body
             \/ /\ event' = [event EXCEPT ![s.id] = EventRow(s.body)]
                /\ s.id \notin issued
                /\ submissions' = submissions \cup {s}
                /\ issued' = issued \cup {s.id}
    BY <1>2, Begins
  <2>2. /\ seen' = seen
        /\ \A q \in Requests : pc'[q] # "idle" =>
             \/ pc[q] # "idle" /\ sub'[q] = sub[q]
             \/ sub'[q] = s
    BY <2>1 DEF Saved1, DeliveryTypeOK
  <2>3. \A c \in Contents' :
          c \in Contents \/ c = <<s.id, s.body>>
             \/ \E t \in submissions' : c = <<t.id, t.body>>
    BY <2>2 DEF Contents
  <2>4. CASE /\ UNCHANGED formVars
             /\ \E t \in submissions : t.id = s.id /\ t.body = s.body
    BY <2>3, <2>4, InContents DEF formVars
  <2>5. CASE /\ s.id \notin issued
             /\ submissions' = submissions \cup {s}
             /\ issued' = issued \cup {s.id}
    <3>1. Contents' \subseteq Contents \cup {<<s.id, s.body>>}
      BY <2>3, <2>5, InContents
    <3>2. s.body \in Bodies
      BY DEF Submission
    <3>3. QED
      BY <2>5, <3>1, <3>2
  <2>6. QED
    BY <2>1, <2>4, <2>5
<1>3. ASSUME NEW s \in submissions, DeleteCascade(s)
      PROVE  issued' = issued /\ Contents' \subseteq Contents
  BY <1>3 DEF DeleteCascade, Delete, Contents
<1>4. CASE UNCHANGED <<submissions, issued, deliveryVars>>
  BY <1>4 DEF deliveryVars, Contents
<1>5. QED
  BY <1>1, <1>2, <1>3, <1>4, StepCases

LEMMA ContentStep ==
  ASSUME RowInv, ContentsAgree, [DeliveryNext]_vars
  PROVE  ContentsAgree'
<1>1. CASE issued \subseteq issued' /\ Contents' \subseteq Contents
  BY <1>1 DEF ContentsAgree
<1>2. ASSUME NEW id \in issued' \ issued, NEW b \in Bodies,
             issued \subseteq issued',
             Contents' \subseteq Contents \cup {<<id, b>>}
      PROVE  ContentsAgree'
  <2> DEFINE new == <<id, b>>
  <2>1. new[1] = id
    OBVIOUS
  <2>2. Contents' \subseteq Contents \cup {new}
    BY <1>2
  <2> HIDE DEF new
  <2>3. \A c \in Contents : c[1] # new[1]
    BY <2>1 DEF ContentsAgree
  <2>4. QED
    BY <1>2, <2>1, <2>2, <2>3 DEF ContentsAgree
<1>3. QED
  BY <1>1, <1>2, ContentsGrow

LEMMA SeenStep ==
  ASSUME RowInv, SeenWanted, [DeliveryNext]_vars
  PROVE  SeenWanted'
<1>1. ASSUME NEW p \in Requests, RequestStep(p) PROVE SeenWanted'
  <2>1. CASE seen' = seen
    BY <2>1 DEF SeenWanted
  <2>2. CASE /\ seen' = seen \cup {<<sub[p].id, sub[p].body>>}
             /\ sub[p].body \in WantsEvent
    BY <2>2 DEF SeenWanted
  <2>3. QED
    BY <1>1, <2>1, <2>2, RequestContents
<1>2. CASE seen' = seen
  BY <1>2 DEF SeenWanted
<1>3. QED
  BY <1>1, <1>2, StepCases
  DEF SubmitNew, SubmitAgain, Saved1, DeleteCascade, deliveryVars

(* The contents that circulate agree with the rows that are kept.          *)
LEMMA ContentsAreSaved ==
  ASSUME ContentsAgree, SeenWanted
  PROVE  OnlySavedContentIsSent
<1>1. \A c \in seen : c[1] \in issued /\ c[2] \in WantsEvent
  BY InContents DEF ContentsAgree, SeenWanted
<1>2. \A c, d \in seen : d[1] = c[1] => d = c
  BY InContents DEF ContentsAgree
<1>3. ASSUME NEW c \in seen, NEW s \in submissions, s.id = c[1]
      PROVE  s.body = c[2]
  <2> DEFINE d == <<s.id, s.body>>
  <2>1. d \in Contents /\ c \in Contents /\ d[1] = c[1] /\ d[2] = s.body
    BY <1>3, InContents
  <2> HIDE DEF d
  <2>2. QED
    BY <2>1 DEF ContentsAgree
<1>4. QED
  BY <1>1, <1>2, <1>3 DEF OnlySavedContentIsSent
-----------------------------------------------------------------------------
(* Copies at the bus only grow in number, one at a time, and only through  *)
(* a call that is under way.                                               *)
LEMMA CopiesGrow ==
  ASSUME RowInv, [DeliveryNext]_vars
  PROVE  \/ accepted' = accepted
         \/ \E p \in Requests :
              /\ RequestStep(p)
              /\ post[p] = "sent" /\ sub[p] \in Submission
              /\ accepted' = [accepted EXCEPT ![sub[p].id] = @ + 1]
<1> USE DEF RowInv
<1>1. ASSUME NEW p \in Requests, RequestStep(p)
      PROVE  \/ accepted' = accepted
             \/ /\ post[p] = "sent" /\ sub[p] \in Submission
                /\ accepted' = [accepted EXCEPT ![sub[p].id] = @ + 1]
  <2>1. post[p] = "sent" => sub[p] \in Submission
    BY DEF StagesOK, StageOK
  <2>2. QED
    BY <1>1, <2>1
    DEF RequestStep, Leaves, ReceiptMissing, AlreadyPublished,
        AcknowledgedLate, Record, PoolExhausted, PostFails, RecordFails,
        WaitTimesOut, Connect, Send, Acknowledged, BusAccepts, BusRefuses,
        TransactionExpires, Crash, Close, MaybeAccepted, Accepted
<1>2. QED
  BY <1>1, StepCases
  DEF SubmitNew, SubmitAgain, Saved1, DeleteCascade, deliveryVars

LEMMA AcceptedMonotone ==
  ASSUME RowInv, [DeliveryNext]_vars, NEW id \in Ids
  PROVE  accepted'[id] >= accepted[id]
<1>1. accepted \in [Ids -> Nat]
  BY DEF RowInv, DeliveryTypeOK
<1>2. QED
  BY <1>1, CopiesGrow DEF Submission

(* A request learns of an acceptance in the step that makes it true.       *)
LEMMA AcceptedStep ==
  ASSUME RowInv, ContentsAgree, AcceptedMeansSent, [DeliveryNext]_vars
  PROVE  AcceptedMeansSent'
<1> USE DEF RowInv
<1>1. \A id \in Ids : accepted[id] \in Nat /\ accepted'[id] \in Nat
                        /\ accepted'[id] >= accepted[id]
  BY AcceptedMonotone, DeliveryTypeStep DEF DeliveryTypeOK
<1>3. \A q \in Requests : post[q] # "none" => sub[q].id \in Ids
  BY DEF StagesOK, StageOK, Submission
<1>4. ASSUME NEW q \in Requests, post'[q] = "accepted"
      PROVE  accepted'[sub'[q].id] > 0
  <2>1. \/ post[q] = "accepted" /\ sub'[q] = sub[q]
        \/ /\ post[q] = "sent" /\ sub'[q] = sub[q]
           /\ accepted' = [accepted EXCEPT ![sub[q].id] = @ + 1]
    <3>1. ASSUME NEW p \in Requests, RequestStep(p)
          PROVE  \/ post[q] = "accepted" /\ sub'[q] = sub[q]
                 \/ /\ post[q] = "sent" /\ sub'[q] = sub[q]
                    /\ accepted' = [accepted EXCEPT ![sub[q].id] = @ + 1]
      <4> USE DEF StagesOK, StageOK, DeliveryTypeOK
      <4>1. CASE Leaves(p)
        <5>1. PICK c : Answer(p, c)
          BY <4>1
          DEF Leaves, ReceiptMissing, AlreadyPublished, AcknowledgedLate,
              Record, PoolExhausted, PostFails, RecordFails, WaitTimesOut
        <5>2. QED
          BY <1>4, <5>1 DEF Answer
      <4>2. CASE BusAccepts(p)
        BY <1>4, <4>2 DEF BusAccepts, Accepted
      <4>3. CASE Connect(p) \/ Send(p) \/ Acknowledged(p) \/ BusRefuses(p)
                   \/ TransactionExpires(p) \/ Crash(p) \/ Close(p)
        BY <1>4, <4>3
        DEF Connect, Send, Acknowledged, BusRefuses, TransactionExpires,
            Crash, Close
      <4>4. QED
        BY <3>1, <4>1, <4>2, <4>3 DEF RequestStep
    <3>2. ASSUME NEW p \in Requests, NEW v \in Versions, NEW k \in Keys,
                 NEW b \in Bodies,
                 \/ \E id \in Ids : SubmitNew(p, id, v, k, b)
                 \/ SubmitAgain(p, v, k, b)
          PROVE  post[q] = "accepted" /\ sub'[q] = sub[q]
      <4>1. PICK s \in Submission : Saved1(p, s)
        BY <3>2, Begins
      <4>2. QED
        BY <1>4, <4>1, BeginHolds
    <3>3. CASE UNCHANGED <<post, sub>>
      BY <1>4, <3>3
    <3>4. QED
      BY <3>1, <3>2, <3>3, StepCases DEF DeleteCascade, deliveryVars
  <2>2. CASE post[q] = "accepted" /\ sub'[q] = sub[q]
    BY <1>1, <1>3, <2>2 DEF AcceptedMeansSent
  <2>3. CASE /\ post[q] = "sent" /\ sub'[q] = sub[q]
             /\ accepted' = [accepted EXCEPT ![sub[q].id] = @ + 1]
    BY <1>1, <1>3, <2>3 DEF DeliveryTypeOK
  <2>4. QED
    BY <2>1, <2>2, <2>3
<1>5. ASSUME NEW id \in Ids, accepted'[id] > 0 PROVE id \in issued'
  <2>1. issued \subseteq issued'
    BY ContentsGrow
  <2>2. accepted'[id] = accepted[id] => id \in issued
    BY <1>5 DEF AcceptedMeansSent
  <2>3. ASSUME NEW p \in Requests, post[p] = "sent",
               accepted' = [accepted EXCEPT ![sub[p].id] = @ + 1]
        PROVE  id \in issued
    <3>1. pc[p] # "idle"
      BY <2>3 DEF StagesOK, StageOK
    <3>2. sub[p].id \in issued
      BY <3>1, CarriedIssued
    <3>3. id # sub[p].id => accepted'[id] = accepted[id]
      BY <2>3 DEF DeliveryTypeOK
    <3>4. QED
      BY <2>2, <3>2, <3>3
  <2>4. QED
    BY <2>1, <2>2, <2>3, CopiesGrow
<1>6. QED
  BY <1>4, <1>5 DEF AcceptedMeansSent

(* A row becomes "published", and a call is answered 200, only on the word *)
(* of an acceptance or of a row that already has one.                      *)
LEMMA RecordedStep ==
  ASSUME RowInv, AcceptedMeansSent, RecordedMeansAccepted, [DeliveryNext]_vars
  PROVE  RecordedMeansAccepted'
<1> USE DEF RowInv
<1>1. \A id \in Ids : accepted[id] \in Nat /\ accepted'[id] \in Nat
                        /\ accepted'[id] >= accepted[id]
  BY AcceptedMonotone, DeliveryTypeStep DEF DeliveryTypeOK
<1>2. ASSUME NEW id \in Ids, event'[id] = "published"
      PROVE  accepted'[id] > 0
  <2>1. \/ event[id] = "published"
        \/ \E p \in Requests : post[p] = "accepted" /\ sub[p].id = id
    <3>1. ASSUME NEW p \in Requests, RequestStep(p)
          PROVE  \/ event'[id] = event[id]
                 \/ post[p] = "accepted" /\ sub[p].id = id
      <4>1. CASE Record(p)
        <5>1. post[p] = "accepted" /\ sub[p].id \in Ids
          BY <4>1 DEF Record, Confirmed, StagesOK, StageOK, Submission
        <5>2. event' = [event EXCEPT ![sub[p].id] = "published"]
          BY <4>1 DEF Record
        <5>3. QED
          BY <5>1, <5>2 DEF DeliveryTypeOK
      <4>2. CASE Leaves(p) /\ ~Record(p)
        BY <4>2
        DEF Leaves, ReceiptMissing, AlreadyPublished, AcknowledgedLate,
            PoolExhausted, PostFails, RecordFails, WaitTimesOut
      <4>3. QED
        BY <3>1, <4>1, <4>2
        DEF RequestStep, Connect, Send, Acknowledged, BusAccepts, BusRefuses,
            TransactionExpires, Crash, Close
    <3>2. ASSUME NEW p \in Requests, NEW v \in Versions, NEW k \in Keys,
                 NEW b \in Bodies,
                 \/ \E i \in Ids : SubmitNew(p, i, v, k, b)
                 \/ SubmitAgain(p, v, k, b)
          PROVE  event'[id] = event[id]
      <4>1. PICK s \in Submission :
              \/ event' = event
              \/ event' = [event EXCEPT ![s.id] = EventRow(s.body)]
        BY <3>2, Begins
      <4>2. QED
        BY <1>2, <4>1 DEF EventRow, DeliveryTypeOK
    <3>3. ASSUME NEW s \in submissions, DeleteCascade(s)
          PROVE  event'[id] = event[id]
      BY <1>2, <3>3 DEF DeleteCascade, DeliveryTypeOK
    <3>4. QED
      BY <1>2, <3>1, <3>2, <3>3, StepCases DEF deliveryVars
  <2>2. QED
    BY <1>1, <2>1 DEF AcceptedMeansSent, RecordedMeansAccepted
<1>3. ASSUME NEW q \in Requests, pc'[q] = "answered", code'[q] = 200,
             sub'[q].body \in WantsEvent
      PROVE  accepted'[sub'[q].id] > 0
  <2> USE DEF StagesOK, StageOK, DeliveryTypeOK
  <2>1. ASSUME NEW p \in Requests, RequestStep(p)
        PROVE  /\ sub'[q] = sub[q] /\ sub[q].id \in Ids
               /\ \/ pc[q] = "answered" /\ code[q] = 200
                  \/ post[q] = "accepted" \/ event[sub[q].id] = "published"
    <3>1. CASE Leaves(p)
      <4>1. PICK c : Answer(p, c)
        BY <3>1
        DEF Leaves, ReceiptMissing, AlreadyPublished, AcknowledgedLate,
            Record, PoolExhausted, PostFails, RecordFails, WaitTimesOut
      <4>2. sub'[q] = sub[q]
        BY <4>1 DEF Answer
      <4>3. CASE q # p
        <5>1. pc[q] = "answered" /\ code[q] = 200
          BY <1>3, <4>1, <4>3 DEF Answer
        <5>2. QED
          BY <4>2, <5>1 DEF Submission
      <4>4. CASE q = p
        <5>1. \/ AlreadyPublished(p) \/ Record(p)
          BY <1>3, <3>1, <4>4
          DEF Leaves, ReceiptMissing, AcknowledgedLate, PoolExhausted,
              PostFails, RecordFails, WaitTimesOut, Answer
        <5>2. QED
          BY <4>2, <4>4, <5>1
          DEF AlreadyPublished, Record, Confirmed, Submission
      <4>5. QED
        BY <4>3, <4>4
    <3>2. CASE \/ Connect(p) \/ Send(p) \/ Acknowledged(p) \/ BusAccepts(p)
               \/ BusRefuses(p) \/ TransactionExpires(p) \/ Crash(p) \/ Close(p)
      <4>1. pc[q] = "answered" /\ code[q] = 200 /\ sub'[q] = sub[q]
        BY <1>3, <3>2
        DEF Connect, Send, Acknowledged, BusAccepts, BusRefuses,
            TransactionExpires, Crash, Close, Steps
      <4>2. QED
        BY <4>1 DEF Submission
    <3>3. QED
      BY <2>1, <3>1, <3>2 DEF RequestStep
  <2>2. ASSUME NEW p \in Requests, NEW v \in Versions, NEW k \in Keys,
               NEW b \in Bodies,
               \/ \E i \in Ids : SubmitNew(p, i, v, k, b)
               \/ SubmitAgain(p, v, k, b)
        PROVE  /\ sub'[q] = sub[q] /\ sub[q].id \in Ids
               /\ pc[q] = "answered" /\ code[q] = 200
    <3>1. PICK s \in Submission : Saved1(p, s)
      BY <2>2, Begins
    <3>2. pc[q] = "answered" /\ code[q] = 200 /\ sub'[q] = sub[q]
      BY <1>3, <3>1 DEF Saved1
    <3>3. QED
      BY <3>2 DEF Submission
  <2>3. ASSUME UNCHANGED <<pc, code, sub>>
        PROVE  /\ sub'[q] = sub[q] /\ sub[q].id \in Ids
               /\ pc[q] = "answered" /\ code[q] = 200
    BY <1>3, <2>3 DEF Submission
  <2>4. /\ sub'[q] = sub[q] /\ sub[q].id \in Ids
        /\ \/ pc[q] = "answered" /\ code[q] = 200
           \/ post[q] = "accepted" \/ event[sub[q].id] = "published"
    BY <1>3, <2>1, <2>2, <2>3, StepCases
    DEF DeleteCascade, deliveryVars, Submission
  <2>5. accepted[sub[q].id] > 0
    BY <1>3, <2>4 DEF AcceptedMeansSent, RecordedMeansAccepted
  <2>6. QED
    BY <1>1, <2>4, <2>5
<1>4. QED
  BY <1>2, <1>3 DEF RecordedMeansAccepted
-----------------------------------------------------------------------------
(* A failure is counted exactly when the attempt might have been accepted  *)
(* and had not been counted: a holder's, unless the bus refused it.        *)
LEMMA FailureCounted ==
  ASSUME RowInv, NEW p \in Requests, CountFailure(p)
  PROVE  \/ /\ Holding(p) /\ post[p] \in {"sent", "accepted"}
            /\ failures' = [failures EXCEPT ![sub[p].id] = @ + 1]
         \/ /\ ~Holding(p) \/ post[p] \notin {"sent", "accepted"}
            /\ failures' = failures
<1>1. StageOK(p) /\ post[p] \in {"none", "sent", "accepted", "refused"}
  BY DEF RowInv, StagesOK, DeliveryTypeOK
<1>2. QED
  BY <1>1 DEF CountFailure, Holding, StageOK

(* While p holds the row of its id, the free copy is p's own: nobody else  *)
(* has the lock, and nothing is recorded yet.                              *)
LEMMA HolderDecides ==
  ASSUME RowInv, HeldRowsPend, NEW p \in Requests, Holding(p)
  PROVE  OneIsFree(sub[p].id) <=> post[p] = "accepted"
<1>1. sub[p].id \in Ids /\ event[sub[p].id] = "pending"
  BY DEF RowInv, StagesOK, StageOK, Holding, HeldRowsPend, Submission
<1>2. \A q \in Requests : Holding(q) /\ sub[q].id = sub[p].id => q = p
  BY <1>1 DEF RowInv, LocksHeld
<1>3. QED
  BY <1>1, <1>2 DEF OneIsFree

(* What a request's step leaves of the others: their late calls, and the   *)
(* copy that is free for ids other than its own.                           *)
LEMMA OthersUncounted ==
  ASSUME RowInv, NEW p \in Requests,
         \A q \in Requests \ {p} :
           /\ pc'[q] = pc[q] /\ sub'[q] = sub[q]
           /\ post'[q] = post[q] /\ expired'[q] = expired[q]
  PROVE  \A id \in Ids :
           /\ Late(id)' \ {p} = Late(id) \ {p}
           /\ \A q \in Requests \ {p} :
                Holding(q)' /\ sub'[q].id = id /\ post'[q] = "accepted"
                  <=> Holding(q) /\ sub[q].id = id /\ post[q] = "accepted"
  BY DEF Late, Holding

(* A set of late calls that differs from another in p at most.             *)
LEMMA LateSize ==
  ASSUME NEW S, NEW T, NEW p, T \ {p} = S \ {p}, IsFiniteSet(S)
  PROVE  /\ IsFiniteSet(T)
         /\ Cardinality(S) \in Nat /\ Cardinality(T) \in Nat
         /\ (p \in S <=> p \in T) => Cardinality(T) = Cardinality(S)
         /\ p \in T /\ p \notin S => Cardinality(T) = Cardinality(S) + 1
         /\ p \in S /\ p \notin T => Cardinality(T) = Cardinality(S) - 1
<1>1. CASE p \in T
  <2>1. T = S \cup {p}
    BY <1>1
  <2>2. QED
    BY <1>1, <2>1, FS_AddElement, FS_CardinalityType
<1>2. CASE p \notin T
  <2>1. T = S \ {p}
    BY <1>2
  <2>2. QED
    BY <1>2, <2>1, FS_RemoveElement, FS_CardinalityType
<1>3. QED
  BY <1>1, <1>2

(* The account of one id, and what keeps it balanced.                      *)
Balanced(id) ==
  /\ IsFiniteSet(Late(id))
  /\ accepted[id] + Cardinality(Late(id)) <=
       failures[id] + (IF OneIsFree(id) THEN 1 ELSE 0)

(* What a step of p may do to the account of its own id: nothing that      *)
(* matters, deliver a late copy, deliver the free one, or lose an attempt. *)
SameCounts(id) ==
  accepted'[id] = accepted[id] /\ failures'[id] = failures[id]

OneMore(id) == accepted'[id] = accepted[id] + 1

Keeps(p, id) ==
  /\ SameCounts(id)
  /\ p \in Late(id)' => p \in Late(id)
  /\ Holding(p) /\ post[p] = "accepted" =>
       \/ event'[id] = "published"
       \/ Holding(p)' /\ post'[p] = "accepted" /\ sub'[p] = sub[p]

LateCopy(p, id) ==
  /\ OneMore(id) /\ failures'[id] = failures[id]
  /\ p \in Late(id) /\ p \notin Late(id)' /\ ~Holding(p)

FirstCopy(p, id) ==
  /\ OneMore(id) /\ failures'[id] = failures[id]
  /\ Holding(p) /\ post[p] = "sent" /\ p \notin Late(id)'
  /\ Holding(p)' /\ post'[p] = "accepted" /\ sub'[p] = sub[p]

Loses(p, id) ==
  /\ Holding(p) /\ post[p] \in {"sent", "accepted"}
  /\ failures'[id] = failures[id] + 1
  /\ \/ /\ accepted'[id] = accepted[id]
        /\ post[p] = "accepted" => p \notin Late(id)'
     \/ /\ OneMore(id) /\ post[p] = "sent"
        /\ p \notin Late(id)'

(* Each of them keeps the account of that id balanced.                     *)
LEMMA OwnAccount ==
  ASSUME RowInv, DeliveryTypeOK', HeldRowsPend, NEW p \in Requests,
         NEW id \in Ids, sub[p].id = id, Balanced(id),
         \A q \in Requests \ {p} :
           /\ pc'[q] = pc[q] /\ sub'[q] = sub[q]
           /\ post'[q] = post[q] /\ expired'[q] = expired[q],
         event'[id] \in {event[id], "published"},
         Keeps(p, id) \/ LateCopy(p, id) \/ FirstCopy(p, id) \/ Loses(p, id)
  PROVE  Balanced(id)'
<1> DEFINE L == Late(id)
           M == {q \in Requests :
                   post'[q] = "sent" /\ expired'[q] /\ sub'[q].id = id}
           F == OneIsFree(id)
           G == \/ event'[id] # "pending"
                \/ \E q \in Requests : /\ Holding(q)' /\ sub'[q].id = id
                                       /\ post'[q] = "accepted"
<1>1. /\ M \ {p} = L \ {p}
      /\ \A q \in Requests \ {p} :
           Holding(q)' /\ sub'[q].id = id /\ post'[q] = "accepted"
             <=> Holding(q) /\ sub[q].id = id /\ post[q] = "accepted"
  BY OthersUncounted DEF Late
<1>2. /\ IsFiniteSet(L)
      /\ accepted[id] + Cardinality(L) <= failures[id] + (IF F THEN 1 ELSE 0)
  BY DEF Balanced
<1>3. /\ accepted[id] \in Nat /\ accepted'[id] \in Nat
      /\ failures[id] \in Nat /\ failures'[id] \in Nat
  BY DeliveryAssumption DEF RowInv, DeliveryTypeOK
<1>4. /\ IsFiniteSet(M)
      /\ Cardinality(L) \in Nat /\ Cardinality(M) \in Nat
      /\ (p \in L <=> p \in M) => Cardinality(M) = Cardinality(L)
      /\ p \in M /\ p \notin L => Cardinality(M) = Cardinality(L) + 1
      /\ p \in L /\ p \notin M => Cardinality(M) = Cardinality(L) - 1
  <2> HIDE DEF L, M
  <2> QED
    BY <1>1, <1>2, LateSize
<1>5. F => \/ G
           \/ Holding(p) /\ post[p] = "accepted"
  BY <1>1 DEF OneIsFree
<1>6. Holding(p) => (F <=> post[p] = "accepted")
  BY HolderDecides
<1>7. p \in Late(id)' <=> p \in M
  BY DEF Late
<1>8. accepted'[id] + Cardinality(M) <= failures'[id] + (IF G THEN 1 ELSE 0)
  <2>1. CASE Keeps(p, id)
    <3>1. F => G
      BY <1>5, <2>1 DEF Keeps
    <3>2. p \in M => p \in L
      BY <1>7, <2>1 DEF Keeps
    <3>3. accepted'[id] = accepted[id] /\ failures'[id] = failures[id]
      BY <2>1 DEF Keeps, SameCounts
    <3> HIDE DEF L, M, F, G
    <3>4. QED
      BY <1>2, <1>3, <1>4, <3>1, <3>2, <3>3
  <2>2. CASE LateCopy(p, id)
    <3>1. F => G
      BY <1>5, <2>2 DEF LateCopy
    <3>2. p \in L /\ p \notin M
      BY <1>7, <2>2 DEF LateCopy
    <3>3. accepted'[id] = accepted[id] + 1 /\ failures'[id] = failures[id]
      BY <2>2 DEF LateCopy, OneMore
    <3> HIDE DEF L, M, F, G
    <3>4. QED
      BY <1>2, <1>3, <1>4, <3>1, <3>2, <3>3
  <2>3. CASE FirstCopy(p, id)
    <3>1. G /\ ~F
      BY <1>6, <2>3 DEF FirstCopy
    <3>2. p \notin M
      BY <1>7, <2>3 DEF FirstCopy
    <3>3. accepted'[id] = accepted[id] + 1 /\ failures'[id] = failures[id]
      BY <2>3 DEF FirstCopy, OneMore
    <3> HIDE DEF L, M, F, G
    <3>4. QED
      BY <1>2, <1>3, <1>4, <3>1, <3>2, <3>3
  <2>4. CASE Loses(p, id)
    <3>1. /\ F <=> post[p] = "accepted"
          /\ post[p] \in {"sent", "accepted"}
      BY <1>6, <2>4 DEF Loses
    <3>2. failures'[id] = failures[id] + 1
      BY <2>4 DEF Loses
    <3>3. \/ /\ accepted'[id] = accepted[id]
             /\ post[p] = "accepted" => p \notin M
          \/ /\ accepted'[id] = accepted[id] + 1
             /\ post[p] = "sent" /\ p \notin M
      BY <1>7, <2>4 DEF Loses, OneMore
    <3> HIDE DEF L, M, F, G
    <3>4. QED
      BY <1>2, <1>3, <1>4, <3>1, <3>2, <3>3
  <2>5. QED
    BY <2>1, <2>2, <2>3, <2>4
<1>9. QED
  BY <1>4, <1>8 DEF Balanced, Late, OneIsFree

(* Every step of a request is of one of those kinds.                       *)
LEMMA RequestKind ==
  ASSUME RowInv, NEW p \in Requests, RequestStep(p), sub[p] \in Submission,
         NEW id \in Ids, sub[p].id = id
  PROVE  /\ Keeps(p, id) \/ LateCopy(p, id) \/ FirstCopy(p, id) \/ Loses(p, id)
         /\ event'[id] \in {event[id], "published"}
<1>1. /\ StageOK(p) /\ id \in Ids /\ pc[p] \in Steps
      /\ post[p] \in {"none", "sent", "accepted", "refused"}
      /\ expired[p] \in BOOLEAN /\ accepted[id] \in Nat /\ failures[id] \in Nat
  BY DeliveryAssumption DEF RowInv, StagesOK, DeliveryTypeOK, Submission
<1>2. CountFailure(p) =>
        \/ /\ Holding(p) /\ post[p] \in {"sent", "accepted"}
           /\ failures'[id] = failures[id] + 1
        \/ /\ ~Holding(p) \/ post[p] \notin {"sent", "accepted"}
           /\ failures'[id] = failures[id]
  BY <1>1, FailureCounted DEF RowInv, DeliveryTypeOK
<1>3. Accepted(p) => OneMore(id)
  BY <1>1 DEF Accepted, OneMore, RowInv, DeliveryTypeOK
<1>4. p \in Late(id) <=> post[p] = "sent" /\ expired[p]
  BY DEF Late
<1>5. p \in Late(id)' <=> post'[p] = "sent" /\ expired'[p] /\ sub'[p].id = id
  BY DEF Late
<1> USE DEF Holding, StageOK
<1>6. CASE Connect(p) \/ Send(p) \/ Acknowledged(p) \/ BusRefuses(p) \/ Close(p)
  <2>1. SameCounts(id) /\ event' = event
    BY <1>6 DEF Connect, Send, Acknowledged, BusRefuses, Close, SameCounts
  <2>2. Keeps(p, id)
    BY <1>1, <1>4, <1>5, <1>6, <2>1
    DEF Connect, Send, Acknowledged, BusRefuses, Close, Keeps, RowInv,
        DeliveryTypeOK
  <2>3. QED
    BY <2>1, <2>2
<1>7. CASE BusAccepts(p)
  <2>1. OneMore(id) /\ failures' = failures /\ event' = event
    BY <1>3, <1>7 DEF BusAccepts
  <2>2. p \notin Late(id)' /\ post[p] = "sent" /\ post'[p] = "accepted"
    BY <1>5, <1>7 DEF BusAccepts, RowInv, DeliveryTypeOK
  <2>3. CASE expired[p]
    BY <1>4, <2>1, <2>2, <2>3 DEF LateCopy
  <2>4. CASE ~expired[p]
    <3>1. Holding(p) /\ Holding(p)' /\ sub' = sub
      BY <1>7, <2>4 DEF BusAccepts
    <3>2. QED
      BY <2>1, <2>2, <3>1 DEF FirstCopy
  <2>5. QED
    BY <1>1, <2>1, <2>3, <2>4
<1>8. CASE TransactionExpires(p)
  <2>1. /\ CountFailure(p) /\ accepted' = accepted /\ event' = event
        /\ Holding(p) /\ post' = post
    BY <1>8 DEF TransactionExpires
  <2>2. CASE post[p] \in {"sent", "accepted"}
    BY <1>2, <1>5, <2>1, <2>2 DEF Loses
  <2>3. CASE post[p] \notin {"sent", "accepted"}
    BY <1>2, <1>5, <2>1, <2>3 DEF Keeps, SameCounts
  <2>4. QED
    BY <2>1, <2>2, <2>3
<1>9. CASE Record(p)
  <2>1. /\ event'[id] = "published" /\ SameCounts(id)
        /\ p \notin Late(id)'
    BY <1>1, <1>5, <1>9
    DEF Record, Answer, SameCounts, RowInv, DeliveryTypeOK
  <2>2. QED
    BY <2>1 DEF Keeps
<1>10. CASE \/ ReceiptMissing(p) \/ AlreadyPublished(p) \/ AcknowledgedLate(p)
            \/ PoolExhausted(p) \/ WaitTimesOut(p)
  <2>1. /\ SameCounts(id) /\ event' = event /\ ~Holding(p)
        /\ p \notin Late(id)'
    BY <1>1, <1>5, <1>10
    DEF ReceiptMissing, AlreadyPublished, AcknowledgedLate, PoolExhausted,
        WaitTimesOut, Answer, SameCounts, RowInv, DeliveryTypeOK
  <2>2. QED
    BY <2>1 DEF Keeps
<1>11. CASE PostFails(p) \/ RecordFails(p) \/ Crash(p)
  <2>1. /\ CountFailure(p) /\ event' = event /\ p \notin Late(id)'
        /\ \/ accepted' = accepted
           \/ post[p] = "sent" /\ OneMore(id)
    BY <1>3, <1>5, <1>11
    DEF PostFails, RecordFails, Crash, MaybeAccepted, Answer, RowInv,
        DeliveryTypeOK
  <2>2. CASE Holding(p) /\ post[p] \in {"sent", "accepted"}
    BY <1>2, <2>1, <2>2 DEF Loses
  <2>3. CASE ~Holding(p) \/ post[p] \notin {"sent", "accepted"}
    <3>1. failures'[id] = failures[id]
      BY <1>2, <2>1, <2>3
    <3>2. CASE accepted' = accepted
      BY <2>1, <2>3, <3>1, <3>2 DEF Keeps, SameCounts
    <3>3. CASE post[p] = "sent" /\ OneMore(id)
      <4>1. pc[p] = "posting" /\ expired[p]
        BY <1>1, <2>3, <3>3
      <4>2. QED
        BY <1>4, <2>1, <2>3, <3>1, <3>3, <4>1 DEF LateCopy
    <3>4. QED
      BY <2>1, <3>2, <3>3
  <2>4. QED
    BY <2>1, <2>2, <2>3
<1>12. QED
  BY <1>6, <1>7, <1>8, <1>9, <1>10, <1>11 DEF RequestStep, Leaves

(* The accounts of all ids stay balanced.                                  *)
LEMMA CountStep ==
  ASSUME RowInv, RowInv', HeldRowsPend, ContentsAgree, AcceptedMeansSent,
         CopiesCounted, [DeliveryNext]_vars
  PROVE  CopiesCounted'
<1>1. \A id \in Ids : Balanced(id)
  BY DEF CopiesCounted, Balanced
<1>2. ASSUME NEW p \in Requests, RequestStep(p), NEW id \in Ids
      PROVE  Balanced(id)'
  <2>1. /\ pc[p] # "idle" /\ sub[p] \in Submission
        /\ pc'[p] # "idle" => sub'[p] = sub[p]
        /\ pc'[p] = "idle" => post'[p] = "none"
        /\ pc[p] \in Steps /\ pc'[p] \in Steps
    <3>1. pc[p] # "idle"
      BY <1>2
      DEF RequestStep, Leaves, ReceiptMissing, AlreadyPublished,
          AcknowledgedLate, Record, PoolExhausted, PostFails, RecordFails,
          WaitTimesOut, Connect, Send, Acknowledged, BusAccepts, BusRefuses,
          TransactionExpires, Crash, Close, Confirmed
    <3>2. QED
      BY <1>2, <3>1, RequestContents
      DEF RowInv, StagesOK, StageOK, DeliveryTypeOK
  <2>2. \A q \in Requests \ {p} :
          /\ pc'[q] = pc[q] /\ sub'[q] = sub[q]
          /\ post'[q] = post[q] /\ expired'[q] = expired[q]
    <3>1. CASE Leaves(p)
      <4>1. PICK c : Answer(p, c)
        BY <3>1
        DEF Leaves, ReceiptMissing, AlreadyPublished, AcknowledgedLate,
            Record, PoolExhausted, PostFails, RecordFails, WaitTimesOut
      <4>2. QED
        BY <4>1 DEF Answer, RowInv, DeliveryTypeOK
    <3>2. QED
      BY <1>2, <3>1
      DEF RequestStep, Connect, Send, Acknowledged, BusAccepts, BusRefuses,
          TransactionExpires, Crash, Close, RowInv, DeliveryTypeOK
  <2>3. CASE id = sub[p].id
    BY <1>1, <1>2, <2>1, <2>2, <2>3, RequestKind, OwnAccount DEF RowInv
  <2>4. CASE id # sub[p].id
    <3>1. /\ accepted'[id] = accepted[id] /\ failures'[id] = failures[id]
          /\ event'[id] = event[id]
      <4>1. CASE Leaves(p)
        BY <2>4, <4>1
        DEF Leaves, ReceiptMissing, AlreadyPublished, AcknowledgedLate,
            Record, PoolExhausted, PostFails, RecordFails, WaitTimesOut,
            CountFailure, MaybeAccepted, Accepted, RowInv, DeliveryTypeOK
      <4>2. QED
        BY <1>2, <2>4, <4>1
        DEF RequestStep, Connect, Send, Acknowledged, BusAccepts, BusRefuses,
            TransactionExpires, Crash, Close, CountFailure, MaybeAccepted,
            Accepted, RowInv, DeliveryTypeOK
    <3>2. /\ p \notin Late(id) /\ p \notin Late(id)'
          /\ ~(Holding(p) /\ sub[p].id = id)
          /\ ~(Holding(p)' /\ sub'[p].id = id)
      BY <2>1, <2>4 DEF Late, Holding
    <3>3. /\ Late(id)' \ {p} = Late(id) \ {p}
          /\ \A q \in Requests \ {p} :
               Holding(q)' /\ sub'[q].id = id /\ post'[q] = "accepted"
                 <=> Holding(q) /\ sub[q].id = id /\ post[q] = "accepted"
      BY <2>2, OthersUncounted
    <3>4. Late(id)' = Late(id)
      BY <3>2, <3>3
    <3>5. OneIsFree(id)' <=> OneIsFree(id)
      BY <3>1, <3>2, <3>3 DEF OneIsFree
    <3>6. QED
      BY <1>1, <3>1, <3>4, <3>5 DEF Balanced
  <2>5. QED
    BY <2>3, <2>4
<1>3. ASSUME NEW p \in Requests, NEW v \in Versions, NEW k \in Keys,
             NEW b \in Bodies,
             \/ \E i \in Ids : SubmitNew(p, i, v, k, b)
             \/ SubmitAgain(p, v, k, b),
             NEW id \in Ids
      PROVE  Balanced(id)'
  <2>1. PICK s \in Submission :
          /\ Saved1(p, s)
          /\ \/ event' = event
             \/ /\ event' = [event EXCEPT ![s.id] = EventRow(s.body)]
                /\ s.id \notin issued
    BY <1>3, Begins DEF RowInv
  <2>2. /\ Late(id)' = Late(id)
        /\ \A q \in Requests :
             Holding(q)' /\ sub'[q].id = id /\ post'[q] = "accepted"
               <=> Holding(q) /\ sub[q].id = id /\ post[q] = "accepted"
    BY <2>1, BeginHolds DEF RowInv, Late
  <2>3. accepted'[id] = accepted[id] /\ failures'[id] = failures[id]
    BY <2>1 DEF Saved1
  <2>4. CASE event'[id] = event[id]
    <3>1. OneIsFree(id)' <=> OneIsFree(id)
      BY <2>2, <2>4 DEF OneIsFree
    <3>2. QED
      BY <1>1, <2>2, <2>3, <3>1 DEF Balanced
  <2>5. CASE event'[id] # event[id]
    <3>1. id \notin issued
      BY <2>1, <2>5 DEF RowInv, DeliveryTypeOK
    <3>2. \A q \in Requests : post[q] = "sent" => sub[q].id \in issued
      BY CarriedIssued DEF RowInv, StagesOK, StageOK
    <3>3. Late(id) = {}
      BY <3>1, <3>2 DEF Late
    <3>4. accepted[id] = 0 /\ failures[id] \in Nat
      BY <3>1, DeliveryAssumption DEF AcceptedMeansSent, RowInv, DeliveryTypeOK
    <3>5. QED
      BY <2>2, <2>3, <3>3, <3>4, FS_EmptySet DEF Balanced
  <2>6. QED
    BY <2>4, <2>5
<1>4. ASSUME NEW s \in submissions, DeleteCascade(s), NEW id \in Ids
      PROVE  Balanced(id)'
  <2>1. /\ Late(id)' = Late(id) /\ accepted' = accepted /\ failures' = failures
        /\ OneIsFree(id) => OneIsFree(id)'
    BY <1>4 DEF DeleteCascade, Late, OneIsFree, Holding, RowInv, DeliveryTypeOK
  <2>2. /\ IsFiniteSet(Late(id)) /\ Cardinality(Late(id)) \in Nat
        /\ accepted[id] \in Nat /\ failures[id] \in Nat
    BY <1>1, FS_CardinalityType, DeliveryAssumption
    DEF Balanced, RowInv, DeliveryTypeOK
  <2>3. QED
    BY <1>1, <2>1, <2>2 DEF Balanced
<1>5. ASSUME UNCHANGED deliveryVars, NEW id \in Ids PROVE Balanced(id)'
  BY <1>1, <1>5 DEF deliveryVars, Balanced, Late, OneIsFree, Holding
<1>6. QED
  BY <1>2, <1>3, <1>4, <1>5, StepCases DEF CopiesCounted, Balanced
-----------------------------------------------------------------------------
LEMMA CopyInitially == DeliveryInit => CopyInv
<1> SUFFICES ASSUME DeliveryInit PROVE CopyInv
  OBVIOUS
<1>1. DeliveryTypeOK
  <2>1. TypeOK
    BY RowsStayTyped DEF DeliveryInit, Init, TypeOK
  <2>2. 0 \in 0 .. MaxFailures
    BY DeliveryAssumption
  <2>3. QED
    BY <2>1, <2>2 DEF DeliveryInit, DeliveryTypeOK, Steps
<1>2. ReceiptInv
  BY LifecycleInitially
  DEF DeliveryInit, Init, ReceiptInv, OneReceiptPerKey, SubmissionsFit
<1>3. StagesOK /\ LocksHeld /\ HeldRowsPend
  BY DeliveryAssumption
  DEF DeliveryInit, StagesOK, StageOK, LocksHeld, HeldRowsPend, Holding
<1>4. ContentsAgree /\ SeenWanted
  BY DEF DeliveryInit, Init, ContentsAgree, Contents, SeenWanted
<1>5. AcceptedMeansSent /\ RecordedMeansAccepted
  BY DEF DeliveryInit, AcceptedMeansSent, RecordedMeansAccepted
<1>6. CopiesCounted
  <2>1. \A id \in Ids : Late(id) = {} /\ OneIsFree(id)
    BY DEF DeliveryInit, Late, OneIsFree
  <2>2. QED
    BY <2>1, FS_EmptySet DEF DeliveryInit, CopiesCounted
<1>7. QED
  BY <1>1, <1>2, <1>3, <1>4, <1>5, <1>6 DEF CopyInv, RowInv

LEMMA CopyInductive == CopyInv /\ [DeliveryNext]_vars => CopyInv'
<1> SUFFICES ASSUME CopyInv, [DeliveryNext]_vars PROVE CopyInv'
  OBVIOUS
<1> USE DEF CopyInv
<1>1. RowInv'
  <2>1. DeliveryTypeOK' /\ StagesOK'
    BY DeliveryTypeStep DEF RowInv
  <2>2. ReceiptInv'
    BY StepIsForms, ReceiptInductive DEF RowInv
  <2>3. LocksHeld'
    BY LockStep DEF RowInv
  <2>4. QED
    BY <2>1, <2>2, <2>3 DEF RowInv
<1>2. HeldRowsPend'
  BY PendStep
<1>3. ContentsAgree'
  BY ContentStep
<1>4. SeenWanted'
  BY SeenStep
<1>5. AcceptedMeansSent'
  BY AcceptedStep
<1>6. RecordedMeansAccepted'
  BY RecordedStep
<1>7. CopiesCounted'
  BY <1>1, CountStep
<1>8. QED
  BY <1>1, <1>2, <1>3, <1>4, <1>5, <1>6, <1>7

(* The conjunction of all the above holds in every reachable state.        *)
THEOREM CopyInvariant == DeliverySpec => []CopyInv
  BY CopyInitially, CopyInductive, PTL DEF DeliverySpec

(* Requests, rows, counters and calls stay well-typed for any number of    *)
(* requests and any size of the pool.                                      *)
THEOREM DeliveryTypeCorrect == DeliverySpec => []DeliveryTypeOK
  BY CopyInvariant, PTL DEF CopyInv, RowInv

(* docs/api.md line 103: whatever reaches the bus, by a first attempt, a   *)
(* retry or a call nobody waits for any more, is the committed content of  *)
(* a submission that asked for it.                                         *)
THEOREM SavedContentIsSent == DeliverySpec => []OnlySavedContentIsSent
<1>1. CopyInv => OnlySavedContentIsSent
  BY ContentsAreSaved DEF CopyInv
<1>2. QED
  BY <1>1, CopyInvariant, PTL

(* A delivery that is recorded, or answered 200, has reached the bus.      *)
THEOREM RecordsAreTrue == DeliverySpec => []RecordedMeansAccepted
  BY CopyInvariant, PTL DEF CopyInv

(* docs/api.md line 105: n lost attempts cause at most n extra copies of   *)
(* an event, however many requests deliver it and however they overlap.    *)
THEOREM DuplicatesAreLostAttempts == DeliverySpec => []DuplicatesNeedFailure
<1>1. CopyInv => DuplicatesNeedFailure
  <2> SUFFICES ASSUME CopyInv, NEW id \in Ids
               PROVE  accepted[id] <= 1 + failures[id]
    BY DEF DuplicatesNeedFailure
  <2>1. /\ IsFiniteSet(Late(id)) /\ Cardinality(Late(id)) \in Nat
        /\ accepted[id] \in Nat /\ failures[id] \in Nat
    BY FS_CardinalityType, DeliveryAssumption
    DEF CopyInv, CopiesCounted, RowInv, DeliveryTypeOK
  <2>2. QED
    BY <2>1 DEF CopyInv, CopiesCounted
<1>2. QED
  BY <1>1, CopyInvariant, PTL

(* No event row is ever held by two delivery transactions: the lock does   *)
(* exclude while the transactions last.  What the counterexample to        *)
(* NoConcurrentSends shows is only that a call outlives its transaction.   *)
OneHolder ==
  \A p, q \in Requests :
    Holding(p) /\ Holding(q) /\ sub[p].id = sub[q].id => p = q

THEOREM RowsHaveOneHolder == DeliverySpec => []OneHolder
<1>1. RowInv => OneHolder
  BY DEF RowInv, LocksHeld, StagesOK, StageOK, Holding, Submission, OneHolder
<1>2. QED
  BY <1>1, CopyInvariant, PTL DEF CopyInv
=============================================================================
