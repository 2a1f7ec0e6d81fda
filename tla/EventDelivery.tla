---------------------------- MODULE EventDelivery ----------------------------
(***************************************************************************)
(* The second half of a Kafka-opted submission: after the submission       *)
(* transaction has committed together with its SubmissionEvent row,        *)
(* publishSubmission (src/src/forms/forms.service.ts) opens a second       *)
(* transaction, locks that row, posts to the Bus API and records the       *)
(* delivery.  The first transaction is a single step of Forms, which       *)
(* FormTransactions shows it implements.  A transaction holds one of the   *)
(* replica's database connections (src/src/db.service.ts) until it ends,   *)
(* during the call to the bus as well.  The Bus API and the client's       *)
(* retries are external.                                                   *)
(***************************************************************************)
EXTENDS Forms, FiniteSets

CONSTANTS
  Requests,      \* submit calls that can be in service at the same time
  Nobody,        \* the owner of an event row that is not locked
  NoSubmission,  \* what an idle request delivers
  MaxPool,       \* bound on the size of the pool; the code has 10
  MaxFailures    \* bound on unrecorded attempts per submission

ASSUME DeliveryAssumption ==
  /\ Nobody \notin Requests
  /\ MaxPool \in Nat \ {0}
  /\ MaxFailures \in Nat

VARIABLES
  pool,      \* connections of the pool, all the same to the requests
  event,     \* SubmissionEvent row of each id: publishedAt set or not
  rowLock,   \* owner of the lock on that row
  pc,        \* where each request is
  sub,       \* the receipt and content the request delivers
  post,      \* its HTTP call to the Bus API
  expired,   \* has its delivery transaction timed out during that call?
  code,      \* HTTP status of its response
  accepted,  \* how often the bus has accepted an event for each id
  seen,      \* the pairs <<id, body>> the bus has accepted
  failures   \* attempts per id that may have been accepted, yet not recorded

deliveryVars ==
  <<pool, event, rowLock, pc, sub, post, expired, code, accepted, seen,
    failures>>
vars == <<formVars, deliveryVars>>

(* "saved": first transaction committed, second waits for a connection;    *)
(* "connected": it waits for the event row; "posting": row locked, call    *)
(* under way; "recording": call acknowledged.                              *)
Steps == {"idle", "saved", "connected", "posting", "recording", "answered"}

DeliveryTypeOK ==
  /\ TypeOK
  /\ pool \in 1 .. MaxPool
  /\ event \in [Ids -> {"none", "pending", "published"}]
  /\ rowLock \in [Ids -> Requests \cup {Nobody}]
  /\ pc \in [Requests -> Steps]
  /\ sub \in [Requests -> Submission \cup {NoSubmission}]
  /\ post \in [Requests -> {"none", "sent", "accepted", "refused"}]
  /\ expired \in [Requests -> BOOLEAN]
  /\ code \in [Requests -> {0, 200, 500, 503}]
  /\ accepted \in [Ids -> Nat]
  /\ seen \subseteq Ids \X Bodies
  /\ failures \in [Ids -> 0 .. MaxFailures]

DeliveryInit ==
  /\ Init
  /\ pool \in 1 .. MaxPool
  /\ event = [id \in Ids |-> "none"]
  /\ rowLock = [id \in Ids |-> Nobody]
  /\ pc = [p \in Requests |-> "idle"]
  /\ sub = [p \in Requests |-> NoSubmission]
  /\ post = [p \in Requests |-> "none"]
  /\ expired = [p \in Requests |-> FALSE]
  /\ code = [p \in Requests |-> 0]
  /\ accepted = [id \in Ids |-> 0]
  /\ seen = {}
  /\ failures = [id \in Ids |-> 0]

-----------------------------------------------------------------------------
(* The requests whose delivery transaction is open; an expired one has     *)
(* given its connection back.                                              *)
Holders ==
  {p \in Requests :
     pc[p] \in {"connected", "posting", "recording"} /\ ~expired[p]}

Free == Cardinality(Holders) < pool

(* The first transaction had a connection too, and has returned receipt s: *)
(* opted-in calls go on to deliver, the others answer.  Without a          *)
(* connection the request fails and nothing has changed.                   *)
Saved1(p, s) ==
  /\ pc[p] = "idle"
  /\ Free
  /\ sub' = [sub EXCEPT ![p] = s]
  /\ IF s.body \in WantsEvent
     THEN pc' = [pc EXCEPT ![p] = "saved"] /\ UNCHANGED code
     ELSE pc' = [pc EXCEPT ![p] = "answered"] /\ code' = [code EXCEPT ![p] = 200]
  /\ UNCHANGED <<pool, rowLock, post, expired, accepted, seen, failures>>

EventRow(b) == IF b \in WantsEvent THEN "pending" ELSE "none"

(* A new submission, stored together with its event row if it wants one.   *)
SubmitNew(p, id, v, k, b) ==
  /\ Submit(id, v, k, b)
  /\ event' = [event EXCEPT ![id] = EventRow(b)]
  /\ Saved1(p, [id |-> id, version |-> v, key |-> k, body |-> b])

(* Faulty: the content of a retry is not compared.                         *)
AnyOriginal(v, k, b) == Earlier(v, k)

(* Faulty: a retired version no longer recognises its retries.             *)
OriginalWhileLive(v, k, b) == {s \in Earlier(v, k) : s.body = b /\ Live(v)}

(* The rows an identical request finds: same version, key and requestHash. *)
Original(v, k, b) == {s \in Earlier(v, k) : s.body = b}

(* A retry, also one after retirement: the original receipt, the content   *)
(* rebuilt from this request.                                              *)
SubmitAgain(p, v, k, b) ==
  /\ \E s \in Original(v, k, b) :
       Saved1(p, [id |-> s.id, version |-> v, key |-> k, body |-> b])
  /\ UNCHANGED <<formVars, event>>

(* Faulty: the row disappears with its lock.                               *)
DropRow(p) == rowLock' = [id \in {i \in Ids : rowLock[i] # p} |-> rowLock[id]]

(* The delivery transaction is over: its row lock is free again.           *)
Unlock(p) ==
  rowLock' = [id \in Ids |-> IF rowLock[id] = p THEN Nobody ELSE rowLock[id]]

Answer(p, status) ==
  /\ pc' = [pc EXCEPT ![p] = "answered"]
  /\ code' = [code EXCEPT ![p] = status]
  /\ post' = [post EXCEPT ![p] = "none"]
  /\ expired' = [expired EXCEPT ![p] = FALSE]
  /\ Unlock(p)
  /\ UNCHANGED <<formVars, pool, sub>>

(* $transaction of publishSubmission gets a connection ...                 *)
Connect(p) ==
  /\ pc[p] = "saved"
  /\ Free
  /\ pc' = [pc EXCEPT ![p] = "connected"]
  /\ UNCHANGED <<formVars, pool, event, rowLock, sub, post, expired, code,
                 accepted, seen, failures>>

(* ... or waits for one in vain: connectionTimeoutMillis.                  *)
PoolExhausted(p) ==
  /\ pc[p] = "saved"
  /\ ~Free
  /\ Answer(p, 500)
  /\ UNCHANGED <<event, accepted, seen, failures>>

(* SELECT ... FOR UPDATE finds no event row: the submission was deleted    *)
(* between the two transactions.                                           *)
ReceiptMissing(p) ==
  /\ pc[p] = "connected"
  /\ event[sub[p].id] = "none"
  /\ Answer(p, 500)
  /\ UNCHANGED <<event, accepted, seen, failures>>

(* Faulty: the event row is read without FOR UPDATE.                       *)
RowReadable(p) == TRUE

RowFree(p) == rowLock[sub[p].id] = Nobody

AlreadyPublished(p) ==
  /\ pc[p] = "connected"
  /\ RowFree(p)
  /\ event[sub[p].id] = "published"
  /\ Answer(p, 200)
  /\ UNCHANGED <<event, accepted, seen, failures>>

Undelivered(p) == event[sub[p].id] = "pending"

(* The row is locked and pending: postEvent is called.                     *)
Send(p) ==
  /\ pc[p] = "connected"
  /\ RowFree(p)
  /\ Undelivered(p)
  /\ rowLock' = [rowLock EXCEPT ![sub[p].id] = p]
  /\ pc' = [pc EXCEPT ![p] = "posting"]
  /\ post' = [post EXCEPT ![p] = "sent"]
  /\ UNCHANGED <<formVars, pool, event, sub, expired, code, accepted, seen,
                 failures>>

(* One more copy of p's event reaches the topic.                           *)
Accepted(p) ==
  /\ accepted' = [accepted EXCEPT ![sub[p].id] = @ + 1]
  /\ seen' = seen \cup {<<sub[p].id, sub[p].body>>}

(* External: the Bus API accepts or refuses the event.                     *)
BusAccepts(p) ==
  /\ pc[p] = "posting" /\ post[p] = "sent"
  /\ Accepted(p)
  /\ post' = [post EXCEPT ![p] = "accepted"]
  /\ UNCHANGED <<formVars, pool, event, rowLock, pc, sub, expired, code, failures>>

BusRefuses(p) ==
  /\ pc[p] = "posting" /\ post[p] = "sent"
  /\ post' = [post EXCEPT ![p] = "refused"]
  /\ UNCHANGED <<formVars, pool, event, rowLock, pc, sub, expired, code,
                 accepted, seen, failures>>

(* The acknowledgement arrives while the transaction is still open.        *)
Acknowledged(p) ==
  /\ pc[p] = "posting" /\ post[p] = "accepted" /\ ~expired[p]
  /\ pc' = [pc EXCEPT ![p] = "recording"]
  /\ UNCHANGED <<formVars, pool, event, rowLock, sub, post, expired, code,
                 accepted, seen, failures>>

(* It arrives too late: the update runs on a closed transaction and fails. *)
AcknowledgedLate(p) ==
  /\ pc[p] = "posting" /\ post[p] = "accepted" /\ expired[p]
  /\ Answer(p, 500)
  /\ UNCHANGED <<event, accepted, seen, failures>>

(* An attempt ends, or loses its transaction, without a record although    *)
(* the bus may have accepted it; an expired one has been counted already.  *)
CountFailure(p) ==
  LET id == sub[p].id
      uncertain == \/ pc[p] = "recording"
                   \/ pc[p] = "posting" /\ post[p] # "refused" /\ ~expired[p]
  IN /\ uncertain => failures[id] < MaxFailures
     /\ failures' = IF uncertain THEN [failures EXCEPT ![id] = @ + 1] ELSE failures

(* A call abandoned while it is under way may be accepted all the same;    *)
(* when that happens makes no difference to what the topic holds.          *)
MaybeAccepted(p) ==
  \/ UNCHANGED <<accepted, seen>>
  \/ post[p] = "sent" /\ Accepted(p)

(* postEvent throws: refusal, network error or lost acknowledgement.       *)
PostFails(p) ==
  /\ pc[p] = "posting"
  /\ CountFailure(p)
  /\ MaybeAccepted(p)
  /\ Answer(p, 503)
  /\ UNCHANGED event

(* Faulty: the delivery is recorded without waiting for the bus.           *)
UnderWay(p) == pc[p] \in {"posting", "recording"}

(* Faulty: the update goes through this.db and needs another connection.   *)
ConfirmedWithSpare(p) == pc[p] = "recording" /\ Free

Confirmed(p) == pc[p] = "recording"

(* The update of publishedAt commits.                                      *)
Record(p) ==
  /\ Confirmed(p)
  /\ event' = [event EXCEPT ![sub[p].id] = "published"]
  /\ Answer(p, 200)
  /\ UNCHANGED <<accepted, seen, failures>>

RecordFails(p) ==
  /\ pc[p] = "recording"
  /\ CountFailure(p)
  /\ Answer(p, 500)
  /\ UNCHANGED <<event, accepted, seen>>

(* The 15 s of the delivery transaction end while it waits for the row ... *)
WaitTimesOut(p) ==
  /\ pc[p] = "connected"
  /\ Answer(p, 500)
  /\ UNCHANGED <<event, accepted, seen, failures>>

(* ... or during the call to the bus: the row is unlocked, the call is     *)
(* not cancelled.                                                          *)
TransactionExpires(p) ==
  /\ pc[p] = "posting" /\ ~expired[p]
  /\ CountFailure(p)
  /\ expired' = [expired EXCEPT ![p] = TRUE]
  /\ Unlock(p)
  /\ UNCHANGED <<formVars, pool, event, pc, sub, post, code, accepted, seen>>

(* The replica dies after the first commit; its transaction is rolled back *)
(* and the client never gets a response.                                   *)
Crash(p) ==
  /\ pc[p] \in {"saved", "connected", "posting", "recording"}
  /\ CountFailure(p)
  /\ MaybeAccepted(p)
  /\ Unlock(p)
  /\ pc' = [pc EXCEPT ![p] = "idle"]
  /\ sub' = [sub EXCEPT ![p] = NoSubmission]
  /\ post' = [post EXCEPT ![p] = "none"]
  /\ expired' = [expired EXCEPT ![p] = FALSE]
  /\ UNCHANGED <<formVars, pool, event, code>>

(* The response arrives or is lost.                                        *)
Close(p) ==
  /\ pc[p] = "answered"
  /\ pc' = [pc EXCEPT ![p] = "idle"]
  /\ sub' = [sub EXCEPT ![p] = NoSubmission]
  /\ code' = [code EXCEPT ![p] = 0]
  /\ UNCHANGED <<formVars, pool, event, rowLock, post, expired, accepted, seen,
                 failures>>

(* External: retention deletes a submission; the cascade to its event row  *)
(* waits for a delivery that holds the row.                                *)
DeleteCascade(s) ==
  /\ Delete(s)
  /\ rowLock[s.id] = Nobody
  /\ event' = [event EXCEPT ![s.id] = "none"]
  /\ UNCHANGED <<pool, rowLock, pc, sub, post, expired, code, accepted, seen,
                 failures>>

Lifecycle ==
  /\ \/ CreateForm
     \/ \E v \in Versions, d \in Definitions : PutVersion(v, d)
     \/ \E v \in Versions : Publish(v)
     \/ \E v \in Versions : Retire(v)
  /\ UNCHANGED deliveryVars

Deliver(p) ==
  \/ Connect(p) \/ ReceiptMissing(p) \/ AlreadyPublished(p) \/ Send(p)
  \/ Acknowledged(p) \/ AcknowledgedLate(p) \/ Record(p)

Trouble(p) ==
  PoolExhausted(p) \/ PostFails(p) \/ RecordFails(p) \/ WaitTimesOut(p)
    \/ TransactionExpires(p) \/ Crash(p)

DeliveryNext ==
  \/ Lifecycle
  \/ \E p \in Requests, id \in Ids, v \in Versions, k \in Keys, b \in Bodies :
        SubmitNew(p, id, v, k, b)
  \/ \E p \in Requests, v \in Versions, k \in Keys, b \in Bodies :
        SubmitAgain(p, v, k, b)
  \/ \E p \in Requests : \/ Deliver(p) \/ Trouble(p)
                         \/ BusAccepts(p) \/ BusRefuses(p) \/ Close(p)
  \/ \E s \in submissions : DeleteCascade(s)

DeliverySpec == DeliveryInit /\ [][DeliveryNext]_vars

(* The service runs its own steps, every call it makes comes back, and it  *)
(* is not killed at the same point for ever.                               *)
ServiceFairness ==
  \A p \in Requests :
    /\ SF_vars(Connect(p))
    /\ WF_vars(Connect(p) \/ PoolExhausted(p))
    /\ WF_vars(ReceiptMissing(p) \/ AlreadyPublished(p))
    /\ SF_vars(Send(p))
    /\ WF_vars(BusAccepts(p) \/ BusRefuses(p))
    /\ WF_vars(post[p] = "refused" /\ PostFails(p))
    /\ SF_vars(Acknowledged(p))
    /\ WF_vars(AcknowledgedLate(p))
    /\ SF_vars(Record(p))
    /\ WF_vars(Close(p))

(* Assumed of the outside world: a client repeats its submission until it  *)
(* is answered 200 (there is no background worker), and the Bus API does   *)
(* not refuse for ever.                                                    *)
ClientRetries ==
  \A id \in Ids :
    SF_vars(\E s \in submissions, p \in Requests :
              s.id = id /\ SubmitAgain(p, s.version, s.key, s.body))

BusRecovers == \A p \in Requests : SF_vars(BusAccepts(p))

FairDeliverySpec ==
  DeliverySpec /\ ServiceFairness /\ ClientRetries /\ BusRecovers

-----------------------------------------------------------------------------
(* docs/api.md line 103: an event is sent only for a submission that has   *)
(* committed and asked for it, and every copy of it, also one sent by a    *)
(* retry, carries the content that was saved.                              *)
OnlySavedContentIsSent ==
  \A c \in seen :
    /\ c[1] \in issued
    /\ c[2] \in WantsEvent
    /\ \A s \in submissions : s.id = c[1] => s.body = c[2]
    /\ \A d \in seen : d[1] = c[1] => d = c

(* publishedAt and a 200 response both mean that the bus has the event.    *)
RecordedMeansAccepted ==
  /\ \A id \in Ids : event[id] = "published" => accepted[id] > 0
  /\ \A p \in Requests :
       pc[p] = "answered" /\ code[p] = 200 /\ sub[p].body \in WantsEvent =>
         accepted[sub[p].id] > 0

(* docs/api.md line 105: the bus gets a second copy only when an attempt   *)
(* was lost between acceptance and record; n lost attempts cause at most n *)
(* extra copies, whatever the number of retries and however they overlap.  *)
DuplicatesNeedFailure == \A id \in Ids : accepted[id] <= 1 + failures[id]

(* docs/data-model.md line 55: "Delivery retries lock this row to prevent  *)
(* concurrent duplicate sends."                                            *)
Sending(p) == pc[p] = "posting" /\ post[p] = "sent"
NoConcurrentSends ==
  \A p, q \in Requests :
    p # q /\ Sending(p) /\ Sending(q) => sub[p].id # sub[q].id

(* No call hangs: whatever fails, and however many deliveries have taken   *)
(* the connections, a saved submission's call is answered or dies with its *)
(* replica: no transaction waits for a connection while it holds one.      *)
CallsEnd == \A p \in Requests : pc[p] = "saved" ~> pc[p] = "idle"

(* docs/api.md line 105: retrying the identical request resumes delivery,  *)
(* also after retirement: as long as the client retries, every opted-in    *)
(* submission that is retained is eventually recorded as delivered.        *)
EventuallyDelivered ==
  \A id \in Ids : event[id] = "pending" ~> event[id] # "pending"
=============================================================================
