------------------------------ MODULE Release ------------------------------
(***************************************************************************)
(* deploy/release.py: the runs of the CircleCI deploy job of one           *)
(* environment, each of which publishes two images, runs the migration     *)
(* image once, and promotes the runtime image to the ECS service, while    *)
(* an administrator updates the CloudFormation stack that owns the same    *)
(* service.  ECS, CloudFormation and the migration task are external: the  *)
(* model has what release.py sees of them and what it can do to them.      *)
(* The task definition that run r registers is revision r; revision 0 is   *)
(* the one of the stack itself.                                            *)
(***************************************************************************)
EXTENDS Integers

CONSTANTS
  MaxRelease,   \* bound on the number of runs
  MaxDesired,   \* bound on the replicas the stack asks for
  MaxChanges,   \* bound on the updates of the stack
  Commit        \* the last migration the images of a run contain

Releases == 1 .. MaxRelease
Revisions == 0 .. MaxRelease

ASSUME BoundsAssumption ==
  MaxRelease \in Nat /\ MaxDesired \in Nat \ {0} /\ MaxChanges \in Nat
ASSUME CommitAssumption ==
  Commit \in [Revisions -> Nat] /\ Commit[0] = 0

VARIABLES
  pc,          \* where each run is
  previous,    \* what each run read of the service when it began
  task,        \* the migration task of each run
  schema,      \* the last migration applied to the database
  registered,  \* the runtime revisions ECS knows
  service,     \* the ECS service
  stack,       \* is an update of the stack under way?
  changes,     \* how many updates the stack has had
  disturbed    \* has the service changed since a run last looked at it?

vars == <<pc, previous, task, schema, registered, service, stack, changes,
          disturbed>>
awsVars == <<schema, registered, service, stack, changes, disturbed>>

Active == {"begun", "published", "cleared", "waiting", "migrated", "rechecked",
           "saved", "activating", "observing"}
Stages == {"queued", "done", "failed"} \cup Active

(* target: the task definition of the service.  rollout: the state of its  *)
(* newest deployment, the only one listed when it is COMPLETED.  failed:   *)
(* is a deployment that failed listed beside it?  served: the revision of  *)
(* the tasks of the last completed deployment.  settled: do the counts of  *)
(* running and pending tasks agree with the desired count?                 *)
Service == [target : Revisions, desired : 0 .. MaxDesired,
            rollout : {"IN_PROGRESS", "COMPLETED"}, failed : BOOLEAN,
            served : Revisions, settled : BOOLEAN]

TypeOK ==
  /\ pc \in [Releases -> Stages]
  /\ previous \in [Releases -> [target : Revisions, desired : 0 .. MaxDesired]]
  /\ task \in [Releases -> {"none", "running", "succeeded", "stopped"}]
  /\ schema \in Nat
  /\ registered \subseteq Revisions
  /\ service \in Service
  /\ stack \in {"STABLE", "UPDATING", "APPLIED"}
  /\ changes \in 0 .. MaxChanges
  /\ disturbed \in BOOLEAN

(* A bootstrapped environment: the service exists, with any capacity.      *)
Init ==
  /\ pc = [r \in Releases |-> "queued"]
  /\ previous = [r \in Releases |-> [target |-> 0, desired |-> 0]]
  /\ task = [r \in Releases |-> "none"]
  /\ schema = 0
  /\ registered = {0}
  /\ \E n \in 0 .. MaxDesired :
       service = [target |-> 0, desired |-> n, rollout |-> "COMPLETED",
                  failed |-> FALSE, served |-> 0, settled |-> TRUE]
  /\ stack = "STABLE"
  /\ changes = 0
  /\ disturbed = FALSE

-----------------------------------------------------------------------------
(* initial_stable: still the expected definition, nothing failed, one      *)
(* completed deployment with the tasks it wants.                           *)
InitialStable(revision) ==
  /\ service.target = revision
  /\ ~service.failed
  /\ service.rollout = "COMPLETED"
  /\ service.settled

Goto(r, stage) == pc' = [pc EXCEPT ![r] = stage]

(* The serial group admits one run at a time; stack_settings, read_service *)
(* and the first initial_stable.                                           *)
Begin(r) ==
  /\ pc[r] = "queued"
  /\ \A q \in Releases : pc[q] \notin Active
  /\ stack = "STABLE"
  /\ InitialStable(service.target)
  /\ previous' = [previous EXCEPT ![r] =
       [target |-> service.target, desired |-> service.desired]]
  /\ Goto(r, "begun")
  /\ UNCHANGED <<task, awsVars>>

(* ... which refuse the release while the stack or the service is moving.  *)
Refuse(r) ==
  /\ pc[r] = "queued"
  /\ \A q \in Releases : pc[q] \notin Active
  /\ stack # "STABLE" \/ ~InitialStable(service.target)
  /\ Goto(r, "failed")
  /\ UNCHANGED <<previous, task, awsVars>>

(* Both images are uploaded, scanned and verified.                         *)
PublishImages(r) ==
  /\ pc[r] = "begun"
  /\ Goto(r, "published")
  /\ UNCHANGED <<previous, task, awsVars>>

(* One d.require(initial_stable(...)): go on, or raise DeployError.        *)
Check(r, here, next) ==
  /\ pc[r] = here
  /\ Goto(r, IF InitialStable(previous[r].target) THEN next ELSE "failed")
  /\ disturbed' = FALSE
  /\ UNCHANGED <<previous, task, schema, registered, service, stack, changes>>

CheckBeforeMigration(r) == Check(r, "published", "cleared")

(* migrate: its own task definition is registered and run once.            *)
RunMigration(r) ==
  /\ pc[r] = "cleared"
  /\ task' = [task EXCEPT ![r] = "running"]
  /\ Goto(r, "waiting")
  /\ UNCHANGED <<previous, awsVars>>

(* Faulty: a task that has stopped counts as a migration that was applied. *)
AnyExit(r) == task[r] \in {"succeeded", "stopped"}

(* The task stopped with exit code 0, having run the published image.      *)
Migrated(r) == task[r] = "succeeded"

(* wait_until sees the task STOPPED.                                       *)
SeeMigration(r) ==
  /\ pc[r] = "waiting"
  /\ task[r] # "running"
  /\ Goto(r, IF Migrated(r) THEN "migrated" ELSE "failed")
  /\ UNCHANGED <<previous, task, awsVars>>

CheckAfterMigration(r) == Check(r, "migrated", "rechecked")

(* promote registers the runtime definition and reads it back.             *)
RegisterRuntime(r) ==
  /\ pc[r] = "rechecked"
  /\ registered' = registered \cup {r}
  /\ Goto(r, "saved")
  /\ UNCHANGED <<previous, task, schema, service, stack, changes, disturbed>>

(* Faulty: the look before the registration is trusted once more.          *)
TrustEarlierCheck(r) ==
  /\ pc[r] = "saved"
  /\ Goto(r, "activating")
  /\ disturbed' = FALSE
  /\ UNCHANGED <<previous, task, schema, registered, service, stack, changes>>

CheckBeforeActivation(r) == Check(r, "saved", "activating")

(* External: update-service.  A new task definition starts a deployment, a *)
(* new desired count only starts or stops tasks.                           *)
UpdateService(revision, count) ==
  service' = [service EXCEPT
    !.target = revision,
    !.desired = count,
    !.rollout = IF revision = service.target THEN service.rollout ELSE "IN_PROGRESS",
    !.settled = service.settled /\ revision = service.target /\ count = service.desired]

(* Faulty: the desired count is raised by the task the deployment adds.    *)
OneMore(n) == n + 1

AtLeastOne(n) == IF n = 0 THEN 1 ELSE n

Activate(r) ==
  /\ pc[r] = "activating"
  /\ UpdateService(r, AtLeastOne(previous[r].desired))
  /\ Goto(r, "observing")
  /\ UNCHANGED <<previous, task, schema, registered, stack, changes, disturbed>>

(* healthy: d.stable and d.verify_running agree.                           *)
SeeHealthy(r) ==
  /\ pc[r] = "observing"
  /\ InitialStable(r)
  /\ service.desired > 0
  /\ Goto(r, "done")
  /\ UNCHANGED <<previous, task, awsVars>>

(* Faulty: the waiting for the migration has no deadline.                  *)
OnlyRuntimeWaits(r) == pc[r] = "observing"

Waits(r) == pc[r] \in {"waiting", "observing"}

GivesUp(r) == Goto(r, "failed") /\ UNCHANGED <<previous, task, awsVars>>

(* The deadline of wait_until; what was started in AWS goes on.            *)
TimeOut(r) == Waits(r) /\ GivesUp(r)

(* An AWS error, a finding of the image scan, a job that is killed.        *)
Stop(r) == pc[r] \in Active /\ GivesUp(r)

-----------------------------------------------------------------------------
(* External: prisma migrate deploy, which applies migrations in order and  *)
(* exits with 0 only when none of its own is missing; the image may be     *)
(* older than the database.                                                *)
ApplyMigration(r) ==
  /\ task[r] = "running" /\ schema < Commit[r]
  /\ schema' = schema + 1
  /\ UNCHANGED <<pc, previous, task, registered, service, stack, changes,
                 disturbed>>

MigrationSucceeds(r) ==
  /\ task[r] = "running" /\ schema >= Commit[r]
  /\ task' = [task EXCEPT ![r] = "succeeded"]
  /\ UNCHANGED <<pc, previous, awsVars>>

MigrationFails(r) ==
  /\ task[r] = "running"
  /\ task' = [task EXCEPT ![r] = "stopped"]
  /\ UNCHANGED <<pc, previous, awsVars>>

(* External: the newest deployment replaces the tasks of the one before.   *)
RolloutCompletes ==
  /\ service.rollout = "IN_PROGRESS"
  /\ service' = [service EXCEPT !.rollout = "COMPLETED", !.failed = FALSE,
                                !.served = service.target, !.settled = TRUE]
  /\ disturbed' = TRUE
  /\ UNCHANGED <<pc, previous, task, schema, registered, stack, changes>>

(* The circuit breaker fails it and goes back to the last completed one.   *)
RollBack ==
  /\ service.rollout = "IN_PROGRESS" /\ service.target # service.served
  /\ service.desired > 0
  /\ service' = [service EXCEPT !.target = service.served, !.failed = TRUE]
  /\ disturbed' = TRUE
  /\ UNCHANGED <<pc, previous, task, schema, registered, stack, changes>>

(* Tasks start or stop until the desired count is reached.                 *)
TasksSettle ==
  /\ service.rollout = "COMPLETED" /\ ~service.settled
  /\ service' = [service EXCEPT !.settled = TRUE]
  /\ disturbed' = TRUE
  /\ UNCHANGED <<pc, previous, task, schema, registered, stack, changes>>

(* External: an administrator updates the stack: the definition stays, or  *)
(* becomes another one that is registered, and the desired count changes.  *)
StackBegins ==
  /\ stack = "STABLE" /\ changes < MaxChanges
  /\ stack' = "UPDATING"
  /\ changes' = changes + 1
  /\ UNCHANGED <<pc, previous, task, schema, registered, service, disturbed>>

StackApplies(revision, count) ==
  /\ stack = "UPDATING"
  /\ revision \in registered
  /\ <<revision, count>> # <<service.target, service.desired>>
  /\ UpdateService(revision, count)
  /\ stack' = "APPLIED"
  /\ disturbed' = TRUE
  /\ UNCHANGED <<pc, previous, task, schema, registered, changes>>

StackEnds ==
  /\ stack = "APPLIED"
  /\ service.rollout = "COMPLETED" /\ service.settled
  /\ stack' = "STABLE"
  /\ UNCHANGED <<pc, previous, task, schema, registered, service, changes,
                 disturbed>>

Proceed(r) ==
  \/ PublishImages(r) \/ CheckBeforeMigration(r) \/ RunMigration(r)
  \/ SeeMigration(r) \/ CheckAfterMigration(r) \/ RegisterRuntime(r)
  \/ CheckBeforeActivation(r) \/ Activate(r) \/ SeeHealthy(r) \/ TimeOut(r)

External ==
  \/ \E r \in Releases :
       ApplyMigration(r) \/ MigrationSucceeds(r) \/ MigrationFails(r)
  \/ RolloutCompletes \/ RollBack \/ TasksSettle
  \/ StackBegins \/ StackEnds
  \/ \E revision \in Revisions, n \in 0 .. MaxDesired : StackApplies(revision, n)

Next ==
  \/ External
  \/ \E r \in Releases : Begin(r) \/ Refuse(r) \/ Proceed(r) \/ Stop(r)

Spec == Init /\ [][Next]_vars

(* A run that has begun goes on, and wait_until polls to its deadline.     *)
FairSpec == Spec /\ \A r \in Releases : WF_vars(Proceed(r))

-----------------------------------------------------------------------------
(* deploy/MIGRATION.md line 34: the exact migration must have succeeded    *)
(* "before runtime promotion".  Whatever the service runs, is rolling out  *)
(* or could be given from the registered revisions finds the database      *)
(* migrated for it: also when runs fail half-way, time out beside a        *)
(* migration that goes on, or deploy an older commit.                      *)
RuntimeHasItsSchema ==
  \A revision \in registered \cup {service.target, service.served} :
    Commit[revision] <= schema

(* "Concurrent Forms release before activation" (release.py line 115): a   *)
(* run only replaces the finished deployment it found when it began,       *)
(* unless the service changed after the very last look at it.              *)
NoBlindOverwrite ==
  [][\A r \in Releases :
       Activate(r) => InitialStable(previous[r].target) \/ disturbed]_vars

(* Every run ends and makes room in the serial group: "Migration waiting   *)
(* is bounded to 15 minutes and runtime observation to 20 minutes".        *)
ReleasesEnd ==
  \A r \in Releases : pc[r] \in Active ~> pc[r] \in {"done", "failed"}
=============================================================================
