--------------------------- MODULE ReleaseProofs ---------------------------
(* Theorems about Release, for any number of runs of the deploy job, any   *)
(* commits in any order and any capacity of the service.                   *)
EXTENDS Release, TLAPS

LEMMA RunsAreRevisions == Releases \subseteq Revisions /\ 0 \in Revisions
  BY BoundsAssumption DEF Releases, Revisions

LEMMA Capacities ==
  /\ 0 \in 0 .. MaxDesired
  /\ \A n \in 0 .. MaxDesired : AtLeastOne(n) \in 0 .. MaxDesired
  BY BoundsAssumption DEF AtLeastOne

(* update-service keeps the record of the service well-typed.              *)
LEMMA UpdateKeepsService ==
  ASSUME service \in Service, NEW revision \in Revisions,
         NEW n \in 0 .. MaxDesired, UpdateService(revision, n)
  PROVE  /\ service' \in Service
         /\ service'.target = revision /\ service'.served = service.served
  BY DEF Service, UpdateService

(* Every step keeps the types; runs, service and stack one after another.  *)
LEMMA TypeStep == TypeOK /\ [Next]_vars => TypeOK'
<1> SUFFICES ASSUME TypeOK, [Next]_vars PROVE TypeOK'
  OBVIOUS
<1> USE DEF TypeOK
<1>1. ASSUME NEW r \in Releases, Begin(r) \/ Refuse(r) PROVE TypeOK'
  <2>1. CASE Begin(r)
    <3>1. [target |-> service.target, desired |-> service.desired]
             \in [target : Revisions, desired : 0 .. MaxDesired]
      BY DEF Service
    <3>2. QED
      BY <2>1, <3>1 DEF Begin, Goto, Stages, Active, awsVars
  <2>2. CASE Refuse(r)
    BY <2>2 DEF Refuse, Goto, Stages, Active, awsVars
  <2>3. QED
    BY <1>1, <2>1, <2>2
<1>2. ASSUME NEW r \in Releases, Proceed(r) PROVE TypeOK'
  <2>1. CASE PublishImages(r)
    BY <2>1 DEF PublishImages, Goto, Stages, Active, awsVars
  <2>2. CASE CheckBeforeMigration(r) \/ CheckAfterMigration(r)
                \/ CheckBeforeActivation(r)
    BY <2>2 DEF CheckBeforeMigration, CheckAfterMigration,
                CheckBeforeActivation, Check, Goto, Stages, Active
  <2>3. CASE RunMigration(r) \/ SeeMigration(r)
    BY <2>3 DEF RunMigration, SeeMigration, Goto, Stages, Active, awsVars
  <2>4. CASE RegisterRuntime(r)
    BY <2>4, RunsAreRevisions DEF RegisterRuntime, Goto, Stages, Active
  <2>5. CASE Activate(r)
    <3>1. previous[r].desired \in 0 .. MaxDesired
      OBVIOUS
    <3>2. service' \in Service
      BY <2>5, <3>1, RunsAreRevisions, Capacities, UpdateKeepsService DEF Activate
    <3>3. QED
      BY <2>5, <3>2 DEF Activate, Goto, Stages, Active
  <2>6. CASE SeeHealthy(r) \/ TimeOut(r)
    BY <2>6 DEF SeeHealthy, TimeOut, GivesUp, Goto, Stages, Active, awsVars
  <2>7. QED
    BY <1>2, <2>1, <2>2, <2>3, <2>4, <2>5, <2>6 DEF Proceed
<1>3. ASSUME NEW r \in Releases, Stop(r) PROVE TypeOK'
  BY <1>3 DEF Stop, GivesUp, Goto, Stages, awsVars
<1>4. ASSUME NEW r \in Releases,
             ApplyMigration(r) \/ MigrationSucceeds(r) \/ MigrationFails(r)
      PROVE TypeOK'
  BY <1>4 DEF ApplyMigration, MigrationSucceeds, MigrationFails, awsVars
<1>5. CASE RolloutCompletes \/ RollBack \/ TasksSettle
  BY <1>5 DEF RolloutCompletes, RollBack, TasksSettle, Service
<1>6. CASE StackBegins \/ StackEnds
  BY <1>6, BoundsAssumption DEF StackBegins, StackEnds
<1>7. ASSUME NEW revision \in Revisions, NEW n \in 0 .. MaxDesired,
             StackApplies(revision, n)
      PROVE TypeOK'
  <2>1. service' \in Service
    BY <1>7, UpdateKeepsService DEF StackApplies
  <2>2. QED
    BY <1>7, <2>1 DEF StackApplies
<1>8. CASE UNCHANGED vars
  BY <1>8 DEF vars
<1>9. QED
  BY <1>1, <1>2, <1>3, <1>4, <1>5, <1>6, <1>7, <1>8 DEF Next, External

LEMMA TypeInitially == Init => TypeOK
<1> SUFFICES ASSUME Init PROVE TypeOK
  OBVIOUS
<1>1. service \in Service
  <2>1. PICK n \in 0 .. MaxDesired :
          service = [target |-> 0, desired |-> n, rollout |-> "COMPLETED",
                     failed |-> FALSE, served |-> 0, settled |-> TRUE]
    BY DEF Init
  <2>2. QED
    BY <2>1, RunsAreRevisions DEF Service
<1>2. [target |-> 0, desired |-> 0]
         \in [target : Revisions, desired : 0 .. MaxDesired]
  BY RunsAreRevisions, Capacities
<1>3. previous \in [Releases -> [target : Revisions, desired : 0 .. MaxDesired]]
  BY <1>2 DEF Init
<1>4. pc \in [Releases -> Stages]
      /\ task \in [Releases -> {"none", "running", "succeeded", "stopped"}]
  BY DEF Init, Stages
<1>5. registered \subseteq Revisions /\ schema \in Nat /\ changes \in 0 .. MaxChanges
  BY RunsAreRevisions, BoundsAssumption DEF Init
<1>6. QED
  BY <1>1, <1>3, <1>4, <1>5 DEF Init, TypeOK

(* Runs, migrations, database and service stay well-typed.                 *)
THEOREM TypeCorrect == Spec => []TypeOK
  BY TypeInitially, TypeStep, PTL DEF Spec
-----------------------------------------------------------------------------
(* A revision finds the database migrated.                                 *)
Ready(revision) == Commit[revision] <= schema

(* Why no runtime is without its schema: a migration that succeeded has    *)
(* applied what its commit contains, a run comes to the registration only  *)
(* after its own migration succeeded, and nothing but registered revisions *)
(* ever reaches the service.                                               *)
SchemaInv ==
  /\ TypeOK
  /\ \A r \in Releases : task[r] = "succeeded" => Ready(r)
  /\ \A r \in Releases :
       pc[r] \in {"migrated", "rechecked", "saved", "activating"} =>
         task[r] = "succeeded"
  /\ \A r \in Releases : pc[r] \in {"saved", "activating"} => r \in registered
  /\ service.target \in registered /\ service.served \in registered
  /\ \A revision \in registered : Ready(revision)

LEMMA SchemaInductive == SchemaInv /\ [Next]_vars => SchemaInv'
<1> SUFFICES ASSUME SchemaInv, [Next]_vars PROVE SchemaInv'
  OBVIOUS
<1>0. TypeOK /\ TypeOK'
  BY TypeStep DEF SchemaInv
<1>1. \A revision \in Revisions : Commit[revision] \in Nat
  BY CommitAssumption
<1> USE DEF SchemaInv
<1>2. ASSUME NEW r \in Releases,
             \/ Begin(r) \/ Refuse(r) \/ PublishImages(r)
             \/ SeeHealthy(r) \/ TimeOut(r) \/ Stop(r)
      PROVE SchemaInv'
  BY <1>0, <1>2
  DEF Begin, Refuse, PublishImages, SeeHealthy, TimeOut, Stop, GivesUp, Goto,
      TypeOK, awsVars, Ready
<1>3. ASSUME NEW r \in Releases,
             CheckBeforeMigration(r) \/ CheckAfterMigration(r)
               \/ CheckBeforeActivation(r)
      PROVE SchemaInv'
  BY <1>0, <1>3
  DEF CheckBeforeMigration, CheckAfterMigration, CheckBeforeActivation, Check,
      Goto, TypeOK, Ready
<1>4. ASSUME NEW r \in Releases, RunMigration(r) PROVE SchemaInv'
  BY <1>0, <1>4 DEF RunMigration, Goto, TypeOK, awsVars, Ready
<1>5. ASSUME NEW r \in Releases, SeeMigration(r) PROVE SchemaInv'
  BY <1>0, <1>5 DEF SeeMigration, Migrated, Goto, TypeOK, awsVars, Ready
<1>6. ASSUME NEW r \in Releases, RegisterRuntime(r) PROVE SchemaInv'
  BY <1>0, <1>6 DEF RegisterRuntime, Goto, TypeOK, Ready
<1>7. ASSUME NEW r \in Releases, Activate(r) PROVE SchemaInv'
  <2>1. r \in registered
    BY <1>7 DEF Activate
  <2>2. service'.target = r /\ service'.served = service.served
    <3>1. previous[r].desired \in 0 .. MaxDesired
      BY <1>0 DEF TypeOK
    <3>2. QED
      BY <1>0, <1>7, <3>1, RunsAreRevisions, Capacities, UpdateKeepsService
      DEF Activate, TypeOK
  <2>3. QED
    BY <1>0, <1>7, <2>1, <2>2 DEF Activate, Goto, TypeOK, Ready
<1>8. ASSUME NEW r \in Releases, ApplyMigration(r) PROVE SchemaInv'
  <2>1. schema' = schema + 1 /\ schema \in Nat /\ registered \subseteq Revisions
    BY <1>0, <1>8 DEF ApplyMigration, TypeOK
  <2>2. \A revision \in Revisions : Ready(revision) => Ready(revision)'
    BY <1>1, <2>1 DEF Ready
  <2>3. QED
    BY <1>0, <1>8, <2>1, <2>2, RunsAreRevisions DEF ApplyMigration
<1>9. ASSUME NEW r \in Releases, MigrationSucceeds(r) \/ MigrationFails(r)
      PROVE SchemaInv'
  BY <1>0, <1>1, <1>9, RunsAreRevisions
  DEF MigrationSucceeds, MigrationFails, TypeOK, awsVars, Ready
<1>10. CASE RolloutCompletes \/ RollBack \/ TasksSettle
  <2>1. service'.target \in registered /\ service'.served \in registered
    BY <1>0, <1>10 DEF RolloutCompletes, RollBack, TasksSettle, TypeOK, Service
  <2>2. QED
    BY <1>0, <1>10, <2>1 DEF RolloutCompletes, RollBack, TasksSettle, Ready
<1>11. CASE StackBegins \/ StackEnds
  BY <1>0, <1>11 DEF StackBegins, StackEnds, Ready
<1>12. ASSUME NEW revision \in Revisions, NEW n \in 0 .. MaxDesired,
              StackApplies(revision, n)
       PROVE SchemaInv'
  <2>1. service'.target = revision /\ service'.served = service.served
    BY <1>0, <1>12, UpdateKeepsService DEF StackApplies, TypeOK
  <2>2. QED
    BY <1>0, <1>12, <2>1 DEF StackApplies, Ready
<1>13. CASE UNCHANGED vars
  BY <1>0, <1>13 DEF vars, Ready
<1>14. QED
  BY <1>2, <1>3, <1>4, <1>5, <1>6, <1>7, <1>8, <1>9, <1>10, <1>11, <1>12, <1>13
  DEF Next, External, Proceed

(* Whatever fails, times out, rolls back or is deployed in what order: no  *)
(* revision that runs, rolls out or could be rolled out is ahead of the    *)
(* database.                                                               *)
THEOREM RuntimesHaveTheirSchema == Spec => []RuntimeHasItsSchema
<1>1. Init => SchemaInv
  <2> SUFFICES ASSUME Init PROVE SchemaInv
    OBVIOUS
  <2>1. TypeOK
    BY TypeInitially
  <2>2. service.target = 0 /\ service.served = 0
    BY DEF Init
  <2>3. QED
    BY <2>1, <2>2, CommitAssumption DEF Init, SchemaInv, Ready
<1>2. SchemaInv => RuntimeHasItsSchema
  BY DEF SchemaInv, RuntimeHasItsSchema, Ready
<1>3. QED
  BY <1>1, <1>2, SchemaInductive, PTL DEF Spec
-----------------------------------------------------------------------------
(* What makes the last look count: the serial group leaves one run active, *)
(* so whatever moves the service after it is seen as a disturbance.        *)
LookInv ==
  /\ TypeOK
  /\ \A q, r \in Releases : pc[q] \in Active /\ pc[r] \in Active => q = r
  /\ \A r \in Releases :
       pc[r] = "activating" => InitialStable(previous[r].target) \/ disturbed

LEMMA LookInductive == LookInv /\ [Next]_vars => LookInv'
<1> SUFFICES ASSUME LookInv, [Next]_vars PROVE LookInv'
  OBVIOUS
<1>0. TypeOK /\ TypeOK'
  BY TypeStep DEF LookInv
<1> USE DEF LookInv
<1>1. ASSUME NEW r \in Releases, Begin(r) PROVE LookInv'
  BY <1>0, <1>1 DEF Begin, Goto, TypeOK, Active, awsVars, InitialStable
<1>2. ASSUME NEW r \in Releases,
             \/ Refuse(r) \/ PublishImages(r) \/ RunMigration(r)
             \/ SeeMigration(r) \/ SeeHealthy(r) \/ TimeOut(r) \/ Stop(r)
      PROVE LookInv'
  BY <1>0, <1>2
  DEF Refuse, PublishImages, RunMigration, SeeMigration, SeeHealthy, TimeOut,
      Stop, GivesUp, Waits, Goto, TypeOK, Active, awsVars, InitialStable
<1>3. ASSUME NEW r \in Releases,
             CheckBeforeMigration(r) \/ CheckAfterMigration(r)
               \/ CheckBeforeActivation(r)
      PROVE LookInv'
  BY <1>0, <1>3
  DEF CheckBeforeMigration, CheckAfterMigration, CheckBeforeActivation, Check,
      Goto, TypeOK, Active, InitialStable
<1>4. ASSUME NEW r \in Releases, RegisterRuntime(r) PROVE LookInv'
  BY <1>0, <1>4 DEF RegisterRuntime, Goto, TypeOK, Active, InitialStable
<1>5. ASSUME NEW r \in Releases, Activate(r) PROVE LookInv'
  BY <1>0, <1>5 DEF Activate, Goto, TypeOK, Active
<1>6. ASSUME NEW r \in Releases,
             ApplyMigration(r) \/ MigrationSucceeds(r) \/ MigrationFails(r)
      PROVE LookInv'
  BY <1>0, <1>6
  DEF ApplyMigration, MigrationSucceeds, MigrationFails, awsVars, InitialStable
<1>7. CASE RolloutCompletes \/ RollBack \/ TasksSettle
  BY <1>0, <1>7 DEF RolloutCompletes, RollBack, TasksSettle
<1>8. CASE StackBegins \/ StackEnds
  BY <1>0, <1>8 DEF StackBegins, StackEnds, InitialStable
<1>9. ASSUME NEW revision \in Revisions, NEW n \in 0 .. MaxDesired,
             StackApplies(revision, n)
      PROVE LookInv'
  BY <1>0, <1>9 DEF StackApplies
<1>10. CASE UNCHANGED vars
  BY <1>0, <1>10 DEF vars, InitialStable
<1>11. QED
  BY <1>1, <1>2, <1>3, <1>4, <1>5, <1>6, <1>7, <1>8, <1>9, <1>10
  DEF Next, External, Proceed

(* A run replaces nothing but the finished deployment it began with,       *)
(* unless the service moved after the very last look at it.                *)
THEOREM OverwritesAreSeen == Spec => NoBlindOverwrite
<1>1. Init => LookInv
  BY TypeInitially DEF Init, LookInv, Active
<1>2. LookInv /\ [Next]_vars =>
        [\A r \in Releases :
           Activate(r) => InitialStable(previous[r].target) \/ disturbed]_vars
  BY DEF LookInv, Activate
<1>3. QED
  BY <1>1, <1>2, LookInductive, PTL DEF Spec, NoBlindOverwrite
=============================================================================
