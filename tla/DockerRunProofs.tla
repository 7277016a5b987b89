--------------------------- MODULE DockerRunProofs ---------------------------
(***************************************************************************)
(* Proofs about DockerRun, for any set of passwords and any number of      *)
(* incidents.                                                              *)
(*                                                                         *)
(* What the two volumes hold relates to how far the script has come: a     *)
(* step is only reached when the ones before it have left the network, the *)
(* volumes, a password and the schema behind.                              *)
(***************************************************************************)
EXTENDS DockerRun, TLAPS

(* What the script has made sure of when it reaches a step.                *)
Prepared ==
  /\ pc \in RunSteps \ {"network"} => net
  /\ pc \in RunSteps \ {"network", "data"} => data # None
  /\ pc \in RunSteps \ {"network", "data", "secrets"} => secret # None
  /\ pc \in {"remove", "start_db", "wait_db", "migrate", "start_api", "start_worker"}
       => secret \in Passwords
  /\ pc \in {"start_api", "start_worker"} => migrated

(* A password is about to be replaced or deleted only if no cluster knows  *)
(* it, or a failed command hid it.                                         *)
Replaceable ==
  /\ pc = "generate" => secret \notin Passwords \/ fooled
  /\ pc = "wipe_secret" => data = None \/ fooled

Initialising == db = "initialising" => data \in Passwords

(* How far a clean-up comes with containers left: to the network by one    *)
(* failure, past it by another one.                                        *)
LeftOver ==
  /\ pc \in {"clean_net", "wipe_net"} /\ Running => faults >= 1
  /\ pc \in {"wipe_data", "wipe_secret"} /\ apps # {} => faults >= 2

IInv == TypeOK /\ Prepared /\ Replaceable /\ Initialising /\ LeftOver
             /\ PasswordFits /\ ServesOnlyMigrated

(* It holds before the script is first started.                            *)
LEMMA InitInv == Init => IInv
<1> SUFFICES ASSUME Init PROVE IInv
  OBVIOUS
<1>1. TypeOK
  <2>1. 0 \in 0 .. MaxFaults  BY DockerAssumption DEF DockerAssumption
  <2> QED BY <2>1, Zenon DEF Init, TypeOK, Running
<1>2. Prepared /\ Replaceable
  BY DEF Init, Prepared, Replaceable, RunSteps
<1>3. Initialising /\ LeftOver /\ PasswordFits /\ ServesOnlyMigrated
  BY DockerAssumption DEF DockerAssumption, Init, Initialising, LeftOver, Running,
     PasswordFits, ServesOnlyMigrated
<1> QED BY <1>1, <1>2, <1>3 DEF IInv

(* The steps that only read, and end or continue the script.               *)
LEMMA ControlStep ==
  ASSUME IInv,
         Begin \/ Interrupt \/ Refused \/ Check \/ WaitDb \/ MigrateFails \/ CheckFails
  PROVE  IInv'
<1> USE DockerAssumption DEF DockerAssumption, IInv, TypeOK, Prepared, Replaceable, Initialising,
        LeftOver, PasswordFits, ServesOnlyMigrated, RunSteps, CleanSteps, Running,
        Step, Fault, volumes, containers, history
<1>1. CASE Begin          BY <1>1 DEF Begin
<1>2. CASE Interrupt      BY <1>2 DEF Interrupt
<1>3. CASE Refused        BY <1>3 DEF Refused
<1>4. CASE Check          BY <1>4 DEF Check
<1>5. CASE WaitDb         BY <1>5 DEF WaitDb
<1>6. CASE MigrateFails   BY <1>6 DEF MigrateFails
<1>7. CASE CheckFails     BY <1>7 DEF CheckFails
<1> QED BY <1>1, <1>2, <1>3, <1>4, <1>5, <1>6, <1>7

(* The steps of tasklane-docker-run.sh that change something.              *)
LEMMA RunStep ==
  ASSUME IInv,
         \/ Network \/ DataVolume \/ SecretVolume \/ Generate \/ GenerateFails
         \/ StartDb \/ Migrate \/ StartApi \/ StartWorker
  PROVE  IInv'
<1> USE DockerAssumption DEF DockerAssumption, IInv, TypeOK, Prepared, Replaceable, Initialising,
        LeftOver, PasswordFits, ServesOnlyMigrated, RunSteps, CleanSteps, Running,
        Step, Fault, volumes, containers, history
<1>1. CASE Network        BY <1>1 DEF Network
<1>2. CASE DataVolume     BY <1>2 DEF DataVolume, Created
<1>3. CASE SecretVolume   BY <1>3 DEF SecretVolume, Created
<1>4. CASE Generate       BY <1>4 DEF Generate
<1>5. CASE GenerateFails  BY <1>5 DEF GenerateFails
<1>6. CASE StartDb        BY <1>6 DEF StartDb
<1>7. CASE Migrate        BY <1>7 DEF Migrate, CanLogIn
<1>8. CASE StartApi       BY <1>8 DEF StartApi
<1>9. CASE StartWorker    BY <1>9 DEF StartWorker
<1> QED BY <1>1, <1>2, <1>3, <1>4, <1>5, <1>6, <1>7, <1>8, <1>9

(* The steps of the database container.                                    *)
LEMMA DatabaseStep ==
  ASSUME IInv, Database \/ DbRestarts
  PROVE  IInv'
<1> USE DockerAssumption DEF DockerAssumption, IInv, TypeOK, Prepared, Replaceable, Initialising,
        LeftOver, PasswordFits, ServesOnlyMigrated, RunSteps, CleanSteps, Running,
        Fault, volumes, containers, history
<1>1. CASE InitDb      BY <1>1 DEF InitDb
<1>2. CASE InitEnds    BY <1>2 DEF InitEnds
<1>3. CASE DbUp        BY <1>3 DEF DbUp
<1>4. CASE DbRestarts  BY <1>4 DEF DbRestarts
<1> QED BY <1>1, <1>2, <1>3, <1>4 DEF Database

(* Removing containers, from whichever script.                             *)
Removes(from, to) == RemoveAll(from, to) \/ RemoveFails(from, to)

(* Removing containers keeps the invariant.                                *)
LEMMA RemoveStep ==
  ASSUME IInv,
         \/ Removes("remove", "start_db")
         \/ Removes("clean", "clean_net") \/ Removes("wipe", "wipe_net")
  PROVE  IInv'
<1>1. /\ <<pc, pc'>> \in {<<"remove", "start_db">>, <<"clean", "clean_net">>,
                          <<"wipe", "wipe_net">>}
      /\ UNCHANGED <<net, secret, data, complete, migrated, fooled>>
      /\ faults' \in 0 .. MaxFaults /\ faults' >= faults
  BY DockerAssumption DEF DockerAssumption, Removes, RemoveAll, RemoveFails, Step, Fault, volumes, history, IInv, TypeOK
<1>2. /\ db' \in {db, "none"} /\ apps' \subseteq apps
      /\ torn' \in BOOLEAN
  BY DEF Removes, RemoveAll, RemoveFails, Gone, IInv, TypeOK
<1>3. Running' => faults' >= 1
  BY DEF Removes, RemoveAll, RemoveFails, Gone, Fault, Running, IInv, TypeOK
<1>4. LeftOver'
  BY <1>1, <1>3 DEF LeftOver
<1>5. apps' # {} => apps # {}
  BY <1>2
<1>6. ServesOnlyMigrated'
  BY <1>1, <1>5 DEF IInv, TypeOK, ServesOnlyMigrated
<1>7. TypeOK'
  BY <1>1, <1>2, <1>5, DockerAssumption
     DEF DockerAssumption, IInv, TypeOK, CleanSteps, RunSteps, Running
<1>8. Prepared' /\ Replaceable' /\ Initialising' /\ PasswordFits'
  BY <1>1, <1>2, DockerAssumption
     DEF DockerAssumption, IInv, TypeOK, Prepared, Replaceable, Initialising, PasswordFits, RunSteps
<1> QED
  BY <1>4, <1>6, <1>7, <1>8 DEF IInv

(* The steps of tasklane-docker-cleanup.sh that come after that.           *)
LEMMA CleanStep ==
  ASSUME IInv,
         \/ CleanNet("clean_net", "idle") \/ CleanNet("wipe_net", "wipe_data")
         \/ WipeData \/ WipeSecret
         \/ SkipFails("clean_net", "idle") \/ SkipFails("wipe_net", "wipe_data")
         \/ SkipFails("wipe_data", "wipe_secret")
  PROVE  IInv'
<1> USE DockerAssumption DEF DockerAssumption, IInv, TypeOK, Prepared, Replaceable, Initialising,
        LeftOver, PasswordFits, ServesOnlyMigrated, RunSteps, CleanSteps, Running,
        InUse, Step, Fault, volumes, containers, history
<1>1. CASE CleanNet("clean_net", "idle")              BY <1>1 DEF CleanNet
<1>2. CASE CleanNet("wipe_net", "wipe_data")          BY <1>2 DEF CleanNet
<1>3. CASE WipeData
  <2>1. db = "none"  BY <1>3 DEF WipeData
  <2>2. apps # {} => faults >= 2  BY <1>3 DEF WipeData
  <2>3. /\ data' = None /\ complete' = FALSE /\ migrated' = FALSE
        /\ fooled' = FALSE /\ torn' = FALSE
        /\ pc' = "wipe_secret" /\ UNCHANGED <<net, secret, db, apps, faults>>
    BY <1>3 DEF WipeData
  <2> QED BY <2>1, <2>2, <2>3
<1>4. CASE WipeSecret                                 BY <1>4 DEF WipeSecret
<1>5. CASE SkipFails("clean_net", "idle")             BY <1>5 DEF SkipFails
<1>6. CASE SkipFails("wipe_net", "wipe_data")         BY <1>6 DEF SkipFails
<1>7. CASE SkipFails("wipe_data", "wipe_secret")
  <2>1. fooled' = TRUE  BY <1>7 DEF SkipFails
  <2>2. /\ pc = "wipe_data" /\ pc' = "wipe_secret"
        /\ faults' \in 0 .. MaxFaults /\ faults' >= faults
    BY <1>7 DEF SkipFails
  <2>3. UNCHANGED <<net, secret, data, complete, migrated, db, apps, torn>>
    BY <1>7 DEF SkipFails
  <2> QED BY <2>1, <2>2, <2>3
<1> QED BY <1>1, <1>2, <1>3, <1>4, <1>5, <1>6, <1>7

(* Every step keeps it.                                                    *)
LEMMA NextInv == IInv /\ [Next]_vars => IInv'
<1> SUFFICES ASSUME IInv, [Next]_vars PROVE IInv'
  OBVIOUS
<1>1. CASE UNCHANGED vars
  BY <1>1 DEF vars, IInv, TypeOK, Prepared, Replaceable, Initialising,
     LeftOver, PasswordFits, ServesOnlyMigrated, Running
<1>2. CASE Next
  BY <1>2, ControlStep, RunStep, DatabaseStep, RemoveStep, CleanStep
     DEF Next, Script, Run, CleanUp, Incident, Removes
<1> QED BY <1>1, <1>2

(* The inductive invariant: each step of the scripts finds what the ones   *)
(* before it have prepared, and a password that is in use is replaced only *)
(* after a failed command hid it.                                          *)
THEOREM Prepares == Spec => []IInv
  BY InitInv, NextInv, PTL DEF Spec

(* Type correctness of the scripts' state: whatever is interrupted or      *)
(* fails, the database container has its volumes, and every container the  *)
(* network and the volume of the password.                                 *)
THEOREM DockerTypeCorrect == Spec => []TypeOK
<1>1. IInv => TypeOK  BY DEF IInv
<1> QED BY <1>1, Prepares, PTL

(* The password in the file is the one the cluster was created with,       *)
(* however often the scripts are interrupted and run again.                *)
THEOREM PasswordFitsHolds == Spec => []PasswordFits
<1>1. IInv => PasswordFits  BY DEF IInv
<1> QED BY <1>1, Prepares, PTL

(* However often the scripts are run and wherever they fail, no single     *)
(* failure leaves the application beside no schema.                        *)
THEOREM ServesOnlyMigratedHolds == Spec => []ServesOnlyMigrated
<1>1. IInv => ServesOnlyMigrated  BY DEF IInv
<1> QED BY <1>1, Prepares, PTL
=============================================================================
