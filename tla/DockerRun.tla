------------------------------ MODULE DockerRun ------------------------------
(***************************************************************************)
(* Tasklane with nothing but the Docker CLI: tasklane-docker-run.sh and    *)
(* tasklane-docker-cleanup.sh, run one after the other in any order, each  *)
(* of them interrupted or failing anywhere, next to a database container   *)
(* that initialises its volume at its own pace.                            *)
(*                                                                         *)
(* The password lives twice: in a file on one volume, and in the cluster   *)
(* that PostgreSQL created on the other when it first started.             *)
(***************************************************************************)
EXTENDS Integers

CONSTANTS
  Passwords,      (* what the generator may come up with                    *)
  None,           (* a volume that does not exist                           *)
  Empty,          (* a volume with nothing in it                            *)
  MaxFaults       (* bound: interrupted scripts, failed commands, restarts  *)

ASSUME DockerAssumption ==
  MaxFaults \in Nat /\ None # Empty /\ {None, Empty} \cap Passwords = {}

VARIABLES
  pc,         (* the script's next step, "idle" when none runs              *)
  net,        (* tasklane-net exists                                        *)
  secret,     (* tasklane-secrets: None, Empty or the password in its file  *)
  data,       (* tasklane-db-data: None, Empty or the password it was       *)
              (* initialised with                                           *)
  complete,   (* initialisation ran to its end: the database exists         *)
  migrated,   (* the schema is there                                        *)
  db,         (* the database container                                     *)
  apps,       (* which of tasklane-api and tasklane-worker exist            *)
  faults,     (* incidents so far                                           *)
  fooled,     (* history: a docker command that failed was taken for a file *)
              (* or a volume that is not there                              *)
  torn        (* history: the database was killed while it initialised;     *)
              (* a new data volume makes up for both                        *)

vars == <<pc, net, secret, data, complete, migrated, db, apps, faults, fooled, torn>>
volumes == <<secret, data, complete, migrated>>
containers == <<db, apps, torn>>
history == <<faults, fooled>>

RunSteps == {"network", "data", "secrets", "check", "generate", "remove",
             "start_db", "wait_db", "migrate", "start_api", "start_worker"}
CleanSteps == {"clean", "clean_net", "wipe", "wipe_net", "wipe_data", "wipe_secret"}

Running == db # "none" \/ apps # {}

(* Every variable holds what Docker can hold; a cluster that is complete   *)
(* or has the schema exists, the database container has its network and    *)
(* volumes, and the application's have the network and the password's.     *)
TypeOK ==
  /\ pc \in {"idle"} \cup RunSteps \cup CleanSteps
  /\ net \in BOOLEAN
  /\ secret \in {None, Empty} \cup Passwords
  /\ data \in {None, Empty} \cup Passwords
  /\ complete \in BOOLEAN /\ migrated \in BOOLEAN
  /\ db \in {"none", "starting", "initialising", "healthy"}
  /\ apps \subseteq {"api", "worker"}
  /\ faults \in 0 .. MaxFaults
  /\ fooled \in BOOLEAN /\ torn \in BOOLEAN
  /\ migrated => complete
  /\ complete => data \in Passwords
  /\ Running => net /\ secret # None
  /\ db # "none" => data # None

Init ==
  /\ pc = "idle" /\ net = FALSE
  /\ secret = None /\ data = None /\ complete = FALSE /\ migrated = FALSE
  /\ db = "none" /\ apps = {}
  /\ faults = 0 /\ fooled = FALSE /\ torn = FALSE

-----------------------------------------------------------------------------
Step(from, to) == pc = from /\ pc' = to

(* The user starts one of the scripts.                                     *)
Begin ==
  /\ pc = "idle"
  /\ pc' \in {"network", "clean", "wipe"}
  /\ UNCHANGED <<net, volumes, containers, history>>

Fault == faults < MaxFaults /\ faults' = faults + 1

(* Ctrl-C or a closed terminal; a docker command that fails before it did  *)
(* anything, for set -e; wait_healthy or the migration out of tries.       *)
Interrupt ==
  /\ pc # "idle" /\ pc' = "idle" /\ Fault
  /\ UNCHANGED <<net, volumes, containers, fooled>>

(* The container's test of the file cannot be run: its status is the       *)
(* condition of an if, and any status but 0 means that the file is missing.*)
CheckFails ==
  /\ Step("check", "generate") /\ Fault
  /\ fooled' = TRUE
  /\ UNCHANGED <<net, volumes, containers>>

(* The shell has truncated the file and cat has not filled it.             *)
GenerateFails ==
  /\ Step("generate", "idle") /\ Fault
  /\ secret' = Empty
  /\ UNCHANGED <<net, data, complete, migrated, containers, fooled>>

(* docker network inspect or docker volume inspect fails, and the clean-up *)
(* goes on as if there were nothing to remove.                             *)
SkipFails(from, to) ==
  /\ Step(from, to) /\ Fault
  /\ fooled' = (fooled \/ from = "wipe_data")
  /\ UNCHANGED <<net, volumes, containers>>

-----------------------------------------------------------------------------
(* The containers, as the daemon keeps them.                               *)

(* docker rm -f kills: a database that is initialising leaves half of it.  *)
Gone(database, applications) ==
  /\ db' = database /\ apps' = applications
  /\ torn' = (torn \/ (db = "initialising" /\ database = "none"))

(* Mutant: only the database is removed before a run or a clean-up.        *)
RemoveDbOnly(from, to) ==
  /\ Step(from, to)
  /\ Gone("none", apps)
  /\ UNCHANGED <<net, volumes, history>>

RemoveAll(from, to) ==
  /\ Step(from, to)
  /\ Gone("none", {})
  /\ UNCHANGED <<net, volumes, history>>

(* The status of docker rm is ignored, so whatever it could not remove     *)
(* stays, and the script goes on.                                          *)
RemoveFails(from, to) ==
  /\ Step(from, to) /\ Fault
  /\ \E database \in {db, "none"}, applications \in SUBSET apps :
       Gone(database, applications)
  /\ UNCHANGED <<net, volumes, fooled>>

(* Mutant: what is in use is removed all the same.                         *)
InUseNever == FALSE

(* Docker refuses a name that is taken, and to remove what is in use: the  *)
(* network and tasklane-secrets by any container, tasklane-db-data by the  *)
(* one that mounts it, the database's.                                     *)
InUse ==
  \/ pc = "start_db" /\ db # "none"
  \/ pc = "start_api" /\ "api" \in apps
  \/ pc = "start_worker" /\ "worker" \in apps
  \/ pc \in {"clean_net", "wipe_net"} /\ net /\ Running
  \/ pc = "wipe_data" /\ db # "none"
  \/ pc = "wipe_secret" /\ Running

Refused ==
  /\ InUse /\ pc' = "idle"
  /\ UNCHANGED <<net, volumes, containers, history>>

-----------------------------------------------------------------------------
(* tasklane-docker-run.sh                                                  *)

Network ==
  /\ Step("network", "data")
  /\ net' = TRUE
  /\ UNCHANGED <<volumes, containers, history>>

Created(volume) == IF volume = None THEN Empty ELSE volume

DataVolume ==
  /\ Step("data", "secrets")
  /\ data' = Created(data)
  /\ UNCHANGED <<net, secret, complete, migrated, containers, history>>

SecretVolume ==
  /\ Step("secrets", "check")
  /\ secret' = Created(secret)
  /\ UNCHANGED <<net, data, complete, migrated, containers, history>>

(* Mutant: the password is generated on every run.                         *)
CheckNever ==
  /\ Step("check", "generate")
  /\ UNCHANGED <<net, volumes, containers, history>>

(* test -s /secrets/db_password                                            *)
Check ==
  /\ pc = "check"
  /\ pc' = IF secret \in Passwords THEN "remove" ELSE "generate"
  /\ UNCHANGED <<net, volumes, containers, history>>

(* 24 random bytes: not what either volume holds already.                  *)
Generate ==
  /\ Step("generate", "remove")
  /\ \E p \in Passwords \ {secret, data} : secret' = p
  /\ UNCHANGED <<net, data, complete, migrated, containers, history>>

StartDb ==
  /\ Step("start_db", "wait_db") /\ ~InUse
  /\ db' = "starting"
  /\ UNCHANGED <<net, volumes, apps, torn, history>>

(* The health check asks through the socket, on which the server that the  *)
(* entrypoint starts for the initialisation answers too.                   *)
WaitDb ==
  /\ Step("wait_db", "migrate") /\ db \in {"initialising", "healthy"}
  /\ UNCHANGED <<net, volumes, containers, history>>

(* The application can log in with the password in the file.               *)
CanLogIn == complete /\ data = secret

(* The migration connects through TCP, and tries for a minute.             *)
Migrate ==
  /\ Step("migrate", "start_api") /\ db = "healthy" /\ CanLogIn
  /\ migrated' = TRUE
  /\ UNCHANGED <<net, secret, data, complete, containers, history>>

MigrateFails ==
  /\ Step("migrate", "idle") /\ db = "healthy" /\ ~CanLogIn
  /\ UNCHANGED <<net, volumes, containers, history>>

StartApi ==
  /\ Step("start_api", "start_worker") /\ ~InUse
  /\ apps' = apps \cup {"api"}
  /\ UNCHANGED <<net, volumes, db, torn, history>>

(* What is left is waiting for the health checks of both.                  *)
StartWorker ==
  /\ Step("start_worker", "idle") /\ ~InUse
  /\ apps' = apps \cup {"worker"}
  /\ UNCHANGED <<net, volumes, db, torn, history>>

-----------------------------------------------------------------------------
(* The database container, with the official image's entrypoint.           *)

(* On an empty volume the entrypoint runs initdb with the password it      *)
(* reads from the file, and then creates the role's database.              *)
InitDb ==
  /\ db = "starting" /\ data = Empty /\ secret \in Passwords
  /\ data' = secret
  /\ db' = "initialising"
  /\ UNCHANGED <<pc, net, secret, complete, migrated, apps, torn, history>>

InitEnds ==
  /\ db = "initialising"
  /\ complete' = TRUE
  /\ db' = "healthy"
  /\ UNCHANGED <<pc, net, secret, data, migrated, apps, torn, history>>

(* On a volume that holds a cluster it just starts the server.             *)
DbUp ==
  /\ db = "starting" /\ data \in Passwords
  /\ db' = "healthy"
  /\ UNCHANGED <<pc, net, volumes, apps, torn, history>>

(* --restart unless-stopped                                                *)
DbRestarts ==
  /\ db \in {"initialising", "healthy"} /\ Fault
  /\ db' = "starting"
  /\ torn' = (torn \/ db = "initialising")
  /\ UNCHANGED <<pc, net, volumes, apps, fooled>>

-----------------------------------------------------------------------------
(* tasklane-docker-cleanup.sh, without and with --volumes.                 *)

(* Mutant: docker network rm || true, so a network in use is passed over.  *)
CleanNetUnchecked(from, to) ==
  /\ Step(from, to)
  /\ net' = (net /\ Running)
  /\ UNCHANGED <<volumes, containers, history>>

CleanNet(from, to) ==
  /\ Step(from, to) /\ ~InUse
  /\ net' = FALSE
  /\ UNCHANGED <<volumes, containers, history>>

WipeData ==
  /\ Step("wipe_data", "wipe_secret") /\ ~InUse
  /\ data' = None /\ complete' = FALSE /\ migrated' = FALSE
  /\ fooled' = FALSE /\ torn' = FALSE
  /\ UNCHANGED <<net, secret, db, apps, faults>>

WipeSecret ==
  /\ Step("wipe_secret", "idle") /\ ~InUse
  /\ secret' = None
  /\ UNCHANGED <<net, data, complete, migrated, containers, history>>

-----------------------------------------------------------------------------
Run ==
  \/ Network \/ DataVolume \/ SecretVolume \/ Check \/ Generate
  \/ RemoveAll("remove", "start_db") \/ StartDb \/ WaitDb
  \/ Migrate \/ MigrateFails \/ StartApi \/ StartWorker

CleanUp ==
  \/ RemoveAll("clean", "clean_net") \/ CleanNet("clean_net", "idle")
  \/ RemoveAll("wipe", "wipe_net") \/ CleanNet("wipe_net", "wipe_data")
  \/ WipeData \/ WipeSecret

Script == Run \/ CleanUp \/ Refused
Database == InitDb \/ InitEnds \/ DbUp

Incident ==
  \/ Interrupt \/ CheckFails \/ GenerateFails \/ DbRestarts
  \/ RemoveFails("remove", "start_db")
  \/ RemoveFails("clean", "clean_net") \/ RemoveFails("wipe", "wipe_net")
  \/ SkipFails("clean_net", "idle") \/ SkipFails("wipe_net", "wipe_data")
  \/ SkipFails("wipe_data", "wipe_secret")

Next == Begin \/ Script \/ Database \/ Incident

Spec == Init /\ [][Next]_vars

(* A script that was started goes on, and so does a database.              *)
FairSpec == Spec /\ WF_vars(Script) /\ WF_vars(Database)

-----------------------------------------------------------------------------
(* "It must not change while tasklane-db-data exists": however often the   *)
(* scripts are run, interrupted and run again, the file holds the password *)
(* the cluster was created with, unless a command that failed was taken    *)
(* for a file or a volume that is not there.                               *)
PasswordFits == data \in Passwords => secret = data \/ fooled

(* No single failure leaves the application beside a database it cannot    *)
(* use: none, one that is half initialised, or one without the schema.     *)
(* cleanup.sh ignores the status of docker rm, and what it could not       *)
(* remove then stops it at the network, before it comes to the data; only  *)
(* if the test for the network fails as well is the data volume deleted    *)
(* beside an api or a worker, which do not mount it.                       *)
ServesOnlyMigrated == apps # {} => migrated \/ faults >= 2

Served == apps = {"api", "worker"}

(* A run that nothing disturbs any more brings the application up, unless  *)
(* an earlier incident has lost the password or torn the cluster.          *)
RunServes == (pc = "network" /\ faults = MaxFaults) ~> (Served \/ fooled \/ torn)

(* "The script is idempotent": a run that nothing disturbs any more brings *)
(* the application up, even after one that was interrupted.                *)
RerunServes == (pc = "network" /\ faults = MaxFaults) ~> (Served \/ fooled)
=============================================================================
