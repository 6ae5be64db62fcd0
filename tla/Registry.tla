------------------------------- MODULE Registry -------------------------------
(***************************************************************************)
(* How the processes of the service come up: servers, consumers and cron   *)
(* commands, each with the context internal/registry wires for it, over    *)
(* one database that the servers migrate (internal/types/entity/migrate.go)*)
(* and nobody else does.                                                   *)
(*                                                                         *)
(* The helpers are external: db.Must ends the process where it cannot      *)
(* connect or migrate, gorm's AutoMigrate creates the table and its unique *)
(* index in two statements and only what it has found missing, the index   *)
(* only over a table without duplicate SKUs, oncex.OnceValue calls its     *)
(* constructor once.  A server registers its REST and its gRPC handlers    *)
(* side by side.  What is down is started again by the orchestrator.       *)
(***************************************************************************)
EXTENDS Naturals

CONSTANTS
  Servers, Consumers, Crons,  \* the processes of each kind
  MaxFaults,                  \* bound: how often a process fails from outside
  None                        \* nothing built yet

Processes == Servers \cup Consumers \cup Crons
Threads   == {"rest", "grpc"}

ASSUME RegistryAssumption ==
  /\ Servers \cap Consumers = {} /\ Servers \cap Crons = {} /\ Consumers \cap Crons = {}
  /\ MaxFaults \in Nat
  /\ None \notin Threads \cup (Threads \X Threads)

(* What a context gives.  "panic" stands for a method promoted from an     *)
(* embedded interface that is nil.                                         *)
BaseContext == {"Config", "Downloader", "CacheClient", "ProducerClient"}
RepositoryContext == {"ProductRepo"}
Getters == BaseContext \cup RepositoryContext

Given(others) == [g \in Getters |-> IF g \in DOMAIN others THEN others[g] ELSE "given"]

NewServiceContext  == Given([ProducerClient |-> "panic"])
WithoutRepository  == Given([ProducerClient |-> "panic", ProductRepo |-> "panic"])
NewConsumerContext == Given([ProducerClient |-> "nil"])
NewCronContext     == Given([ProducerClient |-> "nil", ProductRepo |-> "panic"])

ServiceContext == NewServiceContext
Context(p) == IF p \in Servers THEN ServiceContext
              ELSE IF p \in Consumers THEN NewConsumerContext ELSE NewCronContext

VARIABLES
  schema,   \* products in the database: nothing, the table, a table that holds
            \* duplicate SKUs, the table and its index
  pc,       \* how far a process has come
  factory,  \* the factory of its context, named for the thread that had it built
  uses,     \* the factory a thread has asked
  service,  \* the product service of a factory
  holds,    \* the product service a thread's handler holds
  faults

memory == <<factory, uses, service, holds>>
vars   == <<schema, pc, memory, faults>>

Init ==
  /\ schema \in {"nothing", "table", "duplicates", "indexed"}
  /\ pc = [p \in Processes |-> "down"]
  /\ factory = [p \in Processes |-> None]
  /\ uses = [p \in Processes |-> [t \in Threads |-> None]]
  /\ service = [p \in Processes |-> [f \in Threads |-> None]]
  /\ holds = [p \in Processes |-> [t \in Threads |-> None]]
  /\ faults = 0

-----------------------------------------------------------------------------
Goto(p, next) == pc' = [pc EXCEPT ![p] = next]

(* The process ends and takes what it has built with it. *)
Down(p) ==
  /\ Goto(p, "down")
  /\ factory' = [factory EXCEPT ![p] = None]
  /\ uses' = [uses EXCEPT ![p] = [t \in Threads |-> None]]
  /\ service' = [service EXCEPT ![p] = [f \in Threads |-> None]]
  /\ holds' = [holds EXCEPT ![p] = [t \in Threads |-> None]]

(* main loads the configuration.  A cron command opens no database. *)
Load(p) ==
  /\ pc[p] = "down"
  /\ Goto(p, IF p \in Crons THEN "wire" ELSE "open")
  /\ UNCHANGED <<schema, memory, faults>>

(* db.Must: servers alone pass the migrator. *)
Open(p) ==
  /\ pc[p] = "open"
  /\ Goto(p, IF p \in Servers THEN "tables" ELSE "wire")
  /\ UNCHANGED <<schema, memory, faults>>

(* AutoMigrate looks for the table and, where there is one, for the unique *)
(* index of the SKU.  MigrateIndexes adds nothing to it.                   *)
MigrateTables(p) ==
  /\ pc[p] = "tables"
  /\ Goto(p, IF schema = "nothing" THEN "create" ELSE "look")
  /\ UNCHANGED <<schema, memory, faults>>

HasIndex(p) ==
  /\ pc[p] = "look"
  /\ Goto(p, IF schema = "indexed" THEN "wire" ELSE "index")
  /\ UNCHANGED <<schema, memory, faults>>

CreateTable(p) ==
  /\ pc[p] = "create"
  /\ schema = "nothing"
  /\ schema' = "table"
  /\ Goto(p, "index")
  /\ UNCHANGED <<memory, faults>>

(* Where another server was faster, the statement may find nothing to do   *)
(* (IF NOT EXISTS) ...                                                     *)
CreateIndex(p) ==
  /\ pc[p] = "index"
  /\ schema \in {"table", "indexed"}
  /\ schema' = "indexed"
  /\ Goto(p, "wire")
  /\ UNCHANGED <<memory, faults>>

(* ... or fail, as it does for a table another server has created and for  *)
(* duplicate SKUs.  RegisterMigrator returns the error, db.Must ends the   *)
(* process.                                                                *)
IgnoreMigrationError(p) ==
  /\ \/ pc[p] = "create" /\ schema # "nothing"
     \/ pc[p] = "index" /\ schema \in {"duplicates", "indexed"}
  /\ Goto(p, "wire")
  /\ UNCHANGED <<schema, memory, faults>>

MigrationFails(p) ==
  /\ \/ pc[p] = "create" /\ schema # "nothing"
     \/ pc[p] = "index" /\ schema \in {"duplicates", "indexed"}
  /\ Down(p)
  /\ UNCHANGED <<schema, faults>>

(* The rest of New...Context. *)
Wire(p) ==
  /\ pc[p] = "wire"
  /\ Goto(p, IF p \in Servers THEN "register" ELSE "running")
  /\ UNCHANGED <<schema, memory, faults>>

(* OnceValue.MustGet on behalf of t. *)
MustGet(once, t) == IF once = None THEN t ELSE once

(* NewProductHandler, in the thread of each server: the factory first ...  *)
FreshServiceFactory(p, t) ==
  /\ pc[p] = "register" /\ uses[p][t] = None
  /\ uses' = [uses EXCEPT ![p][t] = t]
  /\ UNCHANGED <<schema, pc, factory, service, holds, faults>>

GetServiceFactory(p, t) ==
  /\ pc[p] = "register" /\ uses[p][t] = None
  /\ factory' = [factory EXCEPT ![p] = MustGet(@, t)]
  /\ uses' = [uses EXCEPT ![p][t] = MustGet(factory[p], t)]
  /\ UNCHANGED <<schema, pc, service, holds, faults>>

(* ... then its product service, built of the repository and the cache of  *)
(* the context.                                                            *)
GetProductService(p, t) ==
  /\ pc[p] = "register" /\ uses[p][t] # None /\ holds[p][t] = None
  /\ LET f == uses[p][t] IN
     IF "panic" \in {Context(p)["ProductRepo"], Context(p)["CacheClient"]}
     THEN Down(p)
     ELSE /\ service' = [service EXCEPT ![p][f] = MustGet(@, t)]
          /\ holds' = [holds EXCEPT ![p][t] = <<f, MustGet(service[p][f], t)>>]
          /\ UNCHANGED <<pc, factory, uses>>
  /\ UNCHANGED <<schema, faults>>

Register(p) ==
  /\ pc[p] = "register"
  /\ \A t \in Threads : holds[p][t] # None
  /\ Goto(p, "running")
  /\ UNCHANGED <<schema, memory, faults>>

(* The one cron command prints a line and ends. *)
Hello(p) ==
  /\ p \in Crons /\ pc[p] = "running"
  /\ Goto(p, "done")
  /\ UNCHANGED <<schema, memory, faults>>

(* A process is killed, or fails to connect or to migrate. *)
Crash(p) ==
  /\ faults < MaxFaults
  /\ pc[p] \notin {"down", "done"}
  /\ Down(p)
  /\ faults' = faults + 1
  /\ UNCHANGED schema

-----------------------------------------------------------------------------
Ask(p, t) == GetServiceFactory(p, t) \/ GetProductService(p, t)

Step(p) ==
  \/ Load(p) \/ Open(p)
  \/ MigrateTables(p) \/ HasIndex(p) \/ CreateTable(p) \/ CreateIndex(p)
  \/ MigrationFails(p)
  \/ Wire(p) \/ \E t \in Threads : Ask(p, t)
  \/ Register(p) \/ Hello(p)

Next == \E p \in Processes : Step(p) \/ Crash(p)

Spec == Init /\ [][Next]_vars

(* Processes run, and what is down is started again. *)
FairSpec == Spec /\ \A p \in Processes : WF_vars(Step(p))

-----------------------------------------------------------------------------
(* Every variable has its type, and no thread has a factory, or a service  *)
(* of one, other than the one of its context.                              *)
TypeOK ==
  /\ schema \in {"nothing", "table", "duplicates", "indexed"}
  /\ pc \in [Processes -> {"down", "open", "tables", "create", "look", "index",
                           "wire", "register", "running", "done"}]
  /\ factory \in [Processes -> Threads \cup {None}]
  /\ uses \in [Processes -> [Threads -> Threads \cup {None}]]
  /\ service \in [Processes -> [Threads -> Threads \cup {None}]]
  /\ holds \in [Processes -> [Threads -> (Threads \X Threads) \cup {None}]]
  /\ faults \in 0..MaxFaults
  /\ \A p \in Processes, t \in Threads :
       /\ uses[p][t] \in {None, factory[p]}
       /\ holds[p][t] # None => uses[p][t] # None

(* The REST and the gRPC handlers of a process work on one product         *)
(* service, whichever of them asks first.                                  *)
OneService ==
  \A p \in Processes : \A t, u \in Threads :
    holds[p][t] # None /\ holds[p][u] # None => holds[p][t] = holds[p][u]

(* No server takes requests before the index that keeps the SKUs apart is  *)
(* there, also where an earlier start ended between the two statements,    *)
(* where another server is migrating too, or where duplicates prevent it.  *)
ServingMeansIndexed ==
  \A p \in Servers : pc[p] \in {"register", "running"} => schema = "indexed"

(* Once nothing fails from outside any more, all servers come up and stay, *)
(* whoever lost the races for the table and for its index - unless there   *)
(* was a table with duplicate SKUs, over which no server ever comes up.    *)
EveryServerServes ==
  schema # "duplicates" => <>[](\A p \in Servers : pc[p] = "running")
=============================================================================
