--------------------------- MODULE RegistryProofs -----------------------------
(***************************************************************************)
(* Starting up, for any number of processes, restarts and faults.          *)
(***************************************************************************)
EXTENDS Registry, TLAPS

USE RegistryAssumption

Places == {"down", "open", "tables", "create", "look", "index", "wire", "register",
           "running", "done"}

(* A handler holds the service of the factory of its context. *)
Held ==
  \A p \in Processes, t \in Threads :
    holds[p][t] # None =>
      /\ factory[p] \in Threads
      /\ service[p][factory[p]] \in Threads
      /\ holds[p][t] = <<factory[p], service[p][factory[p]]>>

(* A server past the migrator has left the index behind it, and one that   *)
(* looks for the index or creates it the table.                            *)
Migrated ==
  /\ \A p \in Processes : pc[p] \in {"look", "index"} => schema # "nothing"
  /\ \A p \in Servers : pc[p] \in {"wire", "register", "running"} => schema = "indexed"

Inv == TypeOK /\ Held /\ Migrated

LEMMA InitInv == Init => Inv
<1> SUFFICES ASSUME Init PROVE Inv
  OBVIOUS
<1>1. faults \in 0..MaxFaults
  BY DEF Init
<1>2. TypeOK
  BY <1>1 DEF Init, TypeOK
<1>3. Held /\ Migrated
  BY DEF Init, Held, Migrated, Processes
<1> QED  BY <1>2, <1>3 DEF Inv

(* A process that ends leaves nothing behind that could break the          *)
(* invariant, whatever it has done to the schema.                          *)
LEMMA DownInv ==
  ASSUME Inv, NEW p \in Processes, Down(p), UNCHANGED schema, faults' \in 0..MaxFaults
  PROVE  Inv'
<1> USE DEF Inv, Down, Goto
<1>1. TypeOK'
  BY DEF TypeOK
<1>2. Held'
  BY DEF TypeOK, Held
<1>3. Migrated'
  BY DEF TypeOK, Migrated, Processes
<1> QED  BY <1>1, <1>2, <1>3

(* A step that only moves the process, to a place its schema allows.       *)
LEMMA GotoInv ==
  ASSUME Inv, NEW p \in Processes, NEW place \in Places, Goto(p, place),
         UNCHANGED <<schema, memory, faults>>,
         place \in {"look", "index"} => schema # "nothing",
         p \in Servers /\ place \in {"wire", "register", "running"} => schema = "indexed"
  PROVE  Inv'
<1> USE DEF Inv, Goto, Places, memory
<1>1. TypeOK'
  BY DEF TypeOK
<1>2. Held'
  BY DEF Held
<1>3. Migrated'
  BY DEF TypeOK, Migrated, Processes
<1> QED  BY <1>1, <1>2, <1>3

LEMMA CreateInv ==
  ASSUME Inv, NEW p \in Processes, CreateTable(p) \/ CreateIndex(p) PROVE Inv'
<1> USE DEF Inv, CreateTable, CreateIndex, Goto, memory
<1>1. TypeOK'
  BY DEF TypeOK
<1>2. Held'
  BY DEF Held
<1>3. Migrated'
  BY DEF TypeOK, Migrated, Processes
<1> QED  BY <1>1, <1>2, <1>3

LEMMA FactoryInv ==
  ASSUME Inv, NEW p \in Processes, NEW t \in Threads, GetServiceFactory(p, t) PROVE Inv'
<1> USE DEF Inv, GetServiceFactory, MustGet
<1>1. TypeOK'
  <2>1. factory'[p] = uses'[p][t] /\ factory'[p] \in Threads
    BY DEF TypeOK
  <2>2. /\ factory' \in [Processes -> Threads \cup {None}]
        /\ uses' \in [Processes -> [Threads -> Threads \cup {None}]]
    BY DEF TypeOK
  <2>3. \A q \in Processes, u \in Threads : uses'[q][u] \in {None, factory'[q]}
    BY <2>1 DEF TypeOK
  <2>4. \A q \in Processes, u \in Threads : holds'[q][u] # None => uses'[q][u] # None
    BY <2>1 DEF TypeOK
  <2> QED  BY <2>2, <2>3, <2>4 DEF TypeOK
<1>2. Held'
  BY DEF TypeOK, Held
<1>3. Migrated'
  BY DEF Migrated
<1> QED  BY <1>1, <1>2, <1>3

LEMMA ServiceInv ==
  ASSUME Inv, NEW p \in Processes, NEW t \in Threads, GetProductService(p, t) PROVE Inv'
<1> DEFINE f == uses[p][t]
<1> USE DEF Inv
<1>1. CASE Down(p)
  BY <1>1, DownInv DEF GetProductService, TypeOK
<1>2. CASE /\ service' = [service EXCEPT ![p][f] = MustGet(@, t)]
           /\ holds' = [holds EXCEPT ![p][t] = <<f, MustGet(service[p][f], t)>>]
           /\ UNCHANGED <<pc, factory, uses, schema, faults>>
  <2>1. f \in Threads /\ f = factory[p]
    BY DEF GetProductService, TypeOK
  <2>2. MustGet(service[p][f], t) \in Threads
    BY <2>1 DEF MustGet, TypeOK
  <2>3. service'[p][f] = MustGet(service[p][f], t)
    BY <1>2, <2>1 DEF TypeOK
  <2>4. service' \in [Processes -> [Threads -> Threads \cup {None}]]
    BY <1>2, <2>1, <2>2 DEF TypeOK
  <2>5. holds' \in [Processes -> [Threads -> (Threads \X Threads) \cup {None}]]
    BY <1>2, <2>1, <2>2 DEF TypeOK
  <2>6. TypeOK'
    <3>1. \A q \in Processes, u \in Threads : holds'[q][u] # None => uses'[q][u] # None
      BY <1>2, <2>1 DEF TypeOK
    <3> QED  BY <1>2, <2>4, <2>5, <3>1 DEF TypeOK
  <2>7. holds'[p][t] = <<factory[p], service'[p][factory[p]]>>
    BY <1>2, <2>1, <2>3 DEF TypeOK
  <2>8. ASSUME NEW u \in Threads, u # t, holds'[p][u] # None
        PROVE  holds'[p][u] = <<factory[p], service'[p][factory[p]]>>
    BY <1>2, <2>1, <2>3, <2>8 DEF TypeOK, Held, MustGet
  <2>9. ASSUME NEW q \in Processes, q # p
        PROVE  service'[q] = service[q] /\ holds'[q] = holds[q]
    BY <1>2, <2>9 DEF TypeOK
  <2>10. Held'
    BY <1>2, <2>1, <2>2, <2>3, <2>7, <2>8, <2>9 DEF Held
  <2>11. Migrated'
    BY <1>2 DEF Migrated
  <2> QED  BY <2>6, <2>10, <2>11
<1> QED  BY <1>1, <1>2 DEF GetProductService

LEMMA StepInv == ASSUME Inv, [Next]_vars PROVE Inv'
<1> USE DEF Inv
<1>1. ASSUME NEW p \in Processes, Load(p) \/ Open(p) \/ MigrateTables(p) \/ HasIndex(p)
      PROVE  Inv'
  <2>1. PICK place \in Places : Goto(p, place) /\ UNCHANGED <<schema, memory, faults>>
          /\ (place \in {"look", "index"} => schema # "nothing")
          /\ (place = "wire" => p \notin Servers \/ schema = "indexed")
          /\ place \notin {"register", "running"}
    BY <1>1 DEF Load, Open, MigrateTables, HasIndex, Places, Processes, Migrated
  <2> QED  BY <2>1, GotoInv
<1>2. ASSUME NEW p \in Processes, Wire(p) \/ Register(p) \/ Hello(p) PROVE Inv'
  <2>1. PICK place \in Places : Goto(p, place) /\ UNCHANGED <<schema, memory, faults>>
          /\ place \notin {"look", "index"}
          /\ (place \in {"register", "running"} => pc[p] \in {"wire", "register"})
          /\ place # "wire"
    BY <1>2 DEF Wire, Register, Hello, Places
  <2>2. p \in Servers /\ place \in {"wire", "register", "running"} => schema = "indexed"
    BY <2>1 DEF Migrated
  <2> QED  BY <2>1, <2>2, GotoInv
<1>3. ASSUME NEW p \in Processes, MigrationFails(p) PROVE Inv'
  BY <1>3, DownInv DEF MigrationFails, TypeOK
<1>4. ASSUME NEW p \in Processes, Crash(p) PROVE Inv'
  <2>1. faults' \in 0..MaxFaults
    BY <1>4 DEF Crash, TypeOK
  <2> QED  BY <1>4, <2>1, DownInv DEF Crash
<1>5. CASE UNCHANGED vars
  <2>1. TypeOK'
    BY <1>5 DEF vars, memory, TypeOK
  <2>2. Held' /\ Migrated'
    BY <1>5 DEF vars, memory, Held, Migrated
  <2> QED  BY <2>1, <2>2
<1> QED
  BY <1>1, <1>2, <1>3, <1>4, <1>5, CreateInv, FactoryInv, ServiceInv DEF Next, Step, Ask

LEMMA SpecInv == Spec => []Inv
  BY InitInv, StepInv, PTL DEF Spec

(* The types of what New...Context and ServiceFactory build, and that no   *)
(* thread has a factory other than the one of its context.                 *)
THEOREM StartupTypeCorrect == Spec => []TypeOK
<1>1. Inv => TypeOK  BY DEF Inv
<1> QED  BY <1>1, SpecInv, PTL

(* GetServiceFactory and GetProductService give the REST and the gRPC      *)
(* handlers of a process one product service.                              *)
THEOREM ServiceShared == Spec => []OneService
<1>1. Inv => OneService  BY DEF Inv, Held, OneService
<1> QED  BY <1>1, SpecInv, PTL

(* A server that registers its handlers has RegisterMigrator behind it,    *)
(* and the unique index is there.                                          *)
THEOREM IndexedBeforeServing == Spec => []ServingMeansIndexed
<1>1. Inv => ServingMeansIndexed  BY DEF Inv, Migrated, ServingMeansIndexed
<1> QED  BY <1>1, SpecInv, PTL

-----------------------------------------------------------------------------
(* How far a server is from serving.  While the table is missing, or this  *)
(* server is about to create it, one failed start may still come on top,   *)
(* and another one while the same holds of the index.                      *)
Asked(p, t) ==
  IF holds[p][t] # None THEN 2 ELSE IF uses[p][t] # None THEN 1 ELSE 0

Place(p) ==
  CASE pc[p] = "running"  -> 0
    [] pc[p] = "register" -> 5 - (Asked(p, "rest") + Asked(p, "grpc"))
    [] pc[p] = "wire"     -> 6
    [] pc[p] = "index"    -> 7
    [] pc[p] = "look"     -> 8
    [] pc[p] = "create"   -> 8
    [] pc[p] = "tables"   -> 9
    [] pc[p] = "open"     -> 10
    [] OTHER              -> 11

TableRace(p) == IF schema = "nothing" \/ pc[p] = "create" THEN 4 ELSE 0
IndexRace(p) == IF schema # "indexed" \/ pc[p] = "index" THEN 5 ELSE 0

StepsLeft(p) == Place(p) + TableRace(p) + IndexRace(p)

(* Unless duplicates prevent the index, each step of a server brings it    *)
(* closer, and only its own crash throws it back; and none makes duplicates*)
(* of what had none.                                                       *)
Closer ==
  schema # "duplicates" =>
    /\ schema' # "duplicates"
    /\ \A p \in Servers :
         /\ Step(p) => StepsLeft(p)' < StepsLeft(p)
         /\ \A q \in Processes \ {p} :
              Step(q) \/ Crash(q) => StepsLeft(p)' <= StepsLeft(p)

LEMMA PlaceType ==
  ASSUME Inv, NEW p \in Servers
  PROVE  /\ Place(p) \in 0..11 /\ TableRace(p) \in {0, 4} /\ IndexRace(p) \in {0, 5}
         /\ StepsLeft(p) = 0 <=> pc[p] = "running"
         /\ pc[p] = "register" => Place(p) \in 1..5
<1>1. Asked(p, "rest") \in 0..2 /\ Asked(p, "grpc") \in 0..2
  BY DEF Asked
<1>2. p \in Processes /\ (pc[p] # "running" \/ schema = "indexed")
  BY DEF Inv, Migrated, Processes
<1>3. Place(p) \in 0..11 /\ (Place(p) = 0 <=> pc[p] = "running")
  BY <1>1 DEF Place
<1>4. pc[p] = "register" => Place(p) \in 1..5
  BY <1>1 DEF Place
<1>5. /\ TableRace(p) \in {0, 4} /\ IndexRace(p) \in {0, 5}
      /\ pc[p] = "running" => TableRace(p) = 0 /\ IndexRace(p) = 0
  BY <1>2 DEF TableRace, IndexRace, Inv, Migrated
<1> QED  BY <1>3, <1>4, <1>5 DEF StepsLeft

(* The contexts of servers have what the product service is built of.      *)
LEMMA ServersWired ==
  ASSUME NEW p \in Servers
  PROVE  Context(p)["ProductRepo"] # "panic" /\ Context(p)["CacheClient"] # "panic"
  BY DEF Context, ServiceContext, NewServiceContext, Given, Getters, BaseContext,
         RepositoryContext

(* A thread of p that asks changes what it has asked, and nothing else     *)
(* that counts.                                                            *)
LEMMA AskCloser ==
  ASSUME Inv, NEW p \in Servers, NEW t \in Threads, Ask(p, t)
  PROVE  StepsLeft(p)' < StepsLeft(p)
<1>1. p \in Processes /\ pc[p] = "register" /\ pc' = pc /\ schema' = schema
  BY ServersWired DEF Processes, Ask, GetServiceFactory, GetProductService
<1>2. ASSUME NEW u \in Threads, u # t PROVE Asked(p, u)' = Asked(p, u)
  <2>1. CASE GetServiceFactory(p, t)
    BY <1>1, <1>2, <2>1 DEF GetServiceFactory, Asked, Inv, TypeOK
  <2>2. CASE GetProductService(p, t)
    BY <1>1, <1>2, <2>2, ServersWired DEF GetProductService, Asked, Inv, TypeOK
  <2> QED  BY <2>1, <2>2 DEF Ask
<1>3. Asked(p, t)' = Asked(p, t) + 1
  <2>1. CASE GetServiceFactory(p, t)
    <3>1. holds[p][t] = None /\ holds' = holds
      BY <1>1, <2>1 DEF GetServiceFactory, Inv, TypeOK
    <3>2. uses'[p][t] \in Threads
      BY <1>1, <2>1 DEF GetServiceFactory, MustGet, Inv, TypeOK
    <3> QED  BY <2>1, <3>1, <3>2 DEF GetServiceFactory, Asked
  <2>2. CASE GetProductService(p, t)
    <3>1. holds'[p][t] = <<uses[p][t], MustGet(service[p][uses[p][t]], t)>>
      BY <1>1, <2>2, ServersWired DEF GetProductService, Inv, TypeOK
    <3>2. holds'[p][t] \in Threads \X Threads
      BY <1>1, <2>2, <3>1 DEF GetProductService, MustGet, Inv, TypeOK
    <3> QED  BY <2>2, <3>2 DEF GetProductService, Asked
  <2> QED  BY <2>1, <2>2 DEF Ask
<1>4. TableRace(p)' = TableRace(p) /\ IndexRace(p)' = IndexRace(p)
  BY <1>1 DEF TableRace, IndexRace
<1>5. \A u \in Threads : Asked(p, u) \in 0..2
  BY DEF Asked
<1>6. Asked(p, "rest")' + Asked(p, "grpc")' = Asked(p, "rest") + Asked(p, "grpc") + 1
  BY <1>2, <1>3, <1>5 DEF Threads
<1>7. Place(p) = 5 - (Asked(p, "rest") + Asked(p, "grpc"))
  BY <1>1 DEF Place
<1>8. Place(p)' = 5 - (Asked(p, "rest")' + Asked(p, "grpc")')
  BY <1>1 DEF Place
<1>9. \A u \in Threads : Asked(p, u)' \in 0..2
  BY <1>2, <1>3, <1>5 DEF Asked
<1> QED  BY <1>4, <1>5, <1>6, <1>7, <1>8, <1>9, PlaceType DEF StepsLeft, Threads

LEMMA OwnStepCloser ==
  ASSUME Inv, Inv', NEW p \in Servers, Step(p), schema # "duplicates"
  PROVE  StepsLeft(p)' < StepsLeft(p)
<1> USE DEF Goto, StepsLeft, Place, TableRace, IndexRace
<1>1. p \in Processes /\ p \notin Crons
  BY DEF Processes
<1>2. /\ pc' \in [Processes -> Places] /\ pc \in [Processes -> Places]
      /\ schema \in {"nothing", "table", "indexed"}
  BY DEF Inv, TypeOK, Places
<1>3. /\ Place(p)' \in 0..11
      /\ pc'[p] = "register" => Place(p)' \in 1..5
  <2>1. Asked(p, "rest")' \in 0..2 /\ Asked(p, "grpc")' \in 0..2
    BY DEF Asked
  <2> QED  BY <2>1
<1>4. CASE Load(p)
  BY <1>1, <1>2, <1>4 DEF Load
<1>5. CASE Open(p)
  BY <1>1, <1>2, <1>5 DEF Open
<1>6. CASE MigrateTables(p)
  BY <1>1, <1>2, <1>6 DEF MigrateTables
<1>7. CASE HasIndex(p)
  <2>1. schema \in {"table", "indexed"}
    BY <1>1, <1>2, <1>7 DEF HasIndex, Inv, Migrated
  <2> QED  BY <1>1, <1>2, <1>7, <2>1 DEF HasIndex
<1>8. CASE CreateTable(p)
  BY <1>1, <1>2, <1>8 DEF CreateTable
<1>9. CASE CreateIndex(p)
  BY <1>1, <1>2, <1>9 DEF CreateIndex
<1>10. CASE Wire(p)
  <2>1. pc[p] = "wire" /\ pc'[p] = "register" /\ schema' = schema
    BY <1>1, <1>2, <1>10 DEF Wire
  <2> QED  BY <1>3, <2>1
<1>11. CASE \E t \in Threads : Ask(p, t)
  BY <1>11, AskCloser
<1>12. CASE Register(p)
  <2>1. pc[p] = "register" /\ pc'[p] = "running" /\ schema' = schema
    BY <1>1, <1>2, <1>12 DEF Register
  <2> QED  BY <2>1, PlaceType
<1>13. ~Hello(p)
  BY <1>1 DEF Hello
(* A lost race costs a start, which the race was counted for. *)
<1>14. CASE MigrationFails(p)
  <2>1. pc'[p] = "down" /\ schema' = schema
    BY <1>1, <1>2, <1>14 DEF MigrationFails, Down
  <2> QED  BY <1>2, <1>14, <2>1 DEF MigrationFails
<1> QED
  BY <1>4, <1>5, <1>6, <1>7, <1>8, <1>9, <1>10, <1>11, <1>12, <1>13, <1>14 DEF Step

(* The schema never goes back, and duplicates come from nowhere. *)
LEMMA SchemaGrows ==
  ASSUME [Next]_vars
  PROVE  /\ schema' = "nothing" => schema = "nothing"
         /\ schema = "indexed" => schema' = "indexed"
         /\ schema' = "duplicates" => schema = "duplicates"
  BY DEF Next, vars, Step, Crash, Load, Open, MigrateTables, HasIndex, CreateTable,
         CreateIndex, MigrationFails, Wire, Ask, GetServiceFactory,
         GetProductService, Register, Hello

(* What another process does leaves p where it is. *)
LEMMA OtherStepHarmless ==
  ASSUME Inv, NEW p \in Servers, NEW q \in Processes \ {p}, Step(q) \/ Crash(q)
  PROVE  StepsLeft(p)' <= StepsLeft(p)
<1>1. p \in Processes /\ q \in Processes /\ p # q
  BY DEF Processes
<1>2. /\ pc'[p] = pc[p]
      /\ uses'[p] = uses[p] /\ holds'[p] = holds[p]
  <2>1. CASE Down(q)
    BY <1>1, <2>1 DEF Down, Goto, Inv, TypeOK
  <2>2. CASE \E place : Goto(q, place) /\ UNCHANGED memory
    BY <1>1, <2>2 DEF Goto, memory, Inv, TypeOK
  <2>3. CASE \E t \in Threads : Ask(q, t)
    BY <1>1, <2>1, <2>3 DEF Ask, GetServiceFactory, GetProductService, Inv, TypeOK
  <2> QED
    BY <2>1, <2>2, <2>3 DEF Step, Crash, Load, Open, MigrateTables, HasIndex,
                            CreateTable, CreateIndex, MigrationFails, Wire,
                            Register, Hello
<1>3. /\ schema' = "nothing" => schema = "nothing"
      /\ schema = "indexed" => schema' = "indexed"
  BY SchemaGrows DEF Next
<1>4. Place(p)' = Place(p)
  BY <1>2 DEF Place, Asked
<1>5. /\ TableRace(p)' = 0 \/ TableRace(p)' = TableRace(p)
      /\ IndexRace(p)' = 0 \/ IndexRace(p)' = IndexRace(p)
  BY <1>2, <1>3 DEF TableRace, IndexRace
<1> QED  BY <1>4, <1>5, PlaceType DEF StepsLeft

(* Starting up makes headway: a server that runs comes closer to serving   *)
(* with each of its steps, the lost races for the table and for its index  *)
(* included, and nothing throws it back but a failure from outside; where  *)
(* no step is left it serves.  This is what EveryServerServes needs besides*)
(* processes that run; with duplicate SKUs in the table there is no such   *)
(* headway.                                                                *)
THEOREM StartAdvances ==
  Spec => /\ [](\A p \in Servers :
                  /\ StepsLeft(p) \in Nat
                  /\ StepsLeft(p) = 0 <=> pc[p] = "running")
          /\ [][Closer]_vars
<1>1. Inv => \A p \in Servers : /\ StepsLeft(p) \in Nat
                                /\ StepsLeft(p) = 0 <=> pc[p] = "running"
  <2> SUFFICES ASSUME Inv, NEW p \in Servers
               PROVE  /\ StepsLeft(p) \in Nat
                      /\ StepsLeft(p) = 0 <=> pc[p] = "running"
    OBVIOUS
  <2>1. Place(p) \in Nat /\ TableRace(p) \in Nat /\ IndexRace(p) \in Nat
    BY PlaceType
  <2>2. StepsLeft(p) \in Nat
    BY <2>1 DEF StepsLeft
  <2> QED  BY <2>2, PlaceType
<1>2. Inv /\ Inv' /\ [Next]_vars => [Closer]_vars
  BY OwnStepCloser, OtherStepHarmless, SchemaGrows DEF Closer
<1> QED  BY <1>1, <1>2, SpecInv, PTL DEF Spec
=============================================================================
