--------------------------- MODULE TransportProofs ----------------------------
(***************************************************************************)
(* The transport for any number of calls and whatever pages and limits     *)
(* their clients send.                                                     *)
(***************************************************************************)
EXTENDS Transport, ValidationProofs

USE ErrorAssumption, TransportAssumption

Places == {"none", "hello", "parse", "handle", "serve", "respond", "ended"}

-----------------------------------------------------------------------------
(* Other requests have no rules. *)
LEMMA ValidOther ==
  ASSUME NEW m \in OtherRequest, m.op \in Operations PROVE Validate(m) = Nil
<1>1. Errors(m) = <<>>
  BY DEF Errors, OtherRequest, Operations, ClientOperations, GetProductRequestErrors,
     CreateProductRequestErrors, UpdateProductRequestErrors, DeleteProductRequestErrors,
     ExportProductsRequestErrors, GetProductFromCacheRequestErrors, CheckKafkaRequestErrors
<1> QED  BY <1>1 DEF Validate, validate

-----------------------------------------------------------------------------
Types ==
  /\ req \in [Calls -> Request \cup {None}]
  /\ via \in [Calls -> {"rest", "grpc", None}]
  /\ pc \in [Calls -> Places]
  /\ answer \in [Calls -> Codes \cup {None}]
  /\ client \in [Calls -> Ends \cup {"waiting", None}]
  /\ outcome \in [Calls -> {"begun", "ok", "error", "panic", None}]

(* A call that goes on has a request of its kind, and came by one of the   *)
(* two servers.                                                            *)
HasRequest(c) ==
  pc[c] # "none" =>
    /\ req[c] \in Request /\ via[c] \in {"rest", "grpc"}
    /\ pc[c] \in {"parse", "handle", "serve", "respond"} => req[c].op \in Operations
    /\ pc[c] = "hello" => req[c].op \in ClientOperations

(* The answer of a handler tells how the operation returned ... *)
AnswerTrue(c) ==
  /\ answer[c] # None <=> pc[c] = "ended"
  /\ pc[c] \in {"none", "hello", "parse", "handle"} => outcome[c] = None
  /\ pc[c] = "serve" => Accepted(c)
  /\ answer[c] \in {"malformed", "invalid"} => outcome[c] = None
  /\ answer[c] = "invalid" => ~Accepted(c) /\ req[c].op \in Operations
  /\ answer[c] \in {"ok", "empty"} /\ req[c].op \in Operations => outcome[c] = "ok"
  /\ answer[c] \in {"error", "panic"} => outcome[c] = answer[c]

(* ... and what the client is told, where it is an answer, is that.        *)
ClientTrue(c) ==
  /\ client[c] = None <=> pc[c] = "none"
  /\ client[c] \in Codes => pc[c] = "ended" /\ client[c] = answer[c]

Local(c) == HasRequest(c) /\ AnswerTrue(c) /\ ClientTrue(c)
Inv == Types /\ \A c \in Calls : Local(c)

(* None is no code, no end and not "waiting". *)
LEMMA NoneApart == None \notin Codes /\ None \notin Ends /\ None # "waiting"
  BY DEF Ends

LEMMA InitInv == Init => Inv
<1> SUFFICES ASSUME Init PROVE Inv
  OBVIOUS
<1>1. Types
  BY DEF Init, Types, Places
<1>2. ASSUME NEW c \in Calls PROVE Local(c)
  <2>1. pc[c] = "none" /\ answer[c] = None /\ client[c] = None /\ outcome[c] = None
    BY DEF Init
  <2>2. answer[c] \notin {"malformed", "invalid", "ok", "empty"}
    BY <2>1, NoneApart DEF Codes
  <2> QED  BY <2>1, <2>2, NoneApart DEF Local, HasRequest, AnswerTrue, ClientTrue
<1> QED  BY <1>1, <1>2 DEF Inv

(* A step touches the call it is a step of, and no other.                  *)
Alone(c) ==
  \A d \in Calls \ {c} :
    /\ via'[d] = via[d] /\ req'[d] = req[d] /\ pc'[d] = pc[d]
    /\ answer'[d] = answer[d] /\ client'[d] = client[d] /\ outcome'[d] = outcome[d]

LEMMA AloneInv ==
  ASSUME Inv, NEW c \in Calls, Types', Alone(c), Local(c)' PROVE Inv'
<1>1. ASSUME NEW d \in Calls \ {c} PROVE Local(d)'
  <2>1. /\ via'[d] = via[d] /\ req'[d] = req[d] /\ pc'[d] = pc[d]
        /\ answer'[d] = answer[d] /\ client'[d] = client[d] /\ outcome'[d] = outcome[d]
    BY <1>1 DEF Alone
  <2>2. Accepted(d)' <=> Accepted(d)
    BY <2>1 DEF Accepted, in, Default
  <2>3. Local(d)
    BY <1>1 DEF Inv
  <2>4. HasRequest(d)'
    BY <2>1, <2>3 DEF Local, HasRequest
  <2>5. AnswerTrue(d)'
    BY <2>1, <2>2, <2>3 DEF Local, AnswerTrue
  <2>6. ClientTrue(d)'
    BY <2>1, <2>3 DEF Local, ClientTrue
  <2> QED  BY <2>4, <2>5, <2>6 DEF Local
<1> QED  BY <1>1 DEF Inv

LEMMA CallInv ==
  ASSUME Inv, NEW c \in Calls, NEW m \in Methods \cup Routes, NEW r \in Request, Call(c, m, r)
  PROVE  Inv'
<1> USE DEF Inv, Call
<1>1. m.via \in {"rest", "grpc"} /\ r.op \in Operations \cup ClientOperations
  BY DEF Methods, Routes
<1>2. Types'
  BY <1>1 DEF Types, Places, Ends, Codes
<1>3. Alone(c)
  BY DEF Alone, Types
<1>4. Local(c)'
  BY <1>1 DEF Types, Local, HasRequest, AnswerTrue, ClientTrue, Codes
<1> QED  BY <1>2, <1>3, <1>4, AloneInv

(* The steps of the handler. *)
HandlerStep(c) == Parse(c) \/ Handle(c) \/ Serve(c) \/ Respond(c) \/ Greet(c)

LEMMA HandlerInv == ASSUME Inv, NEW c \in Calls, HandlerStep(c) PROVE Inv'
<1> USE DEF Inv, HandlerStep, Parse, Handle, Serve, Respond, Greet, Continue, Begin, Finish
<1>1. Types'
  BY DEF Types, Places, Codes
<1>2. Alone(c)
  BY DEF Alone, Types
<1>3. req' = req /\ via' = via /\ client' = client /\ (Accepted(c)' <=> Accepted(c))
  BY DEF Accepted, in, Default
<1>4. HasRequest(c)'
  BY <1>3 DEF Local, HasRequest, Types, Operations, ClientOperations
<1>5. AnswerTrue(c)'
  <2>1. /\ pc[c] # "ended" /\ answer[c] = None
        /\ pc[c] # "none" /\ req'[c] = req[c] /\ (Accepted(c)' <=> Accepted(c))
    BY <1>3 DEF Local, AnswerTrue
  <2>2. CASE Parse(c)
    BY <2>1, <2>2, NoneApart DEF Local, AnswerTrue, Types, Codes
  <2>3. CASE Handle(c)
    BY <2>1, <2>3, NoneApart DEF Local, HasRequest, AnswerTrue, Types, Codes
  <2>4. CASE Serve(c)
    BY <2>1, <2>4, NoneApart DEF Local, AnswerTrue, Types, Codes
  <2>5. CASE Respond(c)
    BY <2>1, <2>5, NoneApart DEF Local, AnswerTrue, Types, Codes
  <2>6. CASE Greet(c)
    BY <2>1, <2>6, NoneApart
    DEF Local, HasRequest, AnswerTrue, Types, Codes, Operations, ClientOperations
  <2> QED  BY <2>2, <2>3, <2>4, <2>5, <2>6
<1>6. ClientTrue(c)'
  BY <1>3 DEF Local, ClientTrue, Types, Codes
<1> QED  BY <1>1, <1>2, <1>4, <1>5, <1>6, AloneInv DEF Local

LEMMA ServerInv ==
  ASSUME Inv, NEW c \in Calls, Send(c) \/ Interrupt(c) \/ Return(c) PROVE Inv'
<1> USE DEF Inv, Send, Interrupt, Return
<1>1. Types'
  BY DEF Types, Places, Ends, Codes, Local, AnswerTrue
<1>2. Alone(c)
  BY DEF Alone, Types
<1>3. Local(c)'
  <2>1. CASE Send(c)
    BY <2>1 DEF Types, Local, HasRequest, AnswerTrue, ClientTrue, Accepted, in, Default
  <2>2. CASE Interrupt(c)
    <3>1. UNCHANGED <<via, req, pc, answer, outcome>>
      BY <2>2
    <3>2. HasRequest(c)' /\ AnswerTrue(c)'
      BY <3>1 DEF Local, HasRequest, AnswerTrue, Accepted, in, Default
    <3>3. client[c] = "waiting" /\ client'[c] \in {"deadline", "cancelled"}
      BY <2>2 DEF Types
    <3>4. client'[c] \notin Codes /\ client'[c] # None
      BY <3>3, NoneApart DEF Codes, Ends
    <3>5. ClientTrue(c)'
      BY <3>1, <3>3, <3>4, NoneApart DEF Local, ClientTrue
    <3> QED  BY <3>2, <3>5 DEF Local
  <2>3. CASE Return(c)
    BY <2>3 DEF Types, Local, HasRequest, AnswerTrue, ClientTrue, Codes, Ends
  <2> QED  BY <2>1, <2>2, <2>3
<1> QED  BY <1>1, <1>2, <1>3, AloneInv

LEMMA StepInv == ASSUME Inv, [Next]_vars PROVE Inv'
<1>1. CASE UNCHANGED vars
  BY <1>1 DEF vars, Inv, Types, Local, HasRequest, AnswerTrue, ClientTrue, Accepted, in, Default
<1> QED
  BY <1>1, CallInv, HandlerInv, ServerInv
  DEF Next, Step, Handler, RestHandler, GrpcHandler, HandlerStep

LEMMA SpecInv == Spec => []Inv
  BY InitInv, StepInv, PTL DEF Spec

-----------------------------------------------------------------------------
(* What reaches the handler of a listing, defaults filled in.              *)
LEMMA DefaultFills ==
  ASSUME NEW c, NEW value \in Int \cup {Absent}, NEW default \in Int
  PROVE  /\ Default(c, value, default) \in Int
         /\ value # Absent => Default(c, value, default) = value
         /\ value = Absent /\ via[c] = "rest" => Default(c, value, default) = default
  BY DEF Default

LEMMA ListingIn ==
  ASSUME Inv, NEW c \in Calls, pc[c] # "none", req[c].op = "ListProducts"
  PROVE  /\ req[c] \in ListProductsRequest
         /\ in(c).page = Default(c, req[c].page, 1)
         /\ in(c).limit = Default(c, req[c].limit, 10)
         /\ in(c).page \in Int /\ in(c).limit \in Int
         /\ Accepted(c) <=> in(c).page >= 1 /\ in(c).limit \in 1..100
<1>1. req[c] \in ListProductsRequest
  BY DEF Inv, Local, HasRequest, Request, OtherRequest
<1>2. /\ Default(c, req[c].page, 1) \in Int
      /\ Default(c, req[c].limit, 10) \in Int
  <2>1. req[c].page \in Int \cup {Absent} /\ req[c].limit \in Int \cup {Absent}
    BY <1>1 DEF ListProductsRequest
  <2>2. Default(c, req[c].page, 1) \in Int
    BY <2>1, 1 \in Int, DefaultFills
  <2>3. Default(c, req[c].limit, 10) \in Int
    BY <2>1, 10 \in Int, DefaultFills
  <2> QED  BY <2>2, <2>3
<1>3. in(c) \in [op : {"ListProducts"}, page : Int, limit : Int]
      /\ in(c).page = Default(c, req[c].page, 1)
      /\ in(c).limit = Default(c, req[c].limit, 10)
  BY <1>1, <1>2 DEF in, ListProductsRequest
<1>4. Accepted(c) <=> Validate(in(c)) = Nil
  BY <1>1 DEF Accepted, Unvalidated, ListProductsRequest
<1> QED  BY <1>1, <1>3, <1>4, ValidListing

(* The types of a call, and that a handler has an answer exactly when it   *)
(* has ended.                                                              *)
THEOREM TransportTypeCorrect == Spec => []TypeOK
<1>1. Inv => TypeOK
  BY DEF Inv, Types, Places, Local, AnswerTrue, ClientTrue, TypeOK
<1> QED  BY <1>1, SpecInv, PTL

(* A client told its request was malformed or invalid can rely on it that  *)
(* the operation was never begun.                                          *)
THEOREM RefusalsHarmless == Spec => []RefusedMeansUntouched
<1>1. Inv => RefusedMeansUntouched
  BY DEF Inv, Local, AnswerTrue, ClientTrue, Codes, RefusedMeansUntouched
<1> QED  BY <1>1, SpecInv, PTL

(* Whoever is answered with success has had the operation return no error, *)
(* whoever is answered with an error or a panic has had it end so.         *)
THEOREM AnswersPassedOn == Spec => []ToldAsReturned
<1>1. Inv => ToldAsReturned
  BY DEF Inv, Local, AnswerTrue, ClientTrue, Codes, ToldAsReturned
<1> QED  BY <1>1, SpecInv, PTL

(* ListProducts is never called with a page or a limit out of range,       *)
(* whatever integers a client sends or leaves out.                         *)
THEOREM ServedInRange == Spec => []OnlyValidServed
<1>1. ASSUME Inv PROVE OnlyValidServed
  <2>1. ASSUME NEW c \in Calls, pc[c] = "serve", req[c].op = "ListProducts"
        PROVE  in(c).page >= 1 /\ in(c).limit \in 1..100
    BY <1>1, <2>1, ListingIn DEF Inv, Local, AnswerTrue
  <2> QED  BY <2>1 DEF OnlyValidServed
<1> QED  BY <1>1, SpecInv, PTL

(* "invalid" is never the fault of a default that REST filled in.          *)
THEOREM InvalidExplained == Spec => []InvalidHasCause
<1>1. ASSUME Inv PROVE InvalidHasCause
  <2>1. ASSUME NEW c \in Calls, client[c] = "invalid"
        PROVE  /\ req[c].op = "ListProducts"
               /\ \/ req[c].page # Absent /\ req[c].page < 1
                  \/ req[c].limit # Absent /\ req[c].limit \notin 1..100
                  \/ via[c] = "grpc" /\ Absent \in {req[c].page, req[c].limit}
    <3>1. /\ pc[c] = "ended" /\ ~Accepted(c)
          /\ req[c] \in Request /\ req[c].op \in Operations
          /\ via[c] \in {"rest", "grpc"}
      BY <1>1, <2>1 DEF Inv, Local, HasRequest, AnswerTrue, ClientTrue, Codes
    <3>2. req[c].op = "ListProducts"
      <4>1. SUFFICES ASSUME req[c].op # "ListProducts" PROVE FALSE
        OBVIOUS
      <4>2. in(c) = req[c] /\ req[c] \in OtherRequest
        BY <3>1, <4>1 DEF in, Request, ListProductsRequest
      <4> QED  BY <3>1, <4>2, ValidOther DEF Accepted
    <3>3. ~(Default(c, req[c].page, 1) >= 1) \/ Default(c, req[c].limit, 10) \notin 1..100
      BY <1>1, <3>1, <3>2, ListingIn
    <3>4. req[c] \in ListProductsRequest
      BY <1>1, <3>1, <3>2, ListingIn
    <3>5. req[c].page \in Int \cup {Absent} /\ req[c].limit \in Int \cup {Absent}
      BY <3>4 DEF ListProductsRequest
    <3>6. CASE via[c] = "rest"
      <4>1. CASE ~(Default(c, req[c].page, 1) >= 1)
        <5>1. req[c].page # Absent
          BY <3>5, <3>6, <4>1 DEF Default
        <5>2. Default(c, req[c].page, 1) = req[c].page
          BY <5>1 DEF Default
        <5> QED  BY <3>2, <3>5, <4>1, <5>1, <5>2
      <4>2. CASE Default(c, req[c].limit, 10) \notin 1..100
        <5>1. req[c].limit # Absent
          BY <3>5, <3>6, <4>2 DEF Default
        <5>2. Default(c, req[c].limit, 10) = req[c].limit
          BY <5>1 DEF Default
        <5> QED  BY <3>2, <3>5, <4>2, <5>1, <5>2
      <4> QED  BY <3>3, <4>1, <4>2
    <3>7. CASE via[c] = "grpc"
      <4>1. CASE ~(Default(c, req[c].page, 1) >= 1)
        BY <3>2, <3>5, <3>7, <4>1, DefaultFills
      <4>2. CASE Default(c, req[c].limit, 10) \notin 1..100
        BY <3>2, <3>5, <3>7, <4>2, DefaultFills
      <4> QED  BY <3>3, <4>1, <4>2
    <3> QED  BY <3>1, <3>6, <3>7
  <2> QED  BY <2>1 DEF InvalidHasCause
<1> QED  BY <1>1, SpecInv, PTL

(* The first end a client is told of is the only one of its call.          *)
THEOREM CallsEndOnce == Spec => EndsOnce
<1>1. ASSUME Inv, [Next]_vars
      PROVE  [\A c \in Calls :
                /\ answer[c] # None => answer'[c] \in {answer[c], None}
                /\ client[c] \in Ends => client'[c] \in {client[c], None}]_vars
  <2> DEFINE Once(c) == /\ answer[c] # None => answer'[c] \in {answer[c], None}
                        /\ client[c] \in Ends => client'[c] \in {client[c], None}
  <2>1. CASE UNCHANGED vars
    BY <2>1
  <2>2. ASSUME NEW d \in Calls, NEW m \in Methods \cup Routes, NEW r \in Request, Call(d, m, r)
        PROVE  \A c \in Calls : Once(c)
    BY <1>1, <2>2 DEF Call, Inv, Types, Local, ClientTrue, Ends, Codes
  <2>3. ASSUME NEW d \in Calls, HandlerStep(d) PROVE \A c \in Calls : Once(c)
    <3>1. client' = client /\ pc[d] # "ended"
      BY <2>3 DEF HandlerStep, Parse, Handle, Serve, Respond, Greet
    <3>2. \A c \in Calls \ {d} : answer'[c] = answer[c]
      BY <1>1, <2>3
      DEF HandlerStep, Parse, Handle, Serve, Respond, Greet, Continue, Begin, Finish, Inv, Types
    <3>3. answer[d] = None
      BY <1>1, <3>1 DEF Inv, Local, AnswerTrue
    <3> QED  BY <3>1, <3>2, <3>3
  <2>4. ASSUME NEW d \in Calls, Send(d) \/ Interrupt(d) \/ Return(d)
        PROVE  \A c \in Calls : Once(c)
    BY <1>1, <2>4 DEF Send, Interrupt, Return, Inv, Types, Ends, Codes
  <2> QED
    BY <1>1, <2>1, <2>2, <2>3, <2>4
    DEF Next, Step, Handler, RestHandler, GrpcHandler, HandlerStep
<1> QED  BY <1>1, SpecInv, PTL DEF Spec, EndsOnce
=============================================================================
