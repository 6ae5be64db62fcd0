------------------------------ MODULE Transport ------------------------------
(***************************************************************************)
(* A call of the Product API over REST (api/product/product_http.pb.go) or *)
(* gRPC (product_grpc.pb.go): the generated handler parses the request,    *)
(* ProductHandler validates it and calls the operation, the generated      *)
(* handler answers.                                                        *)
(*                                                                         *)
(* The servers around them are go-zero's and external: they run a handler  *)
(* in a goroutine of its own, send what it has answered once it has ended  *)
(* and turn its panic into an error.  When the deadline of a call passes   *)
(* or its client goes away they end the call at once, and the handler runs *)
(* on behind their back.                                                   *)
(***************************************************************************)
EXTENDS Validation, FiniteSets

CONSTANTS
  Calls,   \* calls in progress at one time
  Pages,   \* values of page a client sends
  Limits,  \* values of limit a client sends
  Absent,  \* a field the client leaves out
  None     \* no call, no answer

(* The operations and how they can be called: gRPC by Product_ServiceDesc, *)
(* REST by RegisterProductHTTPServer and the routes of the client handler. *)
Operations ==
  {"ListProducts", "GetProduct", "CreateProduct", "UpdateProduct",
   "DeleteProduct", "ExportProducts", "GetProductFromCache", "CheckKafka"}
ClientOperations == {"Detail", "Health"}

Methods == [via : {"grpc"}, op : Operations]
Routes  == [via : {"rest"}, op : Operations \cup ClientOperations]

(* Page and limit are all a rule looks at. *)
ListProductsRequest ==
  [op : {"ListProducts"}, page : Pages \cup {Absent}, limit : Limits \cup {Absent}]
OtherRequest == [op : (Operations \cup ClientOperations) \ {"ListProducts"}]
Request == ListProductsRequest \cup OtherRequest

Codes == {"ok", "empty", "malformed", "invalid", "error", "panic"}
Ends  == Codes \cup {"deadline", "cancelled"}

ASSUME TransportAssumption ==
  /\ Pages \subseteq Int /\ Limits \subseteq Int
  /\ Absent \notin Int
  /\ None \notin Request /\ None \notin Ends \cup {"waiting"}
  /\ Nil \notin OtherRequest \cup [op : {"ListProducts"}, page : Int, limit : Int]

VARIABLES
  via,      \* the server a call came to
  req,      \* its request
  pc,       \* where its handler is
  answer,   \* what the handler has answered
  client,   \* what the client has: nothing yet, or how the call has ended
  outcome   \* history: how the operation returned

vars == <<via, req, pc, answer, client, outcome>>

Init ==
  /\ via = [c \in Calls |-> None]
  /\ req = [c \in Calls |-> None]
  /\ pc = [c \in Calls |-> "none"]
  /\ answer = [c \in Calls |-> None]
  /\ client = [c \in Calls |-> None]
  /\ outcome = [c \in Calls |-> None]

-----------------------------------------------------------------------------
Call(c, m, r) ==
  /\ pc[c] = "none"
  /\ m.op = r.op
  /\ via' = [via EXCEPT ![c] = m.via]
  /\ req' = [req EXCEPT ![c] = r]
  /\ pc' = [pc EXCEPT ![c] = IF r.op \in ClientOperations THEN "hello" ELSE "parse"]
  /\ client' = [client EXCEPT ![c] = "waiting"]
  /\ UNCHANGED <<answer, outcome>>

Continue(c, next) == pc' = [pc EXCEPT ![c] = next] /\ UNCHANGED answer

(* The handler ends. *)
Finish(c, code) ==
  /\ pc' = [pc EXCEPT ![c] = "ended"]
  /\ answer' = [answer EXCEPT ![c] = code]

(* Health and Detail. *)
Greet(c) ==
  /\ pc[c] = "hello"
  /\ Finish(c, "ok")
  /\ UNCHANGED <<via, req, client, outcome>>

(* request.Parse gives what the client left out the default of its form    *)
(* tag.  A gRPC message is decoded as it is: what is absent is zero.       *)
NoDefault(c, value, default) == IF value = Absent THEN 0 ELSE value
Default(c, value, default) ==
  IF value # Absent THEN value ELSE IF via[c] = "rest" THEN default ELSE 0

in(c) ==
  IF req[c].op = "ListProducts"
  THEN [req[c] EXCEPT !.page = Default(c, @, 1), !.limit = Default(c, @, 10)]
  ELSE req[c]

ParseWithoutReturn(c) ==
  /\ pc[c] = "parse"
  /\ pc' = [pc EXCEPT ![c] = "handle"]
  /\ answer' = [answer EXCEPT ![c] = "malformed"] \/ UNCHANGED answer
  /\ UNCHANGED <<via, req, client, outcome>>

Parse(c) ==
  /\ pc[c] = "parse"
  /\ Continue(c, "handle") \/ Finish(c, "malformed")
  /\ UNCHANGED <<via, req, client, outcome>>

Begin(c) == Continue(c, "serve") /\ outcome' = [outcome EXCEPT ![c] = "begun"]

(* ProductHandler.  Exports and Kafka checks are not validated. *)
Unvalidated == {"ExportProducts", "CheckKafka"}
Accepted(c) == req[c].op \in Unvalidated \/ Validate(in(c)) = Nil

ValidateLater(c) ==
  /\ pc[c] = "handle"
  /\ \/ Accepted(c) /\ Begin(c)
     \/ /\ ~Accepted(c) /\ Finish(c, "invalid")
        /\ outcome' = [outcome EXCEPT ![c] = "begun"]
  /\ UNCHANGED <<via, req, client>>

Handle(c) ==
  /\ pc[c] = "handle"
  /\ \/ Accepted(c) /\ Begin(c)
     \/ ~Accepted(c) /\ Finish(c, "invalid") /\ UNCHANGED outcome
  /\ UNCHANGED <<via, req, client>>

(* The operation.  A panic ends the handler here. *)
Serve(c) ==
  /\ pc[c] = "serve"
  /\ \/ \E result \in {"ok", "error"} :
          Continue(c, "respond") /\ outcome' = [outcome EXCEPT ![c] = result]
     \/ Finish(c, "panic") /\ outcome' = [outcome EXCEPT ![c] = "panic"]
  /\ UNCHANGED <<via, req, client>>

(* The generated handler answers with the error or the response of the     *)
(* operation.  Where response.Write fails its error is logged, and the     *)
(* answer is what was written before: nothing, with the status of success. *)
AnswerRegardless(c) ==
  /\ pc[c] = "respond"
  /\ Finish(c, "ok") \/ (via[c] = "rest" /\ Finish(c, "empty"))
  /\ UNCHANGED <<via, req, client, outcome>>

RetryOnError(c) ==
  /\ pc[c] = "respond"
  /\ \/ outcome[c] = "error" /\ Continue(c, "serve")
     \/ outcome[c] = "ok" /\ Finish(c, "ok")
     \/ outcome[c] = "ok" /\ via[c] = "rest" /\ Finish(c, "empty")
  /\ UNCHANGED <<via, req, client, outcome>>

Respond(c) ==
  /\ pc[c] = "respond"
  /\ \/ outcome[c] = "error" /\ Finish(c, "error")
     \/ outcome[c] = "ok" /\ Finish(c, "ok")
     \/ outcome[c] = "ok" /\ via[c] = "rest" /\ Finish(c, "empty")
  /\ UNCHANGED <<via, req, client, outcome>>

(* The server sends the answer of a handler that has ended, unless it has  *)
(* ended the call before.                                                  *)
Send(c) ==
  /\ pc[c] = "ended"
  /\ client[c] = "waiting"
  /\ client' = [client EXCEPT ![c] = answer[c]]
  /\ UNCHANGED <<via, req, pc, answer, outcome>>

(* Deadline or disconnection, wherever the handler is. *)
Interrupt(c) ==
  /\ client[c] = "waiting"
  /\ \E end \in {"deadline", "cancelled"} : client' = [client EXCEPT ![c] = end]
  /\ UNCHANGED <<via, req, pc, answer, outcome>>

(* The call is over for the client, the handler and the server. *)
Return(c) ==
  /\ pc[c] = "ended"
  /\ client[c] # "waiting"
  /\ via' = [via EXCEPT ![c] = None]
  /\ req' = [req EXCEPT ![c] = None]
  /\ pc' = [pc EXCEPT ![c] = "none"]
  /\ answer' = [answer EXCEPT ![c] = None]
  /\ client' = [client EXCEPT ![c] = None]
  /\ outcome' = [outcome EXCEPT ![c] = None]

-----------------------------------------------------------------------------
(* The goroutine of a generated handler.  All REST handlers are the same   *)
(* but for the request and the operation, and so are all gRPC handlers.    *)
RestHandler(c) ==
  via[c] = "rest" /\ (Parse(c) \/ Handle(c) \/ Serve(c) \/ Respond(c))
GrpcHandler(c) ==
  via[c] = "grpc" /\ (Parse(c) \/ Handle(c) \/ Serve(c) \/ Respond(c))

Handler(c) == RestHandler(c) \/ GrpcHandler(c) \/ Greet(c)

Step(c) == Handler(c) \/ Send(c) \/ Return(c)

Next ==
  \E c \in Calls :
    \/ \E m \in Methods \cup Routes, r \in Request : Call(c, m, r)
    \/ Step(c)
    \/ Interrupt(c)

Spec == Init /\ [][Next]_vars

(* The goroutine of a handler runs, and its operation returns or panics,   *)
(* each by its own deadline; the server sends what was answered.  That a   *)
(* call is interrupted is not relied on.                                   *)
FairSpec == Spec /\ \A c \in Calls : WF_vars(Handler(c)) /\ WF_vars(Send(c))

-----------------------------------------------------------------------------
(* Every variable has its type; a handler has an answer when it has ended, *)
(* and only then.                                                          *)
TypeOK ==
  /\ req \in [Calls -> Request \cup {None}]
  /\ via \in [Calls -> {"rest", "grpc", None}]
  /\ pc \in [Calls -> {"none", "hello", "parse", "handle", "serve", "respond", "ended"}]
  /\ answer \in [Calls -> Codes \cup {None}]
  /\ client \in [Calls -> Ends \cup {"waiting", None}]
  /\ outcome \in [Calls -> {"begun", "ok", "error", "panic", None}]
  /\ \A c \in Calls :
       /\ answer[c] # None <=> pc[c] = "ended"
       /\ client[c] = None <=> pc[c] = "none"

(* A client that is told its request was malformed or invalid knows that   *)
(* nothing was done.                                                       *)
RefusedMeansUntouched ==
  \A c \in Calls : client[c] \in {"malformed", "invalid"} => outcome[c] = None

(* A request is only called invalid for what the client has sent, or, over *)
(* gRPC, has left out: the defaults REST fills in are valid.               *)
InvalidHasCause ==
  \A c \in Calls : client[c] = "invalid" =>
    /\ req[c].op = "ListProducts"
    /\ \/ req[c].page # Absent /\ req[c].page < 1
       \/ req[c].limit # Absent /\ req[c].limit \notin 1..100
       \/ via[c] = "grpc" /\ Absent \in {req[c].page, req[c].limit}

(* The generated handlers pass on what the operation returned: a success   *)
(* is only reported of an operation that returned no error, even if the    *)
(* response could not be written, and an error or a panic only of one that *)
(* ended so.  (An operation that returns no error need not have done what  *)
(* it was asked to: UpdateProduct returns none where the UPDATE failed.)   *)
ToldAsReturned ==
  \A c \in Calls : client[c] \in Codes /\ req[c].op \in Operations =>
    /\ client[c] \in {"ok", "empty"} => outcome[c] = "ok"
    /\ client[c] \in {"error", "panic"} => outcome[c] = client[c]

(* No listing reaches the operation with a page or a limit out of range,   *)
(* over either transport, whatever is left out.                            *)
OnlyValidServed ==
  \A c \in Calls :
    pc[c] = "serve" /\ req[c].op = "ListProducts" =>
      in(c).page >= 1 /\ in(c).limit \in 1..100

(* A call ends once: no handler answers a second time, having forgotten to *)
(* return after the first answer, and no late answer replaces the deadline *)
(* its client was already told of.                                         *)
EndsOnce ==
  [][\A c \in Calls :
       /\ answer[c] # None => answer'[c] \in {answer[c], None}
       /\ client[c] \in Ends => client'[c] \in {client[c], None}]_vars

(* Every client gets an end to its call, also where nothing interrupts it: *)
(* no way through a generated handler leaves it without an answer.         *)
EveryCallEnds == \A c \in Calls : client[c] = "waiting" ~> client[c] # "waiting"
=============================================================================
