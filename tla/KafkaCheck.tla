------------------------------ MODULE KafkaCheck -----------------------------
(***************************************************************************)
(* CheckKafka (internal/handler/product_handler.go): every request opens a *)
(* producer of its own, sends one ping with a deadline of 3 s and answers  *)
(* whether that succeeded.  Any number of checks run side by side; brokers *)
(* come and go meanwhile.                                                  *)
(*                                                                         *)
(* queue.New, SendCtx and Close are external.  What the handler relies on: *)
(* SendCtx returns nil only if the broker answers, and returns an error no *)
(* later than its context expires.  Whether a ping that was reported as    *)
(* failed has arrived all the same is not told.                            *)
(***************************************************************************)
EXTENDS Naturals, FiniteSets

CONSTANTS
  Checks,      \* requests handled at one time
  Brokers,     \* brokers in reach of the service
  Local,       \* the one at localhost:9092
  None,        \* the environment variable KAFKA_BROKER is not set; no answer
  Deadline     \* of the send, in ticks (3 s)

(* CheckKafkaResponse: status true or false. *)
Status == {"connected", "failed"}

ASSUME CheckAssumption ==
  /\ Local \in Brokers
  /\ None \notin Brokers /\ None \notin Status
  /\ Deadline \in Nat \ {0}

VARIABLES
  env,      \* KAFKA_BROKER, read by every check and never changed
  up,       \* the brokers that answer
  pc,       \* where a check is
  status,   \* CheckKafkaResponse.Status
  timer,    \* ticks left to dialCtx
  open      \* the checks whose producer is open

vars == <<env, up, pc, status, timer, open>>

Init ==
  /\ env \in Brokers \cup {None}
  /\ up \in SUBSET Brokers
  /\ pc = [c \in Checks |-> "idle"]
  /\ status = [c \in Checks |-> None]
  /\ timer = [c \in Checks |-> 0]
  /\ open = {}

broker == IF env = None THEN Local ELSE env

-----------------------------------------------------------------------------
Begin(c) ==
  /\ pc[c] = "idle"
  /\ pc' = [pc EXCEPT ![c] = "new"]
  /\ UNCHANGED <<env, up, status, timer, open>>

(* The response the handler is going to return, once it has run what it    *)
(* deferred; its deadline is cancelled.                                    *)
Uncancelled(c, s, next) ==
  /\ pc' = [pc EXCEPT ![c] = next]
  /\ status' = [status EXCEPT ![c] = s]
  /\ UNCHANGED timer

Answering(c, s, next) ==
  /\ pc' = [pc EXCEPT ![c] = next]
  /\ status' = [status EXCEPT ![c] = s]
  /\ timer' = [timer EXCEPT ![c] = 0]

(* queue.New.  Without a producer there is nothing to close. *)
New(c) ==
  /\ pc[c] = "new"
  /\ \/ /\ pc' = [pc EXCEPT ![c] = "send"]
        /\ timer' = [timer EXCEPT ![c] = Deadline]
        /\ open' = open \cup {c}
        /\ UNCHANGED status
     \/ Answering(c, "failed", "reply") /\ UNCHANGED open
  /\ UNCHANGED <<env, up>>

Send(c) ==
  /\ pc[c] = "send"
  /\ broker \in up
  /\ Answering(c, "connected", "close")
  /\ UNCHANGED <<env, up, open>>

(* An error of SendCtx: the broker is away, the acknowledgement is lost,   *)
(* the request is cancelled.                                               *)
ReplyAtOnce(c) ==
  /\ pc[c] = "send"
  /\ Answering(c, "failed", "reply")
  /\ UNCHANGED <<env, up, open>>

SendFails(c) ==
  /\ pc[c] = "send"
  /\ Answering(c, "failed", "close")
  /\ UNCHANGED <<env, up, open>>

(* dialCtx expires: SendCtx returns now, whatever the broker does. *)
WaitForBroker(c) == timer[c] = 0 /\ broker \in up /\ SendFails(c)
Expire(c) == timer[c] = 0 /\ SendFails(c)

(* SendCtx panics: the deferred calls run, there is no response. *)
Panic(c) ==
  /\ pc[c] = "send"
  /\ Answering(c, None, "close")
  /\ UNCHANGED <<env, up, open>>

(* The deferred cancel and prod.Close. *)
Close(c) ==
  /\ pc[c] = "close"
  /\ pc' = [pc EXCEPT ![c] = "reply"]
  /\ open' = open \ {c}
  /\ UNCHANGED <<env, up, status, timer>>

Reply(c) ==
  /\ pc[c] = "reply"
  /\ pc' = [pc EXCEPT ![c] = "idle"]
  /\ status' = [status EXCEPT ![c] = None]
  /\ UNCHANGED <<env, up, timer, open>>

Tick ==
  /\ \E c \in Checks : timer[c] > 0
  /\ timer' = [c \in Checks |-> IF timer[c] > 0 THEN timer[c] - 1 ELSE 0]
  /\ UNCHANGED <<env, up, pc, status, open>>

(* A broker goes away or comes back. *)
Toggle(b) ==
  /\ up' = IF b \in up THEN up \ {b} ELSE up \cup {b}
  /\ UNCHANGED <<env, pc, status, timer, open>>

-----------------------------------------------------------------------------
Step(c) ==
  \/ Begin(c) \/ New(c) \/ Send(c) \/ SendFails(c) \/ Panic(c)
  \/ Close(c) \/ Reply(c)

Next == (\E c \in Checks : Step(c)) \/ Tick \/ \E b \in Brokers : Toggle(b)

Spec == Init /\ [][Next]_vars

(* The handler's goroutine runs and its context expires; whether a broker  *)
(* answers is not in its hands.                                            *)
Fairness ==
  /\ WF_vars(Tick)
  /\ \A c \in Checks :
       WF_vars(New(c)) /\ WF_vars(Expire(c)) /\ WF_vars(Close(c) \/ Reply(c))

FairSpec == Spec /\ Fairness

-----------------------------------------------------------------------------
(* Every variable has its type; a deadline runs only while its ping is     *)
(* being sent, and an answer is there only behind the send.                *)
TypeOK ==
  /\ env \in Brokers \cup {None}
  /\ up \subseteq Brokers
  /\ pc \in [Checks -> {"idle", "new", "send", "close", "reply"}]
  /\ status \in [Checks -> Status \cup {None}]
  /\ timer \in [Checks -> 0..Deadline]
  /\ open \subseteq Checks
  /\ \A c \in Checks : timer[c] > 0 => pc[c] = "send"
  /\ \A c \in Checks : status[c] # None => pc[c] \in {"close", "reply"}

(* No producer outlives its check, whichever of the four ways out of the   *)
(* send it takes, and none is closed that another check still uses.        *)
NoProducerLeaks ==
  \A c \in Checks : c \in open <=> pc[c] \in {"send", "close"}

(* Every check comes to its end, also where no broker ever answers. *)
EveryCheckEnds == \A c \in Checks : pc[c] = "new" ~> pc[c] = "idle"
=============================================================================
