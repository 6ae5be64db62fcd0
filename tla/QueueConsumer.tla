---------------------------- MODULE QueueConsumer ----------------------------
(***************************************************************************)
(* The consumer process (cmd/consumer/main.go): a listener hands the       *)
(* messages of a topic to Handler.Consume (internal/consumer), several at  *)
(* one time, and acknowledges those for which Consume returns nil.         *)
(*                                                                         *)
(* The listeners are external.  The Kafka one acknowledges by offset: what *)
(* it commits is gone with everything before it.  The RabbitMQ one         *)
(* acknowledges each message for itself and puts back those that failed.   *)
(* Either delivers again what was not acknowledged, when the process has   *)
(* stopped and, while it runs on, when the group has given its partition   *)
(* to another of its consumers (etc/app.yaml: 3) or a connection to        *)
(* RabbitMQ is broken.  A message may then be in work twice.               *)
(***************************************************************************)
EXTENDS Naturals, FiniteSets

CONSTANTS
  MaxMsg,       \* bound: the messages of the topic are 1..MaxMsg
  Queues,       \* the queue names payloads carry
  Registered,   \* those Handler.consumers has a consumer for
  Processors,   \* the processors of all consumers (etc/app.yaml: 3 each)
  MaxFaults     \* bound: how often the process stops and is started again,
                \* or deliveries are taken over

Msgs == 1..MaxMsg
NoMsg == 0

ASSUME ConsumerAssumption ==
  /\ MaxMsg \in Nat
  /\ Registered \subseteq Queues
  /\ IsFiniteSet(Processors)
  /\ MaxFaults \in Nat

VARIABLES
  stack,      \* Config.Queue.Stack
  queueOf,    \* the queue name of every message
  running,    \* the listeners are started
  ready,      \* messages the broker will deliver to the process as it is
  held,       \* the message a processor is busy with
  work,       \* how far Consume is with it
  stale,      \* processors whose delivery has been taken over meanwhile
  acked,      \* messages the broker has acknowledged
  faults,     \* stops and takeovers so far
  offered,    \* history: how often the broker has offered a message again
  runs,       \* history: how often a consumer's Process was called with it
  done,       \* history: messages some consumer has processed to the end
  erred,      \* history: Process returned an error
  panicked    \* history: Process panicked

process    == <<stack, running>>
deliveries == <<held, work, stale>>
repeats    == <<faults, offered>>
history    == <<runs, done, erred, panicked>>
vars == <<process, queueOf, ready, deliveries, acked, repeats, history>>

Drivers == {"kafka", "rabbit"}

(* What Consume is about to do with a message, or has returned for it. *)
Work == {"none", "consume", "process", "nil", "error"}

Init ==
  /\ stack \in Drivers \cup {"other"}
  /\ queueOf \in [Msgs -> Queues]
  /\ running = FALSE
  /\ ready = Msgs
  /\ held = [p \in Processors |-> NoMsg]
  /\ work = [p \in Processors |-> "none"]
  /\ stale = {}
  /\ acked = {}
  /\ faults = 0
  /\ offered = [m \in Msgs |-> 0]
  /\ runs = [m \in Msgs |-> 0]
  /\ done = {} /\ erred = {} /\ panicked = {}

-----------------------------------------------------------------------------
(* main: a listener for the configured driver; without one the process     *)
(* ends (log.Fatal), however often it is started.                          *)
Start ==
  /\ ~running
  /\ stack \in Drivers
  /\ running' = TRUE
  /\ UNCHANGED <<stack, queueOf, ready, deliveries, acked, repeats, history>>

(* A free processor takes the next message. *)
Take(p) ==
  /\ running
  /\ work[p] = "none"
  /\ \E m \in ready :
       /\ \A n \in ready : m <= n
       /\ ready' = ready \ {m}
       /\ held' = [held EXCEPT ![p] = m]
       /\ work' = [work EXCEPT ![p] = "consume"]
  /\ UNCHANGED <<process, queueOf, stale, acked, repeats, history>>

Returns(p, result) == work' = [work EXCEPT ![p] = result] /\ UNCHANGED <<held, stale>>

(* A count of calls, up to RunCap: more than any property asks for. *)
RunCap == MaxFaults + 2
CountRun(m) == runs' = [runs EXCEPT ![m] = IF @ < RunCap THEN @ + 1 ELSE @]

(* Consume looks the consumer up by the queue name of the payload; without *)
(* one it returns nil.                                                     *)
Dispatch(p) ==
  /\ work[p] = "consume"
  /\ IF queueOf[held[p]] \in Registered
     THEN Returns(p, "process") /\ CountRun(held[p])
     ELSE Returns(p, "nil") /\ UNCHANGED runs
  /\ UNCHANGED <<process, queueOf, ready, acked, repeats, done, erred, panicked>>

Succeed(p) ==
  Returns(p, "nil") /\ done' = done \cup {held[p]} /\ UNCHANGED <<erred, panicked>>
FailAs(p, result) ==
  Returns(p, result) /\ erred' = erred \cup {held[p]} /\ UNCHANGED <<done, panicked>>

(* A panic ends Process wherever it is; the deferred recovery makes it the *)
(* nil error Consume returns.                                              *)
Recover(p) ==
  Returns(p, "nil") /\ panicked' = panicked \cup {held[p]} /\ UNCHANGED <<done, erred>>

Stop ==
  /\ running' = FALSE
  /\ held' = [p \in Processors |-> NoMsg]
  /\ work' = [p \in Processors |-> "none"]
  /\ stale' = {}

PanicStopsProcess(p) ==
  /\ work[p] = "process"
  /\ \/ (Succeed(p) \/ FailAs(p, "error")) /\ UNCHANGED <<running, ready>>
     \/ /\ panicked' = panicked \cup {held[p]}
        /\ Stop
        /\ ready' = Msgs \ acked
        /\ UNCHANGED <<done, erred>>
  /\ UNCHANGED <<stack, queueOf, acked, repeats, runs>>

SwallowError(p) ==
  /\ work[p] = "process"
  /\ Succeed(p) \/ Recover(p) \/ FailAs(p, "nil")
  /\ UNCHANGED <<process, queueOf, ready, acked, repeats, runs>>

RetryAtOnce(p) ==
  /\ work[p] = "process"
  /\ Succeed(p) \/ Recover(p) \/ FailAs(p, "consume")
  /\ UNCHANGED <<process, queueOf, ready, acked, repeats, runs>>

PublishAgain(p) ==
  /\ work[p] = "process"
  /\ \/ (Succeed(p) \/ Recover(p)) /\ UNCHANGED ready
     \/ FailAs(p, "error") /\ ready' = ready \cup {held[p]}
  /\ UNCHANGED <<process, queueOf, acked, repeats, runs>>

Process(p) ==
  /\ work[p] = "process"
  /\ Succeed(p) \/ FailAs(p, "error") \/ Recover(p)
  /\ UNCHANGED <<process, queueOf, ready, acked, repeats, runs>>

(* The processor is free again. *)
Free(p) ==
  /\ held' = [held EXCEPT ![p] = NoMsg]
  /\ work' = [work EXCEPT ![p] = "none"]
  /\ stale' = stale \ {p}

(* What is acknowledged once a delivery has been settled.  A Kafka offset  *)
(* covers what came before, and an earlier one committed later may set the *)
(* group back.  After a takeover a commit may still count or be refused;   *)
(* over a broken connection RabbitMQ hears nothing.                        *)
Settled(p) ==
  LET m == held[p] IN
  IF stack = "kafka"
  THEN {1..m, acked \cup 1..m} \cup IF p \in stale THEN {acked} ELSE {}
  ELSE {IF p \in stale THEN acked ELSE acked \cup {m}}

Acknowledge(p) ==
  /\ work[p] = "nil"
  /\ acked' \in Settled(p)
  /\ Free(p)
  /\ UNCHANGED <<process, queueOf, ready, repeats, history>>

(* After an error Kafka goes on with the next message; RabbitMQ puts the   *)
(* message back.                                                           *)
Reject(p) ==
  /\ work[p] = "error"
  /\ ready' = IF stack = "rabbit" /\ p \notin stale THEN ready \cup {held[p]} ELSE ready
  /\ Free(p)
  /\ UNCHANGED <<process, queueOf, acked, repeats, history>>

(* The broker delivers again what it has handed out and what is not        *)
(* acknowledged.                                                           *)
OfferAgain ==
  /\ faults < MaxFaults
  /\ faults' = faults + 1
  /\ ready' = Msgs \ acked
  /\ offered' = [m \in Msgs |->
                   IF m \in acked \cup ready THEN offered[m] ELSE offered[m] + 1]

(* The process stops, between any two steps. *)
Restart ==
  /\ running
  /\ Stop
  /\ OfferAgain
  /\ UNCHANGED <<stack, queueOf, acked, history>>

(* A rebalance of the group, or a broken connection: the processors go on  *)
(* with what they hold, not knowing that it is delivered again.            *)
TakeOver ==
  /\ running
  /\ stale' = {p \in Processors : work[p] # "none"}
  /\ OfferAgain
  /\ UNCHANGED <<process, queueOf, held, work, acked, history>>

-----------------------------------------------------------------------------
Step(p) ==
  Take(p) \/ Dispatch(p) \/ Process(p) \/ Acknowledge(p) \/ Reject(p)

Next == Start \/ Restart \/ TakeOver \/ \E p \in Processors : Step(p)

Spec == Init /\ [][Next]_vars

(* A process that stops is started again; a listener with a free processor *)
(* takes the next message; Process comes to an end.                        *)
Fairness ==
  /\ WF_vars(Start)
  /\ WF_vars(\E p \in Processors : Take(p))
  /\ \A p \in Processors :
       WF_vars(Dispatch(p) \/ Process(p) \/ Acknowledge(p) \/ Reject(p))

FairSpec == Spec /\ Fairness

-----------------------------------------------------------------------------
Fresh(p) == work[p] # "none" /\ p \notin stale

(* Every variable has its type.  But for deliveries that have been taken   *)
(* over, a message is either waiting or in work with one processor.        *)
TypeOK ==
  /\ stack \in Drivers \cup {"other"}
  /\ queueOf \in [Msgs -> Queues]
  /\ running \in BOOLEAN
  /\ ready \subseteq Msgs /\ acked \subseteq Msgs
  /\ held \in [Processors -> Msgs \cup {NoMsg}]
  /\ work \in [Processors -> Work]
  /\ faults \in 0..MaxFaults
  /\ offered \in [Msgs -> 0..MaxFaults]
  /\ runs \in [Msgs -> 0..RunCap]
  /\ done \subseteq Msgs /\ erred \subseteq Msgs /\ panicked \subseteq Msgs
  /\ \A p \in Processors : held[p] = NoMsg <=> work[p] = "none"
  /\ stale \subseteq {p \in Processors : work[p] # "none"}
  /\ \A p, q \in Processors : Fresh(p) /\ Fresh(q) /\ held[p] = held[q] => p = q
  /\ \A p \in Processors : Fresh(p) => held[p] \notin ready

Excused(m) == m \in done \/ m \in panicked \/ queueOf[m] \notin Registered

(* A message that is acknowledged without having been processed is one no  *)
(* consumer is registered for, one that panicked, or - with Kafka only -   *)
(* one the offset of a later message was committed over while it was still *)
(* in work or had failed.  In particular an error alone acknowledges       *)
(* nothing.                                                                *)
LossHasCause ==
  \A m \in acked :
    Excused(m) \/ (stack = "kafka" /\ \E n \in acked : n > m)

(* A message is processed again only because it was not acknowledged when  *)
(* the process stopped or its delivery was taken over, once for each time, *)
(* or because RabbitMQ has put it back after an error.                     *)
RepeatHasCause ==
  \A m \in Msgs :
    runs[m] <= offered[m] + 1 \/ (stack = "rabbit" /\ m \in erred)

(* With Kafka every message is got over with: no message that fails or     *)
(* panics, and none that is taken over, keeps the consumer from those      *)
(* behind it.                                                              *)
EveryMessageReached ==
  \A m \in Msgs : stack = "kafka" => <>(m \in acked \cup erred)
=============================================================================
