-------------------------- MODULE KafkaCheckProofs ---------------------------
(***************************************************************************)
(* CheckKafka for any number of checks, any brokers and any deadline.      *)
(***************************************************************************)
EXTENDS KafkaCheck, TLAPS

USE CheckAssumption DEF Status

Inv == TypeOK /\ NoProducerLeaks

LEMMA InitInv == Init => Inv
  BY DEF Init, Inv, TypeOK, NoProducerLeaks, broker

LEMMA StepInv ==
  ASSUME Inv, [Next]_vars
  PROVE  Inv'
<1> USE DEF Inv, TypeOK, NoProducerLeaks, broker
<1>1. ASSUME NEW c \in Checks, Begin(c) PROVE Inv'
  BY <1>1 DEF Begin
<1>2. ASSUME NEW c \in Checks, New(c) PROVE Inv'
  BY <1>2 DEF New, Answering
<1>3. ASSUME NEW c \in Checks, Send(c) PROVE Inv'
  BY <1>3 DEF Send, Answering
<1>4. ASSUME NEW c \in Checks, SendFails(c) PROVE Inv'
  BY <1>4 DEF SendFails, Answering
<1>5. ASSUME NEW c \in Checks, Panic(c) PROVE Inv'
  BY <1>5 DEF Panic, Answering
<1>6. ASSUME NEW c \in Checks, Close(c) PROVE Inv'
  BY <1>6 DEF Close
<1>7. ASSUME NEW c \in Checks, Reply(c) PROVE Inv'
  BY <1>7 DEF Reply
<1>8. CASE Tick
  BY <1>8 DEF Tick
<1>9. ASSUME NEW b \in Brokers, Toggle(b) PROVE Inv'
  BY <1>9 DEF Toggle
<1>10. CASE UNCHANGED vars
  BY <1>10 DEF vars
<1> QED
  BY <1>1, <1>2, <1>3, <1>4, <1>5, <1>6, <1>7, <1>8, <1>9, <1>10
  DEF Next, Step

(* The types of CheckKafka's locals, and that no deadline outlives its     *)
(* send.                                                                   *)
THEOREM CheckTypeCorrect == Spec => []TypeOK
<1>1. Inv => TypeOK  BY DEF Inv
<1> QED  BY <1>1, InitInv, StepInv, PTL DEF Spec

(* CheckKafka closes its producer on every path, and only its own.         *)
THEOREM ProducersClosed == Spec => []NoProducerLeaks
<1>1. Inv => NoProducerLeaks  BY DEF Inv
<1> QED  BY <1>1, InitInv, StepInv, PTL DEF Spec
=============================================================================
