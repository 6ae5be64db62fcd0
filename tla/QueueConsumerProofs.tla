------------------------ MODULE QueueConsumerProofs --------------------------
(***************************************************************************)
(* The consumer process for any number of messages, queues, processors,    *)
(* restarts and takeovers.                                                 *)
(***************************************************************************)
EXTENDS QueueConsumer, FiniteSetTheorems, TLAPS

USE ConsumerAssumption

-----------------------------------------------------------------------------
(* The inductive invariant. *)

(* Consume returned nil only for a message that has an excuse, and an error*)
(* only where its consumer did.                                            *)
Verdicts ==
  \A p \in Processors :
    /\ work[p] = "nil" => Excused(held[p])
    /\ work[p] = "error" => held[p] \in erred

(* A message that waits, or that a processor is about to dispatch, has a   *)
(* run to go for each of those.                                            *)
Pending(m) == {p \in Processors : work[p] = "consume" /\ held[p] = m}
Waiting(m) == IF m \in ready THEN 1 ELSE 0
Repeatable(m) == stack = "rabbit" /\ m \in erred
HasRunsLeft(m) == runs[m] + Cardinality(Pending(m)) + Waiting(m) <= offered[m] + 1
RunsLeft == \A m \in Msgs : Repeatable(m) \/ HasRunsLeft(m)

(* A message is offered again by a fault. *)
FewOffers == \A m \in Msgs : offered[m] <= faults

Inv == TypeOK /\ FewOffers /\ Verdicts /\ RunsLeft /\ LossHasCause

(* Who is about to dispatch a message is a finite set. *)
LEMMA PendingFinite ==
  ASSUME NEW m
  PROVE  IsFiniteSet(Pending(m)) /\ Cardinality(Pending(m)) \in Nat
<1>1. IsFiniteSet(Pending(m))
  BY FS_Subset DEF Pending
<1> QED BY <1>1, FS_CardinalityType

(* Where the waiting, the pending and the runs of a message stay as they   *)
(* are, or grow fewer, it keeps its runs.                                  *)
LEMMA FewerLeft ==
  ASSUME TypeOK, NEW m \in Msgs, HasRunsLeft(m), Pending(m)' \subseteq Pending(m),
         Waiting(m)' <= Waiting(m), runs'[m] = runs[m], offered'[m] = offered[m]
  PROVE  HasRunsLeft(m)'
<1>1. /\ Cardinality(Pending(m)') <= Cardinality(Pending(m))
      /\ Cardinality(Pending(m)') \in Nat
  BY PendingFinite, FS_Subset, FS_CardinalityType
<1>2. /\ runs[m] \in Nat /\ offered[m] \in Nat /\ Cardinality(Pending(m)) \in Nat
      /\ Waiting(m) \in Nat /\ Waiting(m)' \in Nat
  BY PendingFinite DEF TypeOK, RunCap, Waiting
<1>3. HasRunsLeft(m)' <=>
        runs'[m] + Cardinality(Pending(m)') + Waiting(m)' <= offered'[m] + 1
  BY DEF HasRunsLeft
<1> QED BY <1>1, <1>2, <1>3 DEF HasRunsLeft

LEMMA InitInv == Init => Inv
<1> SUFFICES ASSUME Init PROVE Inv
  OBVIOUS
<1>1. /\ work \in [Processors -> Work] /\ held \in [Processors -> Msgs \cup {NoMsg}]
      /\ \A p \in Processors : work[p] = "none" /\ held[p] = NoMsg
  BY DEF Init, Work
<1>2. /\ runs \in [Msgs -> 0..RunCap] /\ offered \in [Msgs -> 0..MaxFaults]
      /\ \A m \in Msgs : runs[m] = 0 /\ offered[m] = 0
      /\ faults = 0 /\ faults \in 0..MaxFaults
  BY DEF Init, RunCap
<1>3. TypeOK
  BY <1>1, <1>2 DEF Init, TypeOK, Fresh
<1>4. FewOffers /\ Verdicts /\ LossHasCause
  BY <1>1, <1>2 DEF Init, FewOffers, Verdicts, LossHasCause
<1>5. ASSUME NEW m \in Msgs PROVE HasRunsLeft(m)
  <2>1. Pending(m) = {}
    BY <1>1 DEF Pending
  <2>2. Cardinality(Pending(m)) = 0
    BY <2>1, FS_EmptySet
  <2> QED BY <1>2, <2>2 DEF HasRunsLeft, Waiting
<1> QED BY <1>3, <1>4, <1>5 DEF Inv, RunsLeft

-----------------------------------------------------------------------------
(* The steps of a processor. *)

LEMMA TakeInv == ASSUME Inv, NEW p \in Processors, Take(p) PROVE Inv'
<1> PICK m \in ready : /\ ready' = ready \ {m}
                       /\ held' = [held EXCEPT ![p] = m]
                       /\ work' = [work EXCEPT ![p] = "consume"]
  BY DEF Take
<1>0. /\ TypeOK /\ m \in Msgs /\ work[p] = "none" /\ stale' = stale
      /\ p \notin stale
      /\ UNCHANGED <<process, queueOf, acked, repeats, history>>
  BY DEF Inv, Take, TypeOK
<1>1. /\ held'[p] = m /\ work'[p] = "consume"
      /\ \A q \in Processors \ {p} : held'[q] = held[q] /\ work'[q] = work[q]
  BY <1>0 DEF TypeOK
<1>2. TypeOK'
  <2>1. held' \in [Processors -> Msgs \cup {NoMsg}] /\ work' \in [Processors -> Work]
    BY <1>0 DEF TypeOK, Work
  <2>2. \A q \in Processors : held'[q] = NoMsg <=> work'[q] = "none"
    BY <1>0, <1>1 DEF TypeOK, Msgs, NoMsg
  <2>3. \A q \in Processors : Fresh(q) => held[q] # m
    BY <1>0 DEF TypeOK
  <2>4. \A q \in Processors \ {p} : Fresh(q)' <=> Fresh(q)
    BY <1>0, <1>1 DEF Fresh
  <2>5. \A q, r \in Processors : Fresh(q)' /\ Fresh(r)' /\ held'[q] = held'[r] => q = r
    BY <1>0, <1>1, <2>3, <2>4 DEF TypeOK
  <2>6. \A q \in Processors : Fresh(q)' => held'[q] \notin ready'
    BY <1>0, <1>1, <2>3, <2>4 DEF TypeOK
  <2>7. ready' \subseteq Msgs
    BY <1>0 DEF TypeOK
  <2>8. stale' \subseteq {q \in Processors : work'[q] # "none"}
    BY <1>0, <1>1 DEF TypeOK
  <2> QED BY <1>0, <2>1, <2>2, <2>5, <2>6, <2>7, <2>8
          DEF TypeOK, process, repeats, history, RunCap
<1>3. FewOffers' /\ LossHasCause'
  BY <1>0 DEF Inv, FewOffers, LossHasCause, Excused, process, repeats, history
<1>4. Verdicts'
  BY <1>0, <1>1 DEF Inv, Verdicts, Excused, history
<1>5. ASSUME NEW n \in Msgs, ~Repeatable(n)' PROVE HasRunsLeft(n)'
  <2>1. HasRunsLeft(n) /\ runs'[n] = runs[n] /\ offered'[n] = offered[n]
    BY <1>0, <1>5 DEF Inv, RunsLeft, Repeatable, process, history, repeats
  <2>2. CASE n # m
    <3>1. Pending(n)' \subseteq Pending(n) /\ Waiting(n)' <= Waiting(n)
      BY <1>1, <2>2 DEF Pending, Waiting
    <3> QED BY <1>0, <2>1, <3>1, FewerLeft
  <2>3. CASE n = m
    <3>1. Pending(n)' = Pending(n) \cup {p} /\ p \notin Pending(n)
      BY <1>0, <1>1, <2>3 DEF Pending
    <3>2. Cardinality(Pending(n)') = Cardinality(Pending(n)) + 1
      BY <3>1, PendingFinite, FS_AddElement
    <3>3. Waiting(n) = 1 /\ Waiting(n)' = 0
      BY <2>3 DEF Waiting
    <3>4. /\ runs[n] \in Nat /\ offered[n] \in Nat
          /\ Cardinality(Pending(n)) \in Nat
      BY <1>0, PendingFinite DEF TypeOK, RunCap
    <3> QED BY <2>1, <3>2, <3>3, <3>4 DEF HasRunsLeft
  <2> QED BY <2>2, <2>3
<1> QED BY <1>2, <1>3, <1>4, <1>5 DEF Inv, RunsLeft

(* What a step of Consume leaves alone: the delivery itself. *)
LEMMA ReturnsType ==
  ASSUME TypeOK, NEW p \in Processors, NEW result \in Work \ {"none"},
         work[p] # "none", Returns(p, result),
         UNCHANGED <<process, queueOf, ready, acked, repeats>>,
         runs' \in [Msgs -> 0..RunCap],
         done' \subseteq Msgs, erred' \subseteq Msgs, panicked' \subseteq Msgs
  PROVE  /\ TypeOK'
         /\ held[p] \in Msgs /\ work'[p] = result
         /\ \A q \in Processors \ {p} : work'[q] = work[q]
<1>1. /\ work'[p] = result /\ held' = held /\ stale' = stale
      /\ \A q \in Processors \ {p} : work'[q] = work[q]
      /\ work' \in [Processors -> Work]
  BY DEF TypeOK, Returns
<1>2. \A q \in Processors : work'[q] = "none" <=> work[q] = "none"
  BY <1>1
<1>3. \A q \in Processors : Fresh(q)' <=> Fresh(q)
  BY <1>1, <1>2 DEF Fresh
<1>4. held[p] \in Msgs
  BY DEF TypeOK
<1> QED BY <1>1, <1>2, <1>3, <1>4 DEF TypeOK, process, repeats, RunCap

LEMMA DispatchInv == ASSUME Inv, NEW p \in Processors, Dispatch(p) PROVE Inv'
<1> DEFINE m == held[p]
<1> DEFINE result == IF queueOf[m] \in Registered THEN "process" ELSE "nil"
<1>0. /\ TypeOK /\ m \in Msgs /\ work[p] = "consume" /\ Returns(p, result)
      /\ UNCHANGED <<process, queueOf, ready, acked, repeats, done, erred, panicked>>
  BY DEF Inv, Dispatch, TypeOK
<1>1. /\ runs' \in [Msgs -> 0..RunCap]
      /\ \A n \in Msgs \ {m} : runs'[n] = runs[n]
      /\ runs'[m] \in Nat /\ runs'[m] <= runs[m] + 1
  BY <1>0 DEF Dispatch, CountRun, TypeOK, RunCap
<1>2. /\ TypeOK' /\ work'[p] = result /\ held' = held
      /\ \A q \in Processors \ {p} : work'[q] = work[q]
  BY <1>0, <1>1, ReturnsType DEF Work, TypeOK, Returns
<1>3. FewOffers' /\ LossHasCause'
  BY <1>0 DEF Inv, FewOffers, LossHasCause, Excused, process, repeats
<1>4. Verdicts'
  BY <1>0, <1>2 DEF Inv, Verdicts, Excused
<1>5. ASSUME NEW n \in Msgs, ~Repeatable(n)' PROVE HasRunsLeft(n)'
  <2>1. HasRunsLeft(n) /\ offered'[n] = offered[n] /\ Waiting(n)' = Waiting(n)
    BY <1>0, <1>5 DEF Inv, RunsLeft, Repeatable, process, repeats, Waiting
  <2>2. CASE n # m
    <3>1. Pending(n)' \subseteq Pending(n) /\ Waiting(n) \in Nat
      BY <1>2, <2>2 DEF Pending, Waiting
    <3>2. runs'[n] = runs[n] /\ Waiting(n)' <= Waiting(n)
      BY <1>1, <2>1, <2>2, <3>1
    <3> QED BY <1>0, <2>1, <3>1, <3>2, FewerLeft
  <2>3. CASE n = m
    <3>1. Pending(n)' = Pending(n) \ {p} /\ p \in Pending(n)
      BY <1>0, <1>2, <2>3 DEF Pending
    <3>2. Cardinality(Pending(n)') = Cardinality(Pending(n)) - 1
      BY <3>1, PendingFinite, FS_RemoveElement
    <3>3. /\ runs[n] \in Nat /\ offered[n] \in Nat /\ Waiting(n) \in Nat
          /\ Cardinality(Pending(n)) \in Nat
      BY <1>0, PendingFinite DEF TypeOK, RunCap, Waiting
    <3> HIDE DEF m
    <3>4. runs'[n] \in Nat /\ runs'[n] <= runs[n] + 1
      BY <1>1, <2>3
    <3> QED BY <2>1, <3>2, <3>3, <3>4 DEF HasRunsLeft
  <2> QED BY <2>2, <2>3
<1> QED BY <1>2, <1>3, <1>4, <1>5 DEF Inv, RunsLeft

LEMMA ProcessInv == ASSUME Inv, NEW p \in Processors, Process(p) PROVE Inv'
<1> DEFINE m == held[p]
<1>0. /\ TypeOK /\ m \in Msgs /\ work[p] = "process"
      /\ UNCHANGED <<process, queueOf, ready, acked, repeats, runs>>
  BY DEF Inv, Process, TypeOK
<1>1. /\ done \subseteq done' /\ done' \subseteq done \cup {m}
      /\ erred \subseteq erred' /\ erred' \subseteq erred \cup {m}
      /\ panicked \subseteq panicked' /\ panicked' \subseteq panicked \cup {m}
  BY DEF Process, Succeed, FailAs, Recover
<1>2. \/ Returns(p, "nil") /\ (m \in done' \/ m \in panicked')
      \/ Returns(p, "error") /\ m \in erred'
  BY DEF Process, Succeed, FailAs, Recover
<1>3. PICK result \in {"nil", "error"} :
        /\ Returns(p, result)
        /\ result = "nil" => m \in done' \/ m \in panicked'
        /\ result = "error" => m \in erred'
  BY <1>2
<1>4. done' \subseteq Msgs /\ erred' \subseteq Msgs /\ panicked' \subseteq Msgs
  BY <1>0, <1>1 DEF TypeOK
<1>5. runs' \in [Msgs -> 0..RunCap]
  BY <1>0 DEF TypeOK
<1>6. /\ TypeOK' /\ work'[p] = result /\ held' = held
      /\ \A q \in Processors \ {p} : work'[q] = work[q]
  BY <1>0, <1>3, <1>4, <1>5, ReturnsType DEF Work, Returns
<1>7. FewOffers' /\ LossHasCause'
  BY <1>0, <1>1 DEF Inv, FewOffers, LossHasCause, Excused, process, repeats
<1>8. Verdicts'
  BY <1>0, <1>1, <1>3, <1>6 DEF Inv, Verdicts, Excused
<1>9. ASSUME NEW n \in Msgs, ~Repeatable(n)' PROVE HasRunsLeft(n)'
  <2>1. /\ HasRunsLeft(n) /\ offered'[n] = offered[n] /\ runs'[n] = runs[n]
        /\ Waiting(n)' = Waiting(n) /\ Waiting(n) \in Nat
    BY <1>0, <1>1, <1>9 DEF Inv, RunsLeft, Repeatable, process, repeats, Waiting
  <2>2. Pending(n)' \subseteq Pending(n)
    BY <1>6 DEF Pending
  <2> QED BY <1>0, <2>1, <2>2, FewerLeft
<1> QED BY <1>6, <1>7, <1>8, <1>9 DEF Inv, RunsLeft

(* A processor that has settled its delivery is free; the others go on. *)
LEMMA FreeFacts ==
  ASSUME TypeOK, NEW p \in Processors, Free(p)
  PROVE  /\ held' \in [Processors -> Msgs \cup {NoMsg}]
         /\ work' \in [Processors -> Work]
         /\ work'[p] = "none" /\ held'[p] = NoMsg
         /\ \A q \in Processors \ {p} : work'[q] = work[q] /\ held'[q] = held[q]
         /\ \A q \in Processors : held'[q] = NoMsg <=> work'[q] = "none"
         /\ stale' \subseteq {q \in Processors : work'[q] # "none"}
         /\ ~Fresh(p)' /\ \A q \in Processors \ {p} : Fresh(q)' <=> Fresh(q)
         /\ \A n : Pending(n)' \subseteq Pending(n)
<1>1. /\ held' \in [Processors -> Msgs \cup {NoMsg}] /\ work' \in [Processors -> Work]
      /\ work'[p] = "none" /\ held'[p] = NoMsg
      /\ \A q \in Processors \ {p} : work'[q] = work[q] /\ held'[q] = held[q]
  BY DEF TypeOK, Free, Work
<1>2. stale' = stale \ {p}
  BY DEF Free
<1>3. \A q \in Processors : held'[q] = NoMsg <=> work'[q] = "none"
  BY <1>1 DEF TypeOK
<1>4. stale' \subseteq {q \in Processors : work'[q] # "none"}
  BY <1>1, <1>2 DEF TypeOK
<1>5. ~Fresh(p)' /\ \A q \in Processors \ {p} : Fresh(q)' <=> Fresh(q)
  BY <1>1, <1>2 DEF Fresh
<1>6. ASSUME NEW n PROVE Pending(n)' \subseteq Pending(n)
  BY <1>1 DEF Pending
<1> QED BY <1>1, <1>3, <1>4, <1>5, <1>6

LEMMA AcknowledgeInv == ASSUME Inv, NEW p \in Processors, Acknowledge(p) PROVE Inv'
<1> PICK m \in Msgs : m = held[p]
  BY DEF Inv, Acknowledge, TypeOK
<1>0. /\ TypeOK /\ m \in Msgs /\ work[p] = "nil" /\ Free(p) /\ Excused(m)
      /\ UNCHANGED <<process, queueOf, ready, repeats, history>>
  BY DEF Inv, Acknowledge, TypeOK, Verdicts
<1>1. /\ acked' \subseteq acked \cup 1..m /\ 1..m \subseteq Msgs
      /\ \/ acked' = acked
         \/ acked' = acked \cup {m}
         \/ stack = "kafka" /\ m \in acked' /\ acked' \in {1..m, acked \cup 1..m}
  BY <1>0 DEF Acknowledge, Settled, Msgs
<1>2. TypeOK'
  <2>1. acked' \subseteq Msgs
    BY <1>0, <1>1 DEF TypeOK
  <2> QED BY <1>0, <2>1, FreeFacts DEF TypeOK, process, repeats, history, RunCap
<1>3. FewOffers'
  BY <1>0 DEF Inv, FewOffers, repeats
<1>4. Verdicts'
  BY <1>0, FreeFacts DEF Inv, Verdicts, Excused, history
<1>5. ASSUME NEW n \in acked'
      PROVE  Excused(n)' \/ (stack' = "kafka" /\ \E k \in acked' : k > n)
  <2>1. Excused(m)' /\ stack' = stack /\ (Excused(n) => Excused(n)')
    BY <1>0 DEF Excused, process, history
  <2>2. CASE n = m
    BY <2>1, <2>2
  <2>3. CASE n # m /\ n \in 1..m /\ stack = "kafka" /\ m \in acked'
    <3>1. m > n
      BY <1>0, <2>3 DEF Msgs
    <3> QED BY <2>1, <2>3, <3>1
  <2>4. CASE n \in acked /\ acked \subseteq acked'
    BY <2>1, <2>4 DEF Inv, LossHasCause
  <2> QED BY <1>1, <2>2, <2>3, <2>4
<1>6. LossHasCause'
  BY <1>5 DEF LossHasCause
<1>7. ASSUME NEW n \in Msgs, ~Repeatable(n)' PROVE HasRunsLeft(n)'
  <2>1. /\ HasRunsLeft(n) /\ offered'[n] = offered[n] /\ runs'[n] = runs[n]
        /\ Waiting(n)' = Waiting(n) /\ Waiting(n) \in Nat
    BY <1>0, <1>7 DEF Inv, RunsLeft, Repeatable, process, repeats, history, Waiting
  <2> QED BY <1>0, <2>1, FreeFacts, FewerLeft
<1> QED BY <1>2, <1>3, <1>4, <1>6, <1>7 DEF Inv, RunsLeft

LEMMA RejectInv == ASSUME Inv, NEW p \in Processors, Reject(p) PROVE Inv'
<1> DEFINE m == held[p]
<1>0. /\ TypeOK /\ m \in Msgs /\ work[p] = "error" /\ Free(p) /\ m \in erred
      /\ UNCHANGED <<process, queueOf, acked, repeats, history>>
  BY DEF Inv, Reject, TypeOK, Verdicts
<1>1. \/ ready' = ready
      \/ stack = "rabbit" /\ Fresh(p) /\ ready' = ready \cup {m}
  BY <1>0 DEF Reject, Fresh
<1>2. TypeOK'
  <2>1. ready' \subseteq Msgs
    BY <1>0, <1>1 DEF TypeOK
  <2>2. \A q \in Processors : Fresh(q)' => held'[q] \notin ready'
    BY <1>0, <1>1, FreeFacts DEF TypeOK
  <2> QED BY <1>0, <2>1, <2>2, FreeFacts DEF TypeOK, process, repeats, history, RunCap
<1>3. FewOffers' /\ LossHasCause'
  BY <1>0 DEF Inv, FewOffers, LossHasCause, Excused, process, repeats, history
<1>4. Verdicts'
  BY <1>0, FreeFacts DEF Inv, Verdicts, Excused, history
<1>5. ASSUME NEW n \in Msgs, ~Repeatable(n)' PROVE HasRunsLeft(n)'
  <2>1. HasRunsLeft(n) /\ offered'[n] = offered[n] /\ runs'[n] = runs[n]
    BY <1>0, <1>5 DEF Inv, RunsLeft, Repeatable, process, repeats, history
  <2>2. n \in ready' <=> n \in ready
    BY <1>0, <1>1, <1>5 DEF Repeatable, process, history
  <2>3. Waiting(n)' <= Waiting(n)
    BY <2>2 DEF Waiting
  <2> QED BY <1>0, <2>1, <2>3, FreeFacts, FewerLeft
<1> QED BY <1>2, <1>3, <1>4, <1>5 DEF Inv, RunsLeft

-----------------------------------------------------------------------------
(* Stops and takeovers. *)

(* Each of them has a run to go with every offer. *)
LEMMA OfferLeavesRuns ==
  ASSUME Inv, OfferAgain, UNCHANGED runs,
         NEW m \in Msgs, HasRunsLeft(m), Pending(m)' \subseteq Pending(m)
  PROVE  HasRunsLeft(m)'
<1>1. /\ Cardinality(Pending(m)') <= Cardinality(Pending(m))
      /\ Cardinality(Pending(m)') \in Nat /\ Cardinality(Pending(m)) \in Nat
  BY PendingFinite, FS_Subset, FS_CardinalityType
<1>2. /\ runs[m] \in Nat /\ offered[m] \in Nat /\ runs' = runs
      /\ offered'[m] = IF m \in acked \cup ready THEN offered[m] ELSE offered[m] + 1
      /\ m \in ready' <=> m \notin acked
  BY DEF Inv, TypeOK, RunCap, OfferAgain
<1>3. Waiting(m)' - offered'[m] <= Waiting(m) - offered[m]
  BY <1>2 DEF Waiting
<1>4. Waiting(m)' \in Nat /\ Waiting(m) \in Nat /\ offered'[m] \in Nat
  BY <1>2 DEF Waiting
<1>5. HasRunsLeft(m)' <=>
        runs'[m] + Cardinality(Pending(m)') + Waiting(m)' <= offered'[m] + 1
  BY DEF HasRunsLeft
<1> QED BY <1>1, <1>2, <1>3, <1>4, <1>5 DEF HasRunsLeft

LEMMA OfferTypes ==
  ASSUME Inv, OfferAgain
  PROVE  /\ ready' \subseteq Msgs /\ faults' \in 0..MaxFaults
         /\ offered' \in [Msgs -> 0..MaxFaults] /\ FewOffers'
<1>1. ready' \subseteq Msgs /\ faults' \in 0..MaxFaults /\ faults' = faults + 1
  BY DEF Inv, TypeOK, OfferAgain
<1>2. ASSUME NEW m \in Msgs
      PROVE  offered'[m] \in 0..MaxFaults /\ offered'[m] <= faults'
  BY <1>1 DEF Inv, TypeOK, FewOffers, OfferAgain
<1>3. offered' = [m \in Msgs |-> offered'[m]]
  BY DEF OfferAgain
<1> QED BY <1>1, <1>2, <1>3 DEF FewOffers

LEMMA RestartInv == ASSUME Inv, Restart PROVE Inv'
<1>0. TypeOK /\ OfferAgain /\ UNCHANGED <<stack, queueOf, acked, history>>
  BY DEF Inv, Restart
<1>1. /\ held' \in [Processors -> Msgs \cup {NoMsg}] /\ work' \in [Processors -> Work]
      /\ \A p \in Processors : work'[p] = "none" /\ held'[p] = NoMsg
      /\ stale' = {} /\ running' \in BOOLEAN
  BY DEF Restart, Stop, Work
<1>2. TypeOK'
  BY <1>0, <1>1, OfferTypes DEF TypeOK, Fresh, history, RunCap
<1>3. LossHasCause' /\ Verdicts'
  BY <1>0, <1>1 DEF Inv, LossHasCause, Verdicts, Excused, history
<1>4. ASSUME NEW m \in Msgs, ~Repeatable(m)' PROVE HasRunsLeft(m)'
  <2>1. HasRunsLeft(m) /\ runs' = runs
    BY <1>0, <1>4 DEF Inv, RunsLeft, Repeatable, history
  <2>2. Pending(m)' \subseteq Pending(m)
    BY <1>1 DEF Pending
  <2> QED BY <1>0, <2>1, <2>2, OfferLeavesRuns
<1> QED BY <1>0, <1>2, <1>3, <1>4, OfferTypes DEF Inv, RunsLeft

LEMMA TakeOverInv == ASSUME Inv, TakeOver PROVE Inv'
<1>0. /\ TypeOK /\ OfferAgain
      /\ UNCHANGED <<process, queueOf, held, work, acked, history>>
      /\ stale' = {p \in Processors : work[p] # "none"}
  BY DEF Inv, TakeOver
<1>1. \A p \in Processors : ~Fresh(p)'
  BY <1>0 DEF Fresh
<1>2. TypeOK'
  BY <1>0, <1>1, OfferTypes DEF TypeOK, process, history, RunCap
<1>3. LossHasCause' /\ Verdicts'
  BY <1>0 DEF Inv, LossHasCause, Verdicts, Excused, process, history
<1>4. ASSUME NEW m \in Msgs, ~Repeatable(m)' PROVE HasRunsLeft(m)'
  <2>1. HasRunsLeft(m) /\ runs' = runs
    BY <1>0, <1>4 DEF Inv, RunsLeft, Repeatable, process, history
  <2>2. Pending(m)' \subseteq Pending(m)
    BY <1>0 DEF Pending
  <2> QED BY <1>0, <2>1, <2>2, OfferLeavesRuns
<1> QED BY <1>0, <1>2, <1>3, <1>4, OfferTypes DEF Inv, RunsLeft

LEMMA IdleInv ==
  ASSUME Inv, UNCHANGED <<stack, queueOf, ready, deliveries, acked, repeats, history>>,
         running' \in BOOLEAN
  PROVE  Inv'
<1> USE DEF deliveries, repeats, history
<1>1. TypeOK'
  BY DEF Inv, TypeOK, Fresh, RunCap
<1>2. FewOffers' /\ Verdicts' /\ LossHasCause'
  BY DEF Inv, FewOffers, Verdicts, LossHasCause, Excused
<1>3. ASSUME NEW m \in Msgs, ~Repeatable(m)' PROVE HasRunsLeft(m)'
  <2>1. HasRunsLeft(m) /\ runs' = runs /\ offered' = offered
    BY <1>3 DEF Inv, RunsLeft, Repeatable
  <2>2. Pending(m)' \subseteq Pending(m) /\ Waiting(m)' <= Waiting(m)
    BY DEF Pending, Waiting
  <2> QED BY <2>1, <2>2, FewerLeft DEF Inv
<1> QED BY <1>1, <1>2, <1>3 DEF Inv, RunsLeft

LEMMA StepInv == ASSUME Inv, [Next]_vars PROVE Inv'
<1>1. CASE Start
  BY <1>1, IdleInv DEF Start
<1>2. CASE UNCHANGED vars
  BY <1>2, IdleInv DEF vars, process, Inv, TypeOK
<1> QED
  BY <1>1, <1>2, TakeInv, DispatchInv, ProcessInv, AcknowledgeInv, RejectInv, RestartInv,
     TakeOverInv
  DEF Next, Step

-----------------------------------------------------------------------------
(* The types of Handler.Consume and its listener; but for deliveries that  *)
(* were taken over no message is in work twice.                            *)
THEOREM ConsumerTypeCorrect == Spec => []TypeOK
<1>1. Inv => TypeOK  BY DEF Inv
<1> QED  BY <1>1, InitInv, StepInv, PTL DEF Spec

(* Consume and its listener acknowledge no unprocessed message without one *)
(* of the known causes.                                                    *)
THEOREM LossExplained == Spec => []LossHasCause
<1>1. Inv => LossHasCause  BY DEF Inv
<1> QED  BY <1>1, InitInv, StepInv, PTL DEF Spec

(* No consumer's Process runs again for a message that was not delivered   *)
(* again, unacknowledged, by a stop or a takeover, or put back after an    *)
(* error.                                                                  *)
THEOREM RepeatExplained == Spec => []RepeatHasCause
<1>1. Inv => RepeatHasCause
  <2> SUFFICES ASSUME Inv, NEW m \in Msgs, HasRunsLeft(m)
               PROVE  runs[m] <= offered[m] + 1
    BY DEF Inv, RunsLeft, Repeatable, RepeatHasCause
  <2>1. /\ runs[m] \in Nat /\ offered[m] \in Nat /\ Waiting(m) \in Nat
        /\ Cardinality(Pending(m)) \in Nat
    BY PendingFinite DEF Inv, TypeOK, RunCap, Waiting
  <2> QED BY <2>1 DEF HasRunsLeft
<1> QED  BY <1>1, InitInv, StepInv, PTL DEF Spec
=============================================================================
