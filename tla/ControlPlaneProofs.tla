-------------------------- MODULE ControlPlaneProofs --------------------------
(***************************************************************************)
(* What TLAPS proves of the control plane's process.  WebhookIntake: the    *)
(* protocol of a delivery, for any number of deliveries, concurrent         *)
(* requests, attempts and faults.  ServiceLifecycle: LifecycleInv and       *)
(* Probed are inductive together, so a service that answers it is ready     *)
(* serves and the pool is closed last, for any number of requests in flight. *)
(***************************************************************************)
EXTENDS WebhookIntake, ServiceLifecycle, TLAPS

-----------------------------------------------------------------------------
(* WebhookIntake *)

\* The statements of the repository leave well-formed rows behind, and what
\* they do to the columns the invariant speaks of.
LEMMA Statements ==
  ASSUME NEW r \in Row
  PROVE  /\ Inserted \in Row /\ Inserted.status = "CLAIMED" /\ Inserted.attempts = 1
         /\ MayRetry(r) => /\ Retried(r) \in Row
                           /\ Retried(r).status = "CLAIMED"
                           /\ Retried(r).attempts = r.attempts + 1
         /\ Processed(r) \in Row
         /\ Processed(r).status = "PROCESSED" /\ Processed(r).attempts = r.attempts
         /\ \A b \in BOOLEAN : /\ Failed(r, b) \in Row
                               /\ Failed(r, b).status = "FAILED"
                               /\ Failed(r, b).attempts = r.attempts
<1>1. r.attempts \in 0 .. MaxDeliveryAttempts
  BY DEF Row
<1>2. Inserted \in Row /\ Inserted.status = "CLAIMED" /\ Inserted.attempts = 1
  BY IntakeAssumption DEF Row, Inserted
<1>3. ASSUME MayRetry(r)
      PROVE  /\ Retried(r) \in Row
             /\ Retried(r).status = "CLAIMED"
             /\ Retried(r).attempts = r.attempts + 1
  <2>1. r.attempts + 1 \in 0 .. MaxDeliveryAttempts
    BY <1>1, <1>3, IntakeAssumption DEF MayRetry
  <2>2. QED
    BY <2>1 DEF Row, Retried
<1>4. /\ Processed(r) \in Row
      /\ Processed(r).status = "PROCESSED" /\ Processed(r).attempts = r.attempts
  BY DEF Row, Processed
<1>5. \A b \in BOOLEAN : /\ Failed(r, b) \in Row
                         /\ Failed(r, b).status = "FAILED"
                         /\ Failed(r, b).attempts = r.attempts
  BY DEF Row, Failed
<1>6. QED
  BY <1>2, <1>3, <1>4, <1>5

LEMMA FaultType == TypeOK => \A f \in FaultKinds : Fault(f) => faults' \in 0 .. MaxFaults
BY IntakeAssumption DEF Fault, TypeOK

\* Moving on and ending keep the handlers well-formed and change one only.
LEMMA Moves ==
  ASSUME TypeOK, NEW h \in Handlers, handler[h].at # "idle"
  PROVE  /\ handler[h].delivery \in Deliveries
         /\ \A from, to \in Positions \ {"idle"} : Goes(h, from, to) =>
              /\ handler[h].at = from
              /\ handler' \in [Handlers -> [at : Positions, delivery : Deliveries \union {None}]]
              /\ handler'[h].at = to /\ handler'[h].delivery = handler[h].delivery
              /\ \A g \in Handlers : g # h => handler'[g] = handler[g]
         /\ \A from \in Positions \ {"idle"} : Ends(h, from) =>
              /\ handler[h].at = from
              /\ handler' \in [Handlers -> [at : Positions, delivery : Deliveries \union {None}]]
              /\ handler'[h].at = "idle"
              /\ \A g \in Handlers : g # h => handler'[g] = handler[g]
BY DEF TypeOK, Goes, Ends, Idle, Positions, Entitled

LEMMA IntakeInit == Init => IntakeInv
BY IntakeAssumption DEF Init, IntakeInv, TypeOK, Row, NoRow, Idle, Positions, Entitled,
   OneHandlerPerDelivery, ClaimIsOwned, HandedOverBeforeProcessed, AcceptsCovered, WorksOn

LEMMA IntakeStep == SafeRecovery /\ IntakeInv /\ [Next]_vars => IntakeInv'
<1> SUFFICES ASSUME SafeRecovery, IntakeInv, [Next]_vars
             PROVE  IntakeInv'
  OBVIOUS
<1> USE DEF Entitled, WorksOn
<1>0. /\ TypeOK /\ OneHandlerPerDelivery /\ ClaimIsOwned
      /\ HandedOverBeforeProcessed /\ AcceptsCovered
      /\ delivery \in [Deliveries -> Row] /\ accepted \in [Deliveries -> Nat]
      /\ \A d \in Deliveries : delivery[d].attempts \in Nat
      /\ faults \in 0 .. MaxFaults
  BY DEF IntakeInv, TypeOK, Row
<1>a. \A d \in Deliveries : /\ accepted[d] \in Nat /\ accepted[d] <= delivery[d].attempts
                            /\ delivery[d].status = "absent" => accepted[d] = 0
  BY <1>0 DEF AcceptsCovered
<1>b. \A g \in Handlers : \A d \in Deliveries :
        WorksOn(g, d) => delivery[d].status \in {"CLAIMED", "PROCESSED"}
  BY <1>0 DEF ClaimIsOwned
<1> DEFINE Handlings == [Handlers -> [at : Positions, delivery : Deliveries \union {None}]]
\* Request h leaves the claim, or never had it; the row of its delivery keeps
\* its attempts and is not PROCESSED unless the event was handed over.
<1>1. ASSUME NEW h \in Handlers, NEW d \in Deliveries, handler[h].delivery = d,
             handler' \in Handlings, handler'[h].at = "idle",
             \A g \in Handlers : g # h => handler'[g] = handler[g],
             accepted' = accepted, faults' \in 0 .. MaxFaults,
             NEW r \in Row, delivery' = [delivery EXCEPT ![d] = r],
             accepted[d] <= r.attempts, r.status # "absent",
             r.status = "PROCESSED" => accepted[d] > 0,
             r # delivery[d] => \A g \in Handlers : g # h => ~WorksOn(g, d)
      PROVE  IntakeInv'
  <2>1. /\ delivery' \in [Deliveries -> Row] /\ delivery'[d] = r
        /\ \A e \in Deliveries : e # d => delivery'[e] = delivery[e]
    BY <1>0, <1>1
  <2>2. TypeOK'
    BY <1>0, <1>1, <2>1 DEF TypeOK
  <2>3. OneHandlerPerDelivery'
    BY <1>0, <1>1 DEF OneHandlerPerDelivery
  <2>4. ClaimIsOwned'
    BY <1>0, <1>1, <2>1 DEF ClaimIsOwned
  <2>5. HandedOverBeforeProcessed'
    BY <1>0, <1>1, <2>1 DEF HandedOverBeforeProcessed
  <2>6. AcceptsCovered'
    <3>1. \A e \in Deliveries : delivery'[e].attempts \in Nat /\ accepted[e] \in Nat
      BY <1>0, <2>1 DEF Row
    <3>2. QED
      BY <1>0, <1>1, <2>1, <3>1 DEF AcceptsCovered
  <2>7. QED
    BY <2>2, <2>3, <2>4, <2>5, <2>6 DEF IntakeInv
\* Request h takes the claim of d with a new attempt.
<1>2. ASSUME NEW h \in Handlers, NEW d \in Deliveries,
             handler' \in Handlings, handler'[h].at = "claimed", handler'[h].delivery = d,
             \A g \in Handlers : g # h => handler'[g] = handler[g],
             UNCHANGED <<accepted, faults>>,
             delivery[d].status \notin {"CLAIMED", "PROCESSED"},
             NEW r \in Row, delivery' = [delivery EXCEPT ![d] = r],
             r.status = "CLAIMED", accepted[d] < r.attempts
      PROVE  IntakeInv'
  <2>1. /\ delivery' \in [Deliveries -> Row] /\ delivery'[d] = r
        /\ \A e \in Deliveries : e # d => delivery'[e] = delivery[e]
    BY <1>0, <1>2
  <2>2. \A g \in Handlers : ~WorksOn(g, d)
    BY <1>0, <1>2 DEF ClaimIsOwned
  <2>3. TypeOK'
    BY <1>0, <1>2, <2>1 DEF TypeOK
  <2>4. OneHandlerPerDelivery' /\ ClaimIsOwned'
    BY <1>0, <1>2, <2>1, <2>2 DEF OneHandlerPerDelivery, ClaimIsOwned
  <2>5. HandedOverBeforeProcessed' /\ AcceptsCovered'
    <3>1. /\ \A e \in Deliveries : accepted[e] \in Nat
          /\ r.attempts \in Nat
      BY <1>0, <1>2 DEF Row
    <3>2. QED
      BY <1>0, <1>2, <2>1, <2>2, <3>1 DEF HandedOverBeforeProcessed, AcceptsCovered
  <2>6. QED
    BY <2>3, <2>4, <2>5 DEF IntakeInv
\* Request h, which holds the claim of d, goes on.
<1>3. ASSUME NEW h \in Handlers, NEW d \in Deliveries, WorksOn(h, d),
             handler' \in Handlings, handler'[h].delivery = d,
             NEW to \in {"recorded", "accepted", "failing"}, handler'[h].at = to,
             \A g \in Handlers : g # h => handler'[g] = handler[g],
             faults' \in 0 .. MaxFaults,
             \/ accepted' = accepted
             \/ /\ accepted' = [accepted EXCEPT ![d] = @ + 1]
                /\ accepted[d] < delivery[d].attempts /\ to # "recorded",
             \/ delivery' = delivery
             \/ /\ delivery' = [delivery EXCEPT ![d] = Processed(@)]
                /\ accepted[d] > 0 /\ ~NoLostAck,
             delivery[d].status = "CLAIMED",
             to # "failing" => delivery' = delivery,
             to = "recorded" => accepted[d] < delivery[d].attempts,
             to = "accepted" => accepted' # accepted
      PROVE  IntakeInv'
  <2>1. Processed(delivery[d]) \in Row /\ Processed(delivery[d]).status = "PROCESSED"
        /\ Processed(delivery[d]).attempts = delivery[d].attempts
    BY <1>0, Statements
  <2>2. /\ delivery' \in [Deliveries -> Row]
        /\ delivery'[d].attempts = delivery[d].attempts
        /\ \/ delivery'[d].status = "CLAIMED"
           \/ delivery'[d].status = "PROCESSED" /\ accepted[d] > 0 /\ ~NoLostAck
              /\ to = "failing"
        /\ \A e \in Deliveries : e # d => delivery'[e] = delivery[e]
    BY <1>0, <1>3, <2>1
  <2>3. /\ accepted' \in [Deliveries -> Nat]
        /\ accepted'[d] >= accepted[d] /\ accepted'[d] <= delivery[d].attempts
        /\ to = "accepted" => accepted'[d] > 0
        /\ to = "recorded" => accepted'[d] < delivery[d].attempts
        /\ \A e \in Deliveries : e # d => accepted'[e] = accepted[e]
    <3>1. /\ accepted[d] \in Nat /\ delivery[d].attempts \in Nat
          /\ accepted[d] <= delivery[d].attempts
      BY <1>0, <1>a
    <3>2. CASE accepted' = accepted
      BY <1>0, <1>3, <3>1, <3>2
    <3>3. CASE accepted' = [accepted EXCEPT ![d] = @ + 1] /\ accepted[d] < delivery[d].attempts
               /\ to # "recorded"
      <4>1. accepted' \in [Deliveries -> Nat] /\ accepted'[d] = accepted[d] + 1
        BY <1>0, <3>1, <3>3
      <4>2. QED
        BY <1>0, <1>3, <3>1, <3>3, <4>1
    <3>4. QED
      BY <1>3, <3>2, <3>3
  <2>4. \A g \in Handlers : g # h => ~WorksOn(g, d)
    BY <1>0, <1>3 DEF OneHandlerPerDelivery
  <2>5. TypeOK'
    BY <1>0, <1>3, <2>2, <2>3 DEF TypeOK
  <2>6. OneHandlerPerDelivery'
    BY <1>0, <1>3, <2>4 DEF OneHandlerPerDelivery
  <2>7. ClaimIsOwned'
    BY <1>0, <1>3, <2>2, <2>4 DEF ClaimIsOwned, NoLostAck
  <2>8. HandedOverBeforeProcessed'
    BY <1>0, <1>3, <2>2, <2>3 DEF HandedOverBeforeProcessed
  <2>9. AcceptsCovered'
    BY <1>0, <1>3, <2>2, <2>3, <2>4 DEF AcceptsCovered
  <2>10. QED
    BY <2>5, <2>6, <2>7, <2>8, <2>9 DEF IntakeInv
\* Request h is not past a claim afterwards and the table stays as it is.
<1>4. ASSUME NEW h \in Handlers, handler' \in Handlings, handler'[h].at \notin Entitled,
             handler'[h].at # "idle" => handler'[h].delivery \in Deliveries,
             \A g \in Handlers : g # h => handler'[g] = handler[g],
             UNCHANGED <<delivery, accepted>>, faults' \in 0 .. MaxFaults
      PROVE  IntakeInv'
  <2>1. TypeOK'
    BY <1>0, <1>4 DEF TypeOK
  <2>2. OneHandlerPerDelivery' /\ ClaimIsOwned' /\ HandedOverBeforeProcessed' /\ AcceptsCovered'
    BY <1>0, <1>4 DEF OneHandlerPerDelivery, ClaimIsOwned, HandedOverBeforeProcessed,
       AcceptsCovered
  <2>3. QED
    BY <2>1, <2>2 DEF IntakeInv
<1>5. \A f \in FaultKinds : Fault(f) => faults' \in 0 .. MaxFaults /\ (f = "lostAck" => ~NoLostAck)
  BY <1>0, FaultType DEF Fault, NoLostAck
<1>6. ASSUME NEW h \in Handlers, NEW d \in Deliveries, Receive(h, d)
      PROVE  IntakeInv'
  <2>1. /\ handler' \in Handlings /\ handler'[h].at = "inserting" /\ handler'[h].delivery = d
        /\ \A g \in Handlers : g # h => handler'[g] = handler[g]
    BY <1>0, <1>6 DEF Receive, TypeOK, Positions
  <2>2. QED
    BY <1>0, <1>4, <1>6, <2>1 DEF Receive
<1>7. ASSUME NEW h \in Handlers, Crash(h)
      PROVE  IntakeInv'
  <2>1. /\ handler' \in Handlings /\ handler'[h].at = "idle"
        /\ \A g \in Handlers : g # h => handler'[g] = handler[g]
    BY <1>0, <1>7 DEF Crash, Idle, TypeOK, Positions
  <2>2. QED
    BY <1>0, <1>4, <1>5, <1>7, <2>1 DEF Crash, FaultKinds
<1>8. ASSUME NEW h \in Handlers, Handle(h)
      PROVE  IntakeInv'
  <2>1. handler[h].at # "idle"
    BY <1>8 DEF Handle, ClaimNew, ClaimFailed, RecordMetadata, RejectMalformed, Accept,
       MarkProcessed, MarkFailed, UncaughtFailure, CaughtFailure, Goes, Ends
  <2>2. PICK d \in Deliveries : d = handler[h].delivery
    BY <1>0, <2>1 DEF TypeOK
  <2>3. delivery[d] \in Row
    BY <1>0
  <2> DEFINE Awaits == {"inserting", "retrying", "claimed", "recorded", "accepted", "failing"}
  <2>4. \A from, to \in Awaits : Goes(h, from, to) =>
          /\ handler[h].at = from
          /\ handler' \in Handlings /\ handler'[h].at = to /\ handler'[h].delivery = d
          /\ \A g \in Handlers : g # h => handler'[g] = handler[g]
    <3>1. Awaits \subseteq Positions \ {"idle"}
      BY DEF Positions
    <3> HIDE DEF Awaits
    <3> QED BY <1>0, <2>1, <2>2, <3>1, Moves
  <2>5. \A from \in Awaits : Ends(h, from) =>
          /\ handler[h].at = from
          /\ handler' \in Handlings /\ handler'[h].at = "idle"
          /\ \A g \in Handlers : g # h => handler'[g] = handler[g]
    <3>1. Awaits \subseteq Positions \ {"idle"}
      BY DEF Positions
    <3> HIDE DEF Awaits
    <3> QED BY <1>0, <2>1, <2>2, <3>1, Moves
  <2> HIDE DEF Handlings
\* A claim is taken: tryClaim inserted the row or updated the failed one.
  <2>6. ASSUME NEW from \in Awaits, Goes(h, from, "claimed"), UNCHANGED <<accepted, faults>>,
               \/ delivery[d].status = "absent" /\ delivery' = [delivery EXCEPT ![d] = Inserted]
               \/ MayRetry(delivery[d]) /\ delivery' = [delivery EXCEPT ![d] = Retried(delivery[d])]
        PROVE  IntakeInv'
    <3>1. /\ handler' \in Handlings /\ handler'[h].at = "claimed" /\ handler'[h].delivery = d
          /\ \A g \in Handlers : g # h => handler'[g] = handler[g]
      BY <2>4, <2>6
    <3>2. CASE delivery[d].status = "absent" /\ delivery' = [delivery EXCEPT ![d] = Inserted]
      <4>1. Inserted \in Row /\ Inserted.status = "CLAIMED" /\ accepted[d] < Inserted.attempts
        <5>1. accepted[d] = 0
          BY <1>a, <3>2
        <5>2. QED
          BY <2>3, <5>1, Statements
      <4>2. QED
        BY <1>2, <2>6, <3>1, <3>2, <4>1
    <3>3. CASE MayRetry(delivery[d]) /\ delivery' = [delivery EXCEPT ![d] = Retried(delivery[d])]
      <4>1. /\ Retried(delivery[d]) \in Row /\ Retried(delivery[d]).status = "CLAIMED"
            /\ accepted[d] < Retried(delivery[d]).attempts
        <5>1. accepted[d] \in Nat /\ delivery[d].attempts \in Nat /\ accepted[d] <= delivery[d].attempts
          BY <1>0, <1>a
        <5>2. /\ Retried(delivery[d]) \in Row /\ Retried(delivery[d]).status = "CLAIMED"
              /\ Retried(delivery[d]).attempts = delivery[d].attempts + 1
          BY <2>3, <3>3, Statements
        <5>3. QED
          BY <5>1, <5>2
      <4>2. delivery[d].status = "FAILED"
        BY <3>3 DEF MayRetry
      <4>3. QED
        BY <1>2, <2>6, <3>1, <3>3, <4>1, <4>2
    <3>4. QED
      BY <2>6, <3>2, <3>3
\* The request is answered and the row is left with the status s.
  <2>7. ASSUME NEW from \in Awaits, Ends(h, from), accepted' = accepted, faults' \in 0 .. MaxFaults,
               \/ delivery' = delivery
               \/ /\ from = "accepted"
                  /\ delivery' = [delivery EXCEPT ![d] = Processed(delivery[d])]
               \/ /\ from \in {"recorded", "failing"}
                  /\ \E b \in BOOLEAN : delivery' = [delivery EXCEPT ![d] = Failed(delivery[d], b)]
        PROVE  IntakeInv'
    <3>1. /\ handler[h].at = from /\ handler' \in Handlings /\ handler'[h].at = "idle"
          /\ \A g \in Handlers : g # h => handler'[g] = handler[g]
      BY <2>5, <2>7
    <3>2. CASE delivery' = delivery
      BY <1>4, <2>7, <3>1, <3>2
    <3>3. CASE from = "accepted" /\ delivery' = [delivery EXCEPT ![d] = Processed(delivery[d])]
      <4>1. /\ Processed(delivery[d]) \in Row /\ Processed(delivery[d]).status = "PROCESSED"
            /\ accepted[d] <= Processed(delivery[d]).attempts
        BY <1>0, <1>a, <2>3, Statements
      <4>2. accepted[d] > 0 /\ \A g \in Handlers : g # h => ~WorksOn(g, d)
        BY <1>0, <2>2, <3>1, <3>3 DEF AcceptsCovered, OneHandlerPerDelivery
      <4>3. QED
        BY <1>1, <2>2, <2>7, <3>1, <3>3, <4>1, <4>2
    <3>4. ASSUME from \in {"recorded", "failing"}, NEW b \in BOOLEAN,
                 delivery' = [delivery EXCEPT ![d] = Failed(delivery[d], b)]
          PROVE  IntakeInv'
      <4>1. /\ Failed(delivery[d], b) \in Row /\ Failed(delivery[d], b).status = "FAILED"
            /\ accepted[d] <= Failed(delivery[d], b).attempts
        BY <1>0, <1>a, <2>3, Statements
      <4>2. \A g \in Handlers : g # h => ~WorksOn(g, d)
        BY <1>0, <2>2, <3>1, <3>4 DEF OneHandlerPerDelivery
      <4>3. QED
        BY <1>1, <2>2, <2>7, <3>1, <3>4, <4>1, <4>2
    <3>5. QED
      BY <2>7, <3>2, <3>3, <3>4
  <2>8. CASE ClaimNew(h)
    <3>1. CASE Goes(h, "inserting", "retrying") /\ UNCHANGED delivery
      BY <1>0, <1>4, <2>4, <2>8, <3>1 DEF ClaimNew
    <3>2. QED
      BY <2>2, <2>6, <2>8, <3>1 DEF ClaimNew
  <2>9. CASE ClaimFailed(h)
    BY <1>0, <2>2, <2>6, <2>7, <2>9 DEF ClaimFailed
  <2>10. CASE RejectMalformed(h)
    BY <1>0, <2>2, <2>7, <2>10 DEF RejectMalformed
  <2>11. CASE MarkProcessed(h)
    BY <1>0, <2>2, <2>7, <2>11 DEF MarkProcessed
  <2>12. CASE MarkFailed(h)
    BY <1>0, <2>2, <2>7, <2>12 DEF MarkFailed
\* The request keeps its claim and goes on.
  <2>13. ASSUME handler[h].at \in Entitled PROVE WorksOn(h, d) /\ accepted[d] \in Nat
    BY <1>0, <2>2, <2>13
  <2>14. CASE RecordMetadata(h)
    <3>1. /\ handler[h].at = "claimed" /\ handler' \in Handlings
          /\ handler'[h].at = "recorded" /\ handler'[h].delivery = d
          /\ \A g \in Handlers : g # h => handler'[g] = handler[g]
      BY <2>4, <2>14 DEF RecordMetadata
    <3>2. WorksOn(h, d) /\ delivery[d].status = "CLAIMED" /\ accepted[d] < delivery[d].attempts
      BY <1>0, <2>13, <3>1 DEF ClaimIsOwned, AcceptsCovered
    <3>3. QED
      BY <1>0, <1>3, <2>14, <3>1, <3>2 DEF RecordMetadata
  <2>15. CASE Accept(h)
    <3>1. /\ handler[h].at = "recorded" /\ handler' \in Handlings
          /\ handler'[h].at = "accepted" /\ handler'[h].delivery = d
          /\ \A g \in Handlers : g # h => handler'[g] = handler[g]
      BY <2>4, <2>15 DEF Accept
    <3>2. WorksOn(h, d) /\ delivery[d].status = "CLAIMED" /\ accepted[d] < delivery[d].attempts
      BY <1>0, <2>13, <3>1 DEF ClaimIsOwned, AcceptsCovered
    <3>3. accepted' = [accepted EXCEPT ![d] = @ + 1] /\ accepted' # accepted
      <4>1. accepted' = [accepted EXCEPT ![d] = accepted[d] + 1]
        BY <2>2, <2>15 DEF Accept
      <4>2. accepted'[d] # accepted[d]
        BY <1>0, <4>1
      <4>3. QED
        BY <4>1, <4>2
    <3>4. QED
      BY <1>0, <1>3, <2>15, <3>1, <3>2, <3>3 DEF Accept
  <2>16. CASE CaughtFailure(h)
    <3>1. PICK from \in {"recorded", "accepted"} : Goes(h, from, "failing")
      BY <2>16 DEF CaughtFailure
    <3>2. /\ handler[h].at = from /\ handler' \in Handlings
          /\ handler'[h].at = "failing" /\ handler'[h].delivery = d
          /\ \A g \in Handlers : g # h => handler'[g] = handler[g]
      BY <2>4, <3>1
    <3>3. WorksOn(h, d) /\ delivery[d].status = "CLAIMED"
      BY <1>0, <2>13, <3>2 DEF ClaimIsOwned
    <3>4. /\ from = "recorded" => accepted[d] < delivery[d].attempts
          /\ from = "accepted" => accepted[d] > 0
      BY <1>0, <3>2, <3>3 DEF AcceptsCovered
    <3>5. CASE from = "recorded"
      <4>1. /\ faults' \in 0 .. MaxFaults /\ delivery' = delivery
            /\ accepted' = accepted \/ accepted' = [accepted EXCEPT ![d] = @ + 1]
        BY <1>5, <2>2, <2>16, <3>2, <3>5 DEF CaughtFailure, Goes, FaultKinds
      <4>2. QED
        BY <1>3, <3>2, <3>3, <3>4, <3>5, <4>1
    <3>6. CASE from = "accepted"
      <4>1. /\ faults' \in 0 .. MaxFaults /\ accepted' = accepted
            /\ \/ delivery' = delivery
               \/ delivery' = [delivery EXCEPT ![d] = Processed(@)] /\ ~NoLostAck
        BY <1>5, <2>2, <2>16, <3>2, <3>6 DEF CaughtFailure, Goes, FaultKinds
      <4>2. QED
        BY <1>3, <3>2, <3>3, <3>4, <3>6, <4>1
    <3>7. QED
      BY <3>1, <3>5, <3>6
  <2>17. CASE UncaughtFailure(h)
    <3>1. faults' \in 0 .. MaxFaults /\ accepted' = accepted
      BY <1>5, <2>17 DEF UncaughtFailure, FaultKinds
    <3>2. CASE delivery' = delivery
      <4>1. PICK from \in Awaits : Ends(h, from)
        BY <2>17, <3>2 DEF UncaughtFailure, Ends
      <4>2. QED
        BY <2>7, <3>1, <3>2, <4>1
    <3>3. ASSUME NEW from \in Awaits, Ends(h, from), NEW r \in Row,
                 delivery' = [delivery EXCEPT ![d] = r],
                 accepted[d] <= r.attempts, r.status \in {"CLAIMED", "FAILED"},
                 \A g \in Handlers : g # h => ~WorksOn(g, d)
          PROVE  IntakeInv'
      <4>1. /\ handler' \in Handlings /\ handler'[h].at = "idle"
            /\ \A g \in Handlers : g # h => handler'[g] = handler[g]
        BY <2>5, <3>3
      <4>2. /\ handler[h].delivery = d /\ r.status # "absent"
            /\ r.status = "PROCESSED" => accepted[d] > 0
        BY <2>2, <3>3
      <4>3. QED
        BY <1>1, <2>2, <3>1, <3>3, <4>1, <4>2
    <3>4. CASE /\ Ends(h, "inserting") /\ delivery[d].status = "absent"
               /\ delivery' = [delivery EXCEPT ![d] = Inserted]
      <4>1. Inserted \in Row /\ Inserted.status = "CLAIMED" /\ Inserted.attempts = 1
        BY <2>3, Statements
      <4>2. accepted[d] <= Inserted.attempts
        BY <1>a, <3>4, <4>1
      <4>3. \A g \in Handlers : ~WorksOn(g, d)
        BY <1>b, <3>4
      <4>4. QED
        BY <3>3, <3>4, <4>1, <4>2, <4>3
    <3>5. CASE /\ Ends(h, "retrying") /\ MayRetry(delivery[d])
               /\ delivery' = [delivery EXCEPT ![d] = Retried(delivery[d])]
      <4>1. /\ Retried(delivery[d]) \in Row /\ Retried(delivery[d]).status = "CLAIMED"
            /\ accepted[d] <= Retried(delivery[d]).attempts
        BY <1>0, <1>a, <2>3, <3>5, Statements
      <4>2. \A g \in Handlers : ~WorksOn(g, d)
        BY <1>b, <3>5 DEF MayRetry
      <4>3. QED
        BY <3>3, <3>5, <4>1, <4>2
    <3>6. ASSUME NEW from \in {"recorded", "failing"}, Ends(h, from), NEW b \in BOOLEAN,
                 delivery' = [delivery EXCEPT ![d] = Failed(delivery[d], b)]
          PROVE  IntakeInv'
      BY <2>7, <3>1, <3>6
    <3>7. CASE Ends(h, "failing") /\ delivery' = [delivery EXCEPT ![d] = Failed(delivery[d], TRUE)]
      BY <3>6, <3>7
    <3>8. CASE Ends(h, "recorded") /\ delivery' = [delivery EXCEPT ![d] = Failed(delivery[d], FALSE)]
      BY <3>6, <3>8
    <3>9. QED
      BY <2>2, <2>17, <3>2, <3>4, <3>5, <3>7, <3>8 DEF UncaughtFailure
  <2>18. QED
    BY <1>8, <2>8, <2>9, <2>10, <2>11, <2>12, <2>14, <2>15, <2>16, <2>17 DEF Handle
<1>9. CASE UNCHANGED vars
  BY <1>0, <1>9 DEF vars, IntakeInv, TypeOK, OneHandlerPerDelivery, ClaimIsOwned,
     HandedOverBeforeProcessed, AcceptsCovered
<1>10. CASE RecoverStaleClaims
  <2>1. PICK D \in SUBSET StaleClaims :
          delivery' = [d \in Deliveries |-> IF d \in D THEN Failed(delivery[d], TRUE)
                                           ELSE delivery[d]]
    BY <1>10 DEF RecoverStaleClaims
  <2>2. \A d \in D : /\ d \in Deliveries /\ delivery[d].status = "CLAIMED"
                     /\ \A h \in Handlers : ~WorksOn(h, d)
    BY <1>10 DEF StaleClaims, Parked, RecoverStaleClaims, SafeRecovery
  <2>3. \A d \in Deliveries :
          /\ delivery'[d] \in Row /\ delivery'[d].attempts = delivery[d].attempts
          /\ d \in D => delivery'[d].status = "FAILED"
          /\ d \notin D => delivery'[d] = delivery[d]
    BY <1>0, <2>1, Statements
  <2>4. delivery' \in [Deliveries -> Row] /\ UNCHANGED <<handler, accepted, faults>>
    BY <1>10, <2>1, <2>3 DEF RecoverStaleClaims
  <2>5. TypeOK' /\ OneHandlerPerDelivery'
    BY <1>0, <2>4 DEF TypeOK, OneHandlerPerDelivery
  <2>6. ClaimIsOwned'
    BY <1>0, <2>2, <2>3, <2>4 DEF ClaimIsOwned
  <2>7. HandedOverBeforeProcessed'
    BY <1>0, <2>3, <2>4 DEF HandedOverBeforeProcessed
  <2>8. AcceptsCovered'
    BY <1>0, <2>2, <2>3, <2>4 DEF AcceptsCovered
  <2>9. QED
    BY <2>5, <2>6, <2>7, <2>8 DEF IntakeInv
<1>11. QED
  BY <1>6, <1>7, <1>8, <1>9, <1>10 DEF Next

\* IntakeInv holds in every reachable state of the intake, whatever fails, as the
\* service wires it (without recoverStaleClaims) and with timely recovery.
THEOREM IntakeProtocol ==
  ASSUME SafeRecovery
  PROVE  Spec => []IntakeInv
<1>1. IntakeInv /\ [Next]_vars => IntakeInv'
  BY IntakeStep
<1>2. QED
  BY <1>1, IntakeInit, PTL DEF Spec

\* However many copies of a delivery arrive at once, at most one request gets
\* past tryClaim and works on it.
THEOREM Exclusion ==
  ASSUME SafeRecovery
  PROVE  Spec => []OneHandlerPerDelivery
<1>1. IntakeInv => OneHandlerPerDelivery
  BY DEF IntakeInv
<1>2. QED
  BY <1>1, IntakeProtocol, PTL

\* A delivery's event reaches the queue at most MAX_DELIVERY_ATTEMPTS times.
THEOREM Bounded ==
  ASSUME SafeRecovery
  PROVE  Spec => []AcceptsBounded
<1>1. IntakeInv => AcceptsBounded
  <2> SUFFICES ASSUME IntakeInv, NEW d \in Deliveries
               PROVE  accepted[d] <= MaxDeliveryAttempts
    BY DEF AcceptsBounded
  <2>1. accepted[d] \in Nat /\ delivery[d].attempts \in 0 .. MaxDeliveryAttempts
    BY DEF IntakeInv, TypeOK, Row
  <2>2. accepted[d] <= delivery[d].attempts
    BY DEF IntakeInv, AcceptsCovered
  <2>3. QED
    BY <2>1, <2>2, IntakeAssumption
<1>2. QED
  BY <1>1, IntakeProtocol, PTL

\* A delivery recorded as PROCESSED has handed its event over: the DUPLICATE
\* answered to its later copies loses nothing.
THEOREM HandOver ==
  ASSUME SafeRecovery
  PROVE  Spec => []HandedOverBeforeProcessed
<1>1. IntakeInv => HandedOverBeforeProcessed
  BY DEF IntakeInv
<1>2. QED
  BY <1>1, IntakeProtocol, PTL

\* A PROCESSED delivery is only written by the request that works on it and
\* takes its markProcessed for failed.
THEOREM Finality ==
  ASSUME SafeRecovery
  PROVE  Spec => ReopenedOnlyByItsHandler
<1> DEFINE Reopened(d) == /\ delivery[d].status = "PROCESSED" /\ delivery'[d] # delivery[d]
                          /\ ~\E h \in Handlers : WorksOn(h, d) /\ handler[h].at = "failing"
<1>1. IntakeInv /\ [Next]_vars => \A d \in Deliveries : ~Reopened(d)
  <2> SUFFICES ASSUME IntakeInv, [Next]_vars, NEW d \in Deliveries, Reopened(d)
               PROVE  FALSE
    OBVIOUS
  <2>1. /\ delivery \in [Deliveries -> Row]
        /\ \A h \in Handlers : handler[h].at # "idle" => handler[h].delivery \in Deliveries
        /\ \A h \in Handlers : ~WorksOn(h, d)
    BY DEF IntakeInv, TypeOK, ClaimIsOwned
  <2>2. ASSUME NEW h \in Handlers, handler[h].at # "idle", handler[h].delivery # d, Handle(h)
        PROVE  delivery'[d] = delivery[d]
    BY <2>1, <2>2 DEF Handle, ClaimNew, ClaimFailed, RecordMetadata, RejectMalformed, Accept,
       MarkProcessed, MarkFailed, UncaughtFailure, CaughtFailure
  <2>3. ASSUME NEW h \in Handlers, handler[h].delivery = d, Handle(h)
        PROVE  delivery'[d] = delivery[d]
    <3>1. handler[h].at \notin Entitled
      BY <2>1, <2>3 DEF WorksOn
    <3>2. ~MayRetry(delivery[d])
      BY DEF MayRetry
    <3>3. QED
      BY <2>1, <2>3, <3>1, <3>2 DEF Handle, ClaimNew, ClaimFailed, RecordMetadata,
         RejectMalformed, Accept, MarkProcessed, MarkFailed, UncaughtFailure, CaughtFailure,
         Goes, Ends, Entitled
  <2>4. ASSUME NEW h \in Handlers, Handle(h)
        PROVE  handler[h].at # "idle"
    BY <2>4 DEF Handle, ClaimNew, ClaimFailed, RecordMetadata, RejectMalformed, Accept,
       MarkProcessed, MarkFailed, UncaughtFailure, CaughtFailure, Goes, Ends
  <2>5. ASSUME NEW h \in Handlers, (\E e \in Deliveries : Receive(h, e)) \/ Crash(h)
        PROVE  delivery'[d] = delivery[d]
    BY <2>5 DEF Receive, Crash
  <2>6. CASE UNCHANGED vars
    BY <2>6 DEF vars
  <2>7. CASE RecoverStaleClaims
    BY <2>7 DEF RecoverStaleClaims, StaleClaims, Parked
  <2>8. QED
    BY <2>2, <2>3, <2>4, <2>5, <2>6, <2>7 DEF Next
<1>2. IntakeInv /\ [Next]_vars =>
        [\A d \in Deliveries :
           delivery[d].status = "PROCESSED" /\ delivery'[d] # delivery[d] =>
             \E h \in Handlers : WorksOn(h, d) /\ handler[h].at = "failing"]_vars
  BY <1>1
<1>3. QED
  BY <1>2, IntakeProtocol, PTL DEF Spec, ReopenedOnlyByItsHandler

-----------------------------------------------------------------------------
(* ServiceLifecycle *)

LEMMA InitInv == LifecycleInit => LifecycleInv
  <1> SUFFICES ASSUME LifecycleInit PROVE LifecycleInv
    OBVIOUS
  <1>1. requests \in Nat /\ kept \in Nat /\ requests + kept <= MaxConnections
    BY LifecycleAssumption DEF LifecycleInit
  <1>2. LifecycleTypes
    BY <1>1 DEF LifecycleInit, LifecycleTypes
  <1>3. QuietUnlessServing /\ Drained /\ PoolClosedBy
    BY DEF LifecycleInit, QuietUnlessServing, Drained, PoolClosedBy
  <1> QED BY <1>2, <1>3 DEF LifecycleInv

LEMMA StartInv ==
  ASSUME LifecycleInv, Listening \/ StartFails
  PROVE  LifecycleInv'
  <1>1. CASE Listening
    BY <1>1 DEF LifecycleInv, LifecycleTypes, QuietUnlessServing, Drained, PoolClosedBy, LoopActive,
         Listening, MarkReady
  <1>2. CASE StartFails
    BY <1>2 DEF LifecycleInv, LifecycleTypes, QuietUnlessServing, Drained, PoolClosedBy, LoopActive,
         StartFails, http, probing, sweeper
  <1> QED BY <1>1, <1>2

\* What goes on between the server and its clients happens while the process serves and
\* the server is not closed, and shows the rest nothing.
LEMMA HttpInv ==
  ASSUME LifecycleInv, server = "listening" \/ requests > 0 \/ kept > 0,
         UNCHANGED <<phase, health, server, sweeper, loop, tokens, pool, closing, stopAsked>>,
         requests' \in Nat, kept' \in Nat, requests' + kept' <= MaxConnections
  PROVE  LifecycleInv'
  <1>1. phase = "serving" /\ (closing = "server" \/ stopAsked # "serving")
    BY DEF LifecycleInv, QuietUnlessServing, Drained
  <1>2. LifecycleTypes'
    BY DEF LifecycleInv, LifecycleTypes, health, sweeper, loop
  <1>3. (QuietUnlessServing /\ Drained /\ PoolClosedBy)'
    BY <1>1 DEF LifecycleInv, QuietUnlessServing, Drained, PoolClosedBy, LoopActive,
       health, sweeper, loop
  <1> QED BY <1>2, <1>3 DEF LifecycleInv

LEMMA ConnectionInv ==
  ASSUME LifecycleInv, Probed,
         \/ RequestArrives \/ RequestEnds
         \/ ReadyArrives \/ ReadyAnswered \/ ReadyEnds
         \/ KeptCloses
  PROVE  LifecycleInv'
  <1>1. /\ requests \in Nat /\ kept \in Nat /\ requests + kept <= MaxConnections
        /\ MaxConnections \in Nat
    BY LifecycleAssumption DEF LifecycleInv, LifecycleTypes
  <1>2. CASE Arrives
    <2>1. server = "listening" \/ kept > 0
      BY <1>2 DEF Arrives
    <2>2. requests' \in Nat /\ kept' \in Nat /\ requests' + kept' <= MaxConnections
      BY <1>1, <1>2 DEF Arrives
    <2> QED BY <1>2, <2>1, <2>2, HttpInv DEF Arrives
  <1>3. CASE ReadyAnswered
    <2>1. requests > 0
      BY <1>3 DEF ReadyAnswered, Probed
    <2> QED BY <1>1, <1>3, <2>1, HttpInv DEF ReadyAnswered
  <1>4. CASE Departs /\ requests > 0
    <2>1. requests' \in Nat /\ kept' \in Nat /\ requests' + kept' <= MaxConnections
      <3>1. requests' = requests - 1 /\ (kept' = kept \/ kept' = kept + 1)
        BY <1>4 DEF Departs
      <3>2. requests > 0
        BY <1>4
      <3> QED BY <1>1, <3>1, <3>2
    <2> QED BY <1>4, <2>1, HttpInv DEF Departs
  <1>5. CASE KeptCloses
    BY <1>1, <1>5, HttpInv DEF KeptCloses
  <1>6. RequestEnds \/ ReadyEnds => Departs /\ requests > 0
    BY <1>1 DEF RequestEnds, ReadyEnds, Probed
  <1>7. RequestArrives \/ ReadyArrives => Arrives
    BY DEF RequestArrives, ReadyArrives
  <1> QED BY <1>2, <1>3, <1>4, <1>5, <1>6, <1>7

LEMMA SweepInv ==
  ASSUME LifecycleInv, SweepBegins \/ SweepEnds
  PROVE  LifecycleInv'
  <1>1. CASE SweepBegins
    BY <1>1 DEF LifecycleInv, LifecycleTypes, QuietUnlessServing, Drained, PoolClosedBy, LoopActive,
         SweepBegins, health, http, probing, loop
  <1>2. CASE SweepEnds
    <2>1. UNCHANGED <<phase, health, http, timer, loop, tokens, pool, stopAsked>>
          /\ sweep' = FALSE /\ sweep' \in BOOLEAN
      BY <1>2 DEF SweepEnds, LifecycleInv, LifecycleTypes
    <2>2. CASE closing = "activeRun"
      <3>1. closing' \in {"runtime", "failed"}
        BY <1>2, <2>2 DEF SweepEnds
      <3>2. LifecycleTypes'
        BY <2>1, <3>1 DEF LifecycleInv, LifecycleTypes, health, http, probing, loop
      <3>3. (QuietUnlessServing /\ Drained /\ PoolClosedBy)'
        BY <2>1, <2>2, <3>1 DEF LifecycleInv, QuietUnlessServing, Drained, PoolClosedBy,
             LoopActive, health, http, probing, loop
      <3> QED BY <3>2, <3>3 DEF LifecycleInv
    <2>3. CASE closing # "activeRun"
      <3>1. UNCHANGED closing
        BY <1>2, <2>3 DEF SweepEnds
      <3>2. LifecycleTypes'
        BY <2>1, <3>1 DEF LifecycleInv, LifecycleTypes, health, http, probing, loop
      <3>3. (QuietUnlessServing /\ Drained /\ PoolClosedBy)'
        BY <2>1, <3>1 DEF LifecycleInv, QuietUnlessServing, Drained, PoolClosedBy,
             LoopActive, health, http, probing, loop
      <3> QED BY <3>2, <3>3 DEF LifecycleInv
    <2> QED BY <2>2, <2>3
  <1> QED BY <1>1, <1>2

LEMMA LoopInv ==
  ASSUME LifecycleInv, LoopHead \/ LoopStep \/ LoopFails
  PROVE  LifecycleInv'
  <1>1. CASE LoopHead
    BY <1>1 DEF LifecycleInv, LifecycleTypes, QuietUnlessServing, Drained, PoolClosedBy, LoopActive,
         LoopHead, health, http, probing, sweeper
  <1>2. CASE LoopStep
    <2>1. UNCHANGED <<phase, health, http, sweeper, stopping, pool, closing, stopAsked>>
      BY <1>2 DEF LoopStep
    <2>2. /\ worker \in {"claiming", "job", "sleeping"}
          /\ worker' \in {"head", "job", "sleeping"}
      BY <1>2 DEF LoopStep
    <2>3. tokens' \in BOOLEAN
      BY <1>2 DEF LoopStep, LifecycleInv, LifecycleTypes
    <2>4. LoopActive /\ LoopActive'
      BY <2>2 DEF LoopActive
    <2>5. LifecycleTypes'
      BY <2>1, <2>2, <2>3 DEF LifecycleInv, LifecycleTypes, health, http, probing, sweeper
    <2>6. phase = "serving" /\ ~(stopAsked = "serving" /\ closing = "done")
      BY <2>2, <2>4 DEF LifecycleInv, QuietUnlessServing, Drained
    <2>7. (QuietUnlessServing /\ Drained /\ PoolClosedBy)'
      BY <2>1, <2>4, <2>6 DEF LifecycleInv, QuietUnlessServing, Drained, PoolClosedBy,
           health, http, probing, sweeper
    <2> QED BY <2>5, <2>7 DEF LifecycleInv
  <1>3. CASE LoopFails
    <2>1. UNCHANGED <<phase, health, http, sweeper, stopping, pool, stopAsked>>
      BY <1>3 DEF LoopFails
    <2>2. worker \in {"claiming", "job"} /\ worker' = "failed"
      BY <1>3 DEF LoopFails
    <2>3. tokens' \in BOOLEAN
      BY <1>3 DEF LoopFails, LifecycleInv, LifecycleTypes
    <2>4. LoopActive /\ ~LoopActive'
      BY <2>2 DEF LoopActive
    <2>5. closing' = (IF closing = "worker" THEN "failed" ELSE closing)
      BY <1>3 DEF LoopFails
    <2>6. LifecycleTypes'
      BY <2>1, <2>2, <2>3, <2>5 DEF LifecycleInv, LifecycleTypes, health, http, probing, sweeper
    <2>7. phase = "serving" /\ ~(stopAsked = "serving" /\ closing = "done")
      BY <2>2, <2>4 DEF LifecycleInv, QuietUnlessServing, Drained
    <2>8. (QuietUnlessServing /\ Drained /\ PoolClosedBy)'
      BY <2>1, <2>4, <2>5, <2>7 DEF LifecycleInv, QuietUnlessServing, Drained, PoolClosedBy,
           health, http, probing, sweeper
    <2> QED BY <2>6, <2>8 DEF LifecycleInv
  <1> QED BY <1>1, <1>2, <1>3

LEMMA BeginInv ==
  ASSUME LifecycleInv, BeginShutdown, worker' \in {worker, "off"}
  PROVE  LifecycleInv'
  <1>1. /\ closing = "none" /\ stopAsked = "no"
        /\ UNCHANGED <<phase, requests, probing, sweep, tokens, pool>>
        /\ ~ready' /\ shuttingDown' /\ stopping' /\ ~timer'
        /\ stopAsked' = phase
    BY DEF BeginShutdown, LifecycleInv, Drained
  <1>2. /\ phase \in {"migrating", "serving", "startFailed"}
        /\ server \in {"unbound", "listening", "closing", "closed"}
        /\ worker' \in {"off", "head", "claiming", "job", "sleeping", "failed"}
        /\ requests \in Nat /\ kept \in Nat /\ requests + kept <= MaxConnections
    BY DEF LifecycleInv, LifecycleTypes
  <1>3. ready' \in BOOLEAN /\ shuttingDown' \in BOOLEAN /\ stopping' \in BOOLEAN /\ timer' \in BOOLEAN
    BY DEF BeginShutdown
  <1>4. CASE server = "listening"
    <2>1. server' = "closing" /\ closing' = "server" /\ kept' = 0
      BY <1>4 DEF BeginShutdown
    <2>2. LifecycleTypes'
      BY <1>1, <1>2, <1>3, <2>1, LifecycleAssumption DEF LifecycleInv, LifecycleTypes
    <2>3. (QuietUnlessServing /\ Drained /\ PoolClosedBy)'
      BY <1>1, <1>2, <1>4, <2>1 DEF LifecycleInv, QuietUnlessServing, Drained, PoolClosedBy, LoopActive
    <2> QED BY <2>2, <2>3 DEF LifecycleInv
  <1>5. CASE server # "listening"
    <2>1. server' = server /\ closing' = "sweep" /\ kept' = kept
      BY <1>5 DEF BeginShutdown
    <2>2. LifecycleTypes'
      BY <1>1, <1>2, <1>3, <2>1 DEF LifecycleInv, LifecycleTypes
    <2>3. phase # "serving"
      BY <1>1, <1>5 DEF LifecycleInv, Drained
    <2>4. (QuietUnlessServing /\ Drained /\ PoolClosedBy)'
      BY <1>1, <1>2, <2>1, <2>3 DEF LifecycleInv, QuietUnlessServing, Drained, PoolClosedBy, LoopActive
    <2> QED BY <2>2, <2>4 DEF LifecycleInv
  <1> QED BY <1>4, <1>5

LEMMA ShutdownInv ==
  ASSUME LifecycleInv, Signal \/ Shutdown
  PROVE  LifecycleInv'
  <1>1. CASE Signal
    BY <1>1, BeginInv DEF Signal
  <1>2. CASE LoopFailureHandled /\ BeginShutdown
    BY <1>2, BeginInv DEF LoopFailureHandled
  <1>3. CASE LoopFailureHandled /\ ~BeginShutdown
    BY <1>3 DEF LifecycleInv, LifecycleTypes, QuietUnlessServing, Drained, PoolClosedBy, LoopActive,
         LoopFailureHandled, health, http, probing, sweeper
  <1>4. CASE ServerClosed
    <2>1. /\ closing = "server" /\ requests = 0 /\ kept = 0
          /\ server' = "closed" /\ closing' = "sweep"
          /\ UNCHANGED <<phase, health, requests, kept, probing, sweeper, loop, tokens, pool, stopAsked>>
      BY <1>4 DEF ServerClosed
    <2>2. LifecycleTypes'
      BY <2>1 DEF LifecycleInv, LifecycleTypes, health, sweeper, loop
    <2>3. (QuietUnlessServing /\ Drained /\ PoolClosedBy)'
      BY <2>1 DEF LifecycleInv, QuietUnlessServing, Drained, PoolClosedBy, LoopActive,
           health, sweeper, loop
    <2> QED BY <2>2, <2>3 DEF LifecycleInv
  <1>5. CASE StopScheduler
    BY <1>5 DEF LifecycleInv, LifecycleTypes, QuietUnlessServing, Drained, PoolClosedBy, LoopActive,
         StopScheduler, health, http, probing, loop
  <1>6. CASE StopRuntime
    BY <1>6 DEF LifecycleInv, LifecycleTypes, QuietUnlessServing, Drained, PoolClosedBy, LoopActive,
         StopRuntime, health, http, probing, sweeper, loop
  <1>7. CASE CloseHandle
    BY <1>7 DEF LifecycleInv, LifecycleTypes, QuietUnlessServing, Drained, PoolClosedBy, LoopActive,
         CloseHandle, health, http, probing, sweeper, loop
  <1> QED BY <1>1, <1>2, <1>3, <1>4, <1>5, <1>6, <1>7 DEF Shutdown

LEMMA NextInv == LifecycleInv /\ Probed /\ [LifecycleNext]_lifecycle => LifecycleInv'
  <1> SUFFICES ASSUME LifecycleInv, Probed, [LifecycleNext]_lifecycle PROVE LifecycleInv'
    OBVIOUS
  <1>1. CASE LifecycleNext
    BY <1>1, StartInv, ConnectionInv, SweepInv, LoopInv, ShutdownInv DEF LifecycleNext
  <1>2. CASE UNCHANGED lifecycle
    BY <1>2 DEF lifecycle, health, http, sweeper, loop, LifecycleInv, LifecycleTypes, QuietUnlessServing,
         Drained, PoolClosedBy, LoopActive
  <1> QED BY <1>1, <1>2

\* Nothing but the probe's own steps and the beginning of a stop matters to it.
LEMMA ProbedKept ==
  ASSUME Probed, UNCHANGED <<requests, probe, late, stopAsked>>
  PROVE  Probed'
  BY DEF Probed

\* When a stop is asked for of a service with a request in flight, it serves.
LEMMA ProbedStop ==
  ASSUME LifecycleInv, Probed, BeginShutdown
  PROVE  Probed'
  <1>1. UNCHANGED <<requests, probe, late>> /\ stopAsked' = phase
    BY DEF BeginShutdown, probing
  <1>2. probe # "none" => phase = "serving"
    BY DEF LifecycleInv, LifecycleTypes, QuietUnlessServing, Probed
  <1> QED BY <1>1, <1>2 DEF Probed

LEMMA ProbedNext == LifecycleInv /\ Probed /\ [LifecycleNext]_lifecycle => Probed'
  <1> SUFFICES ASSUME LifecycleInv, Probed, [LifecycleNext]_lifecycle PROVE Probed'
    OBVIOUS
  <1>0. requests \in Nat
    BY LifecycleAssumption DEF LifecycleInv, LifecycleTypes
  <1>1. CASE Listening \/ StartFails \/ SweepBegins \/ SweepEnds \/ LoopHead \/ LoopStep \/ LoopFails \/ KeptCloses
    BY <1>1, ProbedKept DEF KeptCloses, Listening, StartFails, SweepBegins, SweepEnds, LoopHead, LoopStep, LoopFails,
       http, probing
  <1>2. CASE RequestArrives
    BY <1>0, <1>2 DEF RequestArrives, Arrives, Probed, probing
  <1>3. CASE RequestEnds
    <2>1. UNCHANGED <<probe, late, stopAsked>> /\ requests' = requests - 1
      BY <1>3 DEF RequestEnds, Departs
    <2>2. probe # "none" => requests > 1
      BY <1>3 DEF RequestEnds
    <2> QED BY <1>0, <2>1, <2>2 DEF Probed
  <1>4. CASE ReadyArrives
    <2>1. ready => stopAsked = "no"
      BY DEF LifecycleInv, Drained
    <2>2. requests' > 0 /\ stopAsked' = stopAsked
      BY <1>0, <1>4 DEF ReadyArrives, Arrives
    <2>3. late' \in BOOLEAN /\ (stopAsked = "no" => ~late')
      BY <1>4 DEF ReadyArrives
    <2>4. CASE ready
      <3>1. probe' = "checking"
        BY <1>4, <2>4 DEF ReadyArrives
      <3> QED BY <2>1, <2>2, <2>3, <2>4, <3>1 DEF Probed
    <2>5. CASE ~ready
      <3>1. probe' = "503"
        BY <1>4, <2>5 DEF ReadyArrives
      <3> QED BY <2>2, <2>3, <3>1 DEF Probed
    <2> QED BY <2>4, <2>5
  <1>5. CASE ReadyAnswered
    BY <1>5 DEF ReadyAnswered, Probed
  <1>6. CASE ReadyEnds
    BY <1>6 DEF ReadyEnds, Departs, Probed
  <1>7. CASE Signal \/ LoopFailureHandled
    BY <1>7, ProbedStop, ProbedKept DEF Signal, LoopFailureHandled, http, probing
  <1>8. CASE ServerClosed \/ StopScheduler \/ StopRuntime \/ CloseHandle
    BY <1>8, ProbedKept DEF ServerClosed, StopScheduler, StopRuntime, CloseHandle, http, probing
  <1>9. CASE UNCHANGED lifecycle
    BY <1>9, ProbedKept DEF lifecycle, http, probing
  <1> QED
    BY <1>1, <1>2, <1>3, <1>4, <1>5, <1>6, <1>7, <1>8, <1>9 DEF LifecycleNext, Shutdown

\* At every point of start and shutdown the flags, the drained parts, the pool and
\* the probe agree, in whatever order signals, failures and listen come.
THEOREM LifecycleInvariant == LifecycleSpec => [](LifecycleInv /\ Probed)
  <1>1. LifecycleInit => LifecycleInv /\ Probed
    BY InitInv DEF LifecycleInit, Probed
  <1> QED BY <1>1, NextInv, ProbedNext, PTL DEF LifecycleSpec

\* A /ready answered 200 was asked before any stop, of a service that still serves.
THEOREM ReadyMeansServing == LifecycleSpec => []ReadyIsServing
  <1>1. LifecycleInv /\ Probed => ReadyIsServing
    BY DEF LifecycleInv, LifecycleTypes, QuietUnlessServing, Drained, PoolClosedBy, Probed, ReadyIsServing
  <1> QED BY <1>1, LifecycleInvariant, PTL

\* The pool is closed after everybody who uses it is done, unless the service
\* was signalled before it served.
THEOREM PoolClosedLast == LifecycleSpec => []DrainedBeforeClose
  <1>1. LifecycleInv => DrainedBeforeClose
    BY DEF LifecycleInv, QuietUnlessServing, Drained, PoolClosedBy, DrainedBeforeClose, LoopActive
  <1> QED BY <1>1, LifecycleInvariant, PTL
=============================================================================
