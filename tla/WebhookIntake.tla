--------------------------- MODULE WebhookIntake ---------------------------
(***************************************************************************)
(* The intake of GitHub webhooks: GitHubWebhookService.handle, with         *)
(* processWebhook, normalizeGitHubWebhookEvent and the webhook_deliveries   *)
(* table of packages/db behind it.                                          *)
(*                                                                          *)
(* HTTP requests are handled concurrently (several in one process, or in    *)
(* several processes); every await of handle is a step of its own.  GitHub  *)
(* may send any delivery at any time and any number of times.  Requests     *)
(* that fail validation are answered without touching the table and are     *)
(* left out; a delivery in Malformed passes validation and fails            *)
(* normalisation, one in Workless names no pull request.                    *)
(***************************************************************************)
EXTENDS Integers, FiniteSets

CONSTANTS
  Deliveries,           \* X-GitHub-Delivery identifiers
  Malformed,            \* deliveries normalizeGitHubWebhookEvent turns into null
  Workless,             \* deliveries whose contributionNumber is null
  Handlers,             \* requests in flight at the same time
  None,                 \* a handler without a request
  MaxDeliveryAttempts,  \* MAX_DELIVERY_ATTEMPTS
  RecoverLimit,         \* recoverStaleClaims's limit
  Faults,               \* which of FaultKinds may happen
  MaxFaults,            \* bound: how many faults happen in a behaviour
  RecoveryWired,        \* somebody may call recoverStaleClaims (nobody does in src/)
  TimelyHandlers        \* a live handler is done before its claim is stale

\* As in JobQueue: the process dies; a statement fails without effect; a
\* statement is committed and reported as failed.
FaultKinds == {"crash", "dbError", "lostAck"}

ASSUME IntakeAssumption ==
  /\ Malformed \subseteq Deliveries
  /\ Workless \subseteq Deliveries
  /\ None \notin Deliveries
  /\ MaxDeliveryAttempts \in Nat \ {0}
  /\ RecoverLimit \in Nat \ {0}
  /\ MaxFaults \in Nat
  /\ Faults \subseteq FaultKinds
  /\ RecoveryWired \in BOOLEAN
  /\ TimelyHandlers \in BOOLEAN

VARIABLES
  delivery,   \* the webhook_deliveries table
  handler,    \* where each request stands
  accepted,   \* history: how often acceptNormalizedEvent took effect for a delivery
  faults      \* how many faults have happened

vars == <<delivery, handler, accepted, faults>>

\* Past the claim: the handler that is entitled to change the row.
Entitled  == {"claimed", "recorded", "accepted", "failing"}
Positions == Entitled \union {"idle", "inserting", "retrying"}

Row    == [status : {"absent", "CLAIMED", "PROCESSED", "FAILED"},
           attempts : 0 .. MaxDeliveryAttempts, retryable : BOOLEAN]
NoRow  == [status |-> "absent", attempts |-> 0, retryable |-> FALSE]
Idle   == [at |-> "idle", delivery |-> None]

TypeOK ==
  /\ delivery \in [Deliveries -> Row]
  /\ handler \in [Handlers -> [at : Positions, delivery : Deliveries \union {None}]]
  /\ accepted \in [Deliveries -> Nat]
  /\ faults \in 0 .. MaxFaults
  /\ \A h \in Handlers : handler[h].at # "idle" => handler[h].delivery \in Deliveries

Fault(f) ==
  /\ f \in Faults
  /\ faults < MaxFaults
  /\ faults' = faults + 1

\* Handler h moves from one await to the next; its request ends.
Goes(h, from, to) == handler[h].at = from /\ handler' = [handler EXCEPT ![h].at = to]
Ends(h, from)     == handler[h].at = from /\ handler' = [handler EXCEPT ![h] = Idle]

WorksOn(h, d) == handler[h].at \in Entitled /\ handler[h].delivery = d

-----------------------------------------------------------------------------
(* The statements of WebhookDeliveryRepository *)

Inserted      == [status |-> "CLAIMED", attempts |-> 1, retryable |-> FALSE]
Retried(r)    == [r EXCEPT !.status = "CLAIMED", !.attempts = @ + 1, !.retryable = FALSE]
Processed(r)  == [r EXCEPT !.status = "PROCESSED", !.retryable = FALSE]
Failed(r, retryable) == [r EXCEPT !.status = "FAILED", !.retryable = retryable]

\* Mutants of MayRetry: a claimed row may be taken over; one attempt too many;
\* the flag is read the wrong way round.
MayRetry_Claimed(r) ==
  /\ r.status \in {"FAILED", "CLAIMED"}
  /\ r.attempts < MaxDeliveryAttempts
MayRetry_OneMore(r) ==
  /\ r.status = "FAILED" /\ r.retryable /\ r.attempts <= MaxDeliveryAttempts
MayRetry_Unretryable(r) ==
  /\ r.status = "FAILED" /\ ~r.retryable /\ r.attempts < MaxDeliveryAttempts

\* What tryClaim's UPDATE asks of a row that is there already.
MayRetry(r) ==
  /\ r.status = "FAILED"
  /\ r.retryable
  /\ r.attempts < MaxDeliveryAttempts

-----------------------------------------------------------------------------
Init ==
  /\ delivery = [d \in Deliveries |-> NoRow]
  /\ handler = [h \in Handlers |-> Idle]
  /\ accepted = [d \in Deliveries |-> 0]
  /\ faults = 0

\* A request arrives (first delivery, network duplicate or redelivery) and
\* passes the signature check and processWebhook's validation.
Receive(h, d) ==
  /\ handler[h].at = "idle"
  /\ handler' = [handler EXCEPT ![h] = [at |-> "inserting", delivery |-> d]]
  /\ UNCHANGED <<delivery, accepted, faults>>

\* tryClaim's INSERT ... ON CONFLICT DO NOTHING.
ClaimNew(h) ==
  LET d == handler[h].delivery
  IN  /\ \/ /\ Goes(h, "inserting", "claimed")
            /\ delivery[d].status = "absent"
            /\ delivery' = [delivery EXCEPT ![d] = Inserted]
         \/ /\ Goes(h, "inserting", "retrying")
            /\ delivery[d].status # "absent"
            /\ UNCHANGED delivery
      /\ UNCHANGED <<accepted, faults>>

\* tryClaim's UPDATE; when it changes no row the request is answered with 202
\* DUPLICATE.
ClaimFailed(h) ==
  LET d == handler[h].delivery
  IN  /\ \/ /\ Goes(h, "retrying", "claimed")
            /\ MayRetry(delivery[d])
            /\ delivery' = [delivery EXCEPT ![d] = Retried(@)]
         \/ /\ Ends(h, "retrying")
            /\ ~MayRetry(delivery[d])
            /\ UNCHANGED delivery
      /\ UNCHANGED <<accepted, faults>>

\* recordMetadata writes no column of the protocol.
RecordMetadata(h) ==
  /\ Goes(h, "claimed", "recorded")
  /\ UNCHANGED <<delivery, accepted, faults>>

\* No normalised event: markFailed("NORMALIZATION_FAILED", false), then 422.
RejectMalformed(h) ==
  LET d == handler[h].delivery
  IN  /\ d \in Malformed
      /\ Ends(h, "recorded")
      /\ delivery' = [delivery EXCEPT ![d] = Failed(@, FALSE)]
      /\ UNCHANGED <<accepted, faults>>

\* acceptNormalizedEvent: the work is enqueued, is queued already, or there is
\* none to do.
Accept(h) ==
  LET d == handler[h].delivery
  IN  /\ d \notin Malformed
      /\ Goes(h, "recorded", "accepted")
      /\ accepted' = [accepted EXCEPT ![d] = @ + 1]
      /\ UNCHANGED <<delivery, faults>>

MarkProcessed(h) ==
  LET d == handler[h].delivery
  IN  /\ Ends(h, "accepted")
      /\ delivery' = [delivery EXCEPT ![d] = Processed(@)]
      /\ UNCHANGED <<accepted, faults>>

\* Mutant of MarkFailed: the failure is recorded as final.
MarkFailed_Final(h) ==
  LET d == handler[h].delivery
  IN  /\ Ends(h, "failing")
      /\ delivery' = [delivery EXCEPT ![d] = Processed(@)]
      /\ UNCHANGED <<accepted, faults>>

\* The catch block: markFailed("WEBHOOK_ENQUEUE_FAILED", true), then 500.
MarkFailed(h) ==
  LET d == handler[h].delivery
  IN  /\ Ends(h, "failing")
      /\ delivery' = [delivery EXCEPT ![d] = Failed(@, TRUE)]
      /\ UNCHANGED <<accepted, faults>>

\* A statement outside the try block rejects: handle rejects and the request
\* is answered with 500.  The row stays as it is.
UncaughtFailure(h) ==
  LET d == handler[h].delivery
  IN  \/ /\ \/ Ends(h, "inserting") \/ Ends(h, "retrying")
            \/ Ends(h, "claimed") \/ Ends(h, "failing")
            \/ d \in Malformed /\ Ends(h, "recorded")
         /\ Fault("dbError")
         /\ UNCHANGED <<delivery, accepted>>
      \/ /\ Fault("lostAck")
         /\ \/ /\ Ends(h, "inserting") /\ delivery[d].status = "absent"
               /\ delivery' = [delivery EXCEPT ![d] = Inserted]
            \/ /\ Ends(h, "retrying") /\ MayRetry(delivery[d])
               /\ delivery' = [delivery EXCEPT ![d] = Retried(@)]
            \/ /\ Ends(h, "claimed") /\ UNCHANGED delivery
            \/ /\ Ends(h, "failing")
               /\ delivery' = [delivery EXCEPT ![d] = Failed(@, TRUE)]
            \/ /\ d \in Malformed /\ Ends(h, "recorded")
               /\ delivery' = [delivery EXCEPT ![d] = Failed(@, FALSE)]
         /\ UNCHANGED accepted

\* A statement inside the try block rejects: the enqueue (a statement only
\* when there is work) or markProcessed.
CaughtFailure(h) ==
  LET d == handler[h].delivery
  IN  \/ /\ d \notin Malformed \union Workless
         /\ Goes(h, "recorded", "failing")
         /\ \/ Fault("dbError") /\ UNCHANGED accepted
            \/ Fault("lostAck") /\ accepted' = [accepted EXCEPT ![d] = @ + 1]
         /\ UNCHANGED delivery
      \/ /\ Goes(h, "accepted", "failing")
         /\ \/ Fault("dbError") /\ UNCHANGED delivery
            \/ Fault("lostAck") /\ delivery' = [delivery EXCEPT ![d] = Processed(@)]
         /\ UNCHANGED accepted

\* The process dies between two awaits.
Crash(h) ==
  /\ handler[h].at # "idle"
  /\ Fault("crash")
  /\ handler' = [handler EXCEPT ![h] = Idle]
  /\ UNCHANGED <<delivery, accepted>>

\* A claimed delivery that no request is at work on.
Parked(d) == delivery[d].status = "CLAIMED" /\ \A h \in Handlers : ~WorksOn(h, d)

\* Claims whose handler is gone grow stale; without TimelyHandlers any may.
StaleClaims ==
  {d \in Deliveries : delivery[d].status = "CLAIMED" /\ (TimelyHandlers => Parked(d))}

\* recoverStaleClaims: up to limit stale claims are marked failed, retryable.
RecoverStaleClaims ==
  /\ RecoveryWired
  /\ \E D \in SUBSET StaleClaims :
       /\ D # {} /\ Cardinality(D) <= RecoverLimit
       /\ delivery' = [d \in Deliveries |-> IF d \in D THEN Failed(delivery[d], TRUE)
                                            ELSE delivery[d]]
  /\ UNCHANGED <<handler, accepted, faults>>

Handle(h) ==
  \/ ClaimNew(h) \/ ClaimFailed(h) \/ RecordMetadata(h) \/ RejectMalformed(h)
  \/ Accept(h) \/ MarkProcessed(h) \/ MarkFailed(h)
  \/ UncaughtFailure(h) \/ CaughtFailure(h)

Next ==
  \/ \E h \in Handlers : (\E d \in Deliveries : Receive(h, d)) \/ Handle(h) \/ Crash(h)
  \/ RecoverStaleClaims

Spec == Init /\ [][Next]_vars

\* A delivery that is neither processed nor beyond retrying.
Concluded(d) ==
  \/ delivery[d].status = "PROCESSED"
  \/ /\ delivery[d].status = "FAILED"
     /\ ~delivery[d].retryable \/ delivery[d].attempts >= MaxDeliveryAttempts

\* A request under way goes on.  GitHub and operators redeliver nothing on their
\* own account, and nobody has to recover stale claims.
Fairness == \A h \in Handlers : WF_vars(Handle(h))

FairSpec == Spec /\ Fairness

-----------------------------------------------------------------------------
(* Properties *)

\* Nobody recovers stale claims (as in src/), or only after their handlers ended.
SafeRecovery == RecoveryWired => TimelyHandlers
NoLostAck  == "lostAck" \notin Faults

\* A delivery is past its claim in at most one request, however many copies of
\* it arrive while it is being handled or after it failed.
OneHandlerPerDelivery ==
  \A g, h \in Handlers : \A d \in Deliveries : WorksOn(g, d) /\ WorksOn(h, d) => g = h

\* The request that is past the claim owns the row: it is CLAIMED, or its
\* markProcessed was committed and reported as failed.
ClaimIsOwned ==
  \A h \in Handlers : \A d \in Deliveries : WorksOn(h, d) =>
    \/ delivery[d].status = "CLAIMED"
    \/ delivery[d].status = "PROCESSED" /\ handler[h].at = "failing" /\ ~NoLostAck

\* A delivery marked PROCESSED has handed its event to the queue: nothing that
\* is answered DUPLICATE on account of it is lost.
HandedOverBeforeProcessed ==
  \A d \in Deliveries : delivery[d].status = "PROCESSED" => accepted[d] > 0

\* Every hand-over to the queue is covered by an attempt of its delivery.
AcceptsCovered ==
  /\ \A d \in Deliveries : accepted[d] <= delivery[d].attempts
  /\ \A d \in Deliveries : delivery[d].status = "absent" => accepted[d] = 0
  /\ \A h \in Handlers : \A d \in Deliveries : WorksOn(h, d) =>
       /\ handler[h].at \in {"claimed", "recorded"} => accepted[d] < delivery[d].attempts
       /\ handler[h].at = "accepted" => accepted[d] > 0

\* The inductive invariant of the intake with safe recovery.
IntakeInv ==
  /\ TypeOK
  /\ OneHandlerPerDelivery
  /\ ClaimIsOwned
  /\ HandedOverBeforeProcessed
  /\ AcceptsCovered

\* However often GitHub sends a delivery, and whatever fails in between, its
\* event reaches the queue at most MAX_DELIVERY_ATTEMPTS times.
AcceptsBounded == \A d \in Deliveries : accepted[d] <= MaxDeliveryAttempts

\* A processed delivery is reopened by no copy of it: only the request whose own
\* markProcessed was reported as failed marks it failed again.
ReopenedOnlyByItsHandler ==
  [][\A d \in Deliveries :
       delivery[d].status = "PROCESSED" /\ delivery'[d] # delivery[d] =>
         \E h \in Handlers : WorksOn(h, d) /\ handler[h].at = "failing"]_vars

\* A delivery that has reached the table and keeps being redelivered is settled in
\* the end: processed, failed beyond retrying, or parked CLAIMED, which is where a
\* crash or a failing recordMetadata leaves it and no redelivery takes it up again.
Redelivered(d) == \E h \in Handlers : Receive(h, d)

RedeliveredConcludesOrParks ==
  \A d \in Deliveries :
    []<><<Redelivered(d)>>_vars =>
      <>[](delivery[d].status # "absent" /\ (Concluded(d) \/ Parked(d)))
=============================================================================
