------------------------------ MODULE JobQueue ------------------------------
(***************************************************************************)
(* The durable work queue of packages/worker and of the worker_jobs table   *)
(* of packages/db: producers insert jobs under a deduplication key, worker  *)
(* processes claim a due job, run its handler and record the outcome.       *)
(*                                                                          *)
(* Each SQL statement (or transaction) is one atomic step; everything       *)
(* between two awaits of WorkerRunner.runOnce is a step of its own, so that *)
(* crashes, database errors and the other workers fall between them.        *)
(*                                                                          *)
(* Time is relative: a row holds how long until it is due, and Tick moves   *)
(* all of them.  Overdue bounds how far in the past a due time is           *)
(* remembered.  How old a claim is, is abstracted: a claim may be stale as  *)
(* soon as no worker is at work on it.                                      *)
(***************************************************************************)
EXTENDS Integers, FiniteSets

CONSTANTS
  Jobs,            \* identities of rows (randomUUID in enqueue.ts)
  Keys,            \* deduplication keys
  Workers,         \* processes, each running one WorkerLoop
  None,            \* the null of a column or of a worker without a job
  MaxAttempts,     \* retryPolicy.maxAttempts
  BaseDelay,       \* retryPolicy.baseDelayMs
  MaxDelay,        \* retryPolicy.maxDelayMs
  Overdue,         \* bound: ticks past the due time that are told apart
  Faults,          \* which of FaultKinds may happen
  MaxFaults,       \* bound: how many faults happen in a behaviour
  RecoveryWired,   \* somebody may call recoverStaleClaims (nobody does in src/)
  TimelyHandlers   \* a live worker records its outcome before its claim is stale

\* crash: the process dies.  dbError: a statement fails and has no effect.
\* lostAck: a statement is committed but the caller sees an error.
FaultKinds == {"crash", "dbError", "lostAck"}

ASSUME QueueAssumption ==
  /\ MaxAttempts \in Nat \ {0}
  /\ BaseDelay \in Nat
  /\ MaxDelay \in Nat
  /\ Overdue \in Nat
  /\ MaxFaults \in Nat
  /\ Faults \subseteq FaultKinds
  /\ RecoveryWired \in BOOLEAN
  /\ TimelyHandlers \in BOOLEAN
  /\ None \notin Jobs \union Keys

VARIABLES
  row,      \* the worker_jobs table
  runner,   \* what each worker process is doing
  runs,     \* history: handler runs of each row, without those recovery took back
  faults    \* how many faults have happened

vars == <<row, runner, runs, faults>>

Statuses == {"absent", "QUEUED", "CLAIMED", "COMPLETED", "DEAD"}
Active   == {"QUEUED", "CLAIMED"}
Terminal == {"COMPLETED", "DEAD"}

\* Where runOnce stands: polling, awaiting the handler, awaiting
\* markCompleted, or in the catch block with a classified failure.
Failing   == {"failedRetryable", "failedFatal"}
Working   == {"handling", "succeeded"} \union Failing
Positions == Working \union {"polling", "down"}

Row    == [key : Keys \union {None}, status : Statuses, attempt : 0 .. MaxAttempts - 1,
           due : Int]
Runner == [at : Positions, job : Jobs \union {None}, attempt : 0 .. MaxAttempts - 1]

NoRow   == [key |-> None, status |-> "absent", attempt |-> 0, due |-> 0]
Polling == [at |-> "polling", job |-> None, attempt |-> 0]
Down    == [at |-> "down", job |-> None, attempt |-> 0]

TypeOK ==
  /\ row \in [Jobs -> Row]
  /\ runner \in [Workers -> Runner]
  /\ runs \in [Jobs -> Nat]
  /\ faults \in 0 .. MaxFaults
  /\ \A w \in Workers : runner[w].at \in Working => runner[w].job \in Jobs

\* getWorkerRetryDelayMs: exponential backoff, capped.
Delay(n) ==
  LET exponential == BaseDelay * 2 ^ (n - 1)
  IN  IF exponential < MaxDelay THEN exponential ELSE MaxDelay

\* Mutant of KeyTaken: the index covers queued rows only.
KeyTaken_QueuedOnly(k, others) ==
  \E i \in others : row[i].key = k /\ row[i].status = "QUEUED"

\* The partial unique index worker_jobs_active_deduplication_key_uq: one of
\* the rows "others" holds key k in an active status.
KeyTaken(k, others) ==
  \E i \in others : row[i].key = k /\ row[i].status \in Active

\* A fault of kind f happens now.
Fault(f) ==
  /\ f \in Faults
  /\ faults < MaxFaults
  /\ faults' = faults + 1

-----------------------------------------------------------------------------
(* The statements of WorkerJobRepository, as the row they leave behind. *)

Claimed(r)            == [r EXCEPT !.status = "CLAIMED", !.due = 0]
Completed(r)          == [r EXCEPT !.status = "COMPLETED"]
Dead(r)               == [r EXCEPT !.status = "DEAD"]
Requeued(r, n, delay) == [r EXCEPT !.status = "QUEUED", !.attempt = n, !.due = delay]

\* Mutant of IsNext: the status is not looked at.
IsNext_AnyStatus(j) == row[j].status # "absent" /\ row[j].due <= 0

\* The row claimNext selects: queued, due, and none due earlier.
IsNext(j) ==
  /\ row[j].status = "QUEUED"
  /\ row[j].due <= 0
  /\ \A i \in Jobs : row[i].status = "QUEUED" => row[j].due <= row[i].due

\* Mutants of Exhausted: one try too many, one too few.
Exhausted_OneMore(w) == runner[w].at = "failedFatal" \/ runner[w].attempt + 1 > MaxAttempts
Exhausted_OneLess(w) == runner[w].at = "failedFatal" \/ runner[w].attempt + 2 >= MaxAttempts

\* The failure runner w has caught leaves no further try.
Exhausted(w) == runner[w].at = "failedFatal" \/ runner[w].attempt + 1 >= MaxAttempts

\* What runner w writes in its catch block: DEAD when the failure is not
\* retryable or the budget is spent, otherwise QUEUED with a backoff.
FailureRow(w) ==
  LET r    == row[runner[w].job]
      next == runner[w].attempt + 1
  IN  IF Exhausted(w) THEN Dead(r) ELSE Requeued(r, next, Delay(next))

\* reschedule would make a second active row of its key: Postgres 23505.
Conflicts(w) ==
  LET j == runner[w].job
  IN  ~Exhausted(w) /\ KeyTaken(row[j].key, Jobs \ {j})

-----------------------------------------------------------------------------
Init ==
  /\ row = [j \in Jobs |-> NoRow]
  /\ runner = [w \in Workers |-> Polling]
  /\ runs = [j \in Jobs |-> 0]
  /\ faults = 0

\* enqueue: INSERT ... ON CONFLICT DO NOTHING.  With an active row of the key
\* the statement inserts nothing and returns false, a stuttering step.
Enqueue(j, k) ==
  /\ row[j].status = "absent"
  /\ ~KeyTaken(k, Jobs)
  /\ row' = [row EXCEPT ![j] = [NoRow EXCEPT !.key = k, !.status = "QUEUED"]]
  /\ UNCHANGED <<runner, runs, faults>>

\* claimNext finds a row: the transaction marks it and the handler is called.
ClaimNext(w, j) ==
  /\ runner[w].at = "polling"
  /\ IsNext(j)
  /\ row' = [row EXCEPT ![j] = Claimed(@)]
  /\ runner' = [runner EXCEPT ![w] = [at |-> "handling", job |-> j,
                                      attempt |-> row[j].attempt]]
  /\ runs' = [runs EXCEPT ![j] = @ + 1]
  /\ UNCHANGED faults

\* claimNext rejects: outside the try block, so runOnce and the loop end.
ClaimNextFails(w) ==
  /\ runner[w].at = "polling"
  /\ runner' = [runner EXCEPT ![w] = Down]
  /\ \/ Fault("dbError") /\ UNCHANGED row
     \/ /\ Fault("lostAck")
        /\ \E j \in Jobs : IsNext(j) /\ row' = [row EXCEPT ![j] = Claimed(@)]
  /\ UNCHANGED runs

HandleSucceeds(w) ==
  /\ runner[w].at = "handling"
  /\ runner' = [runner EXCEPT ![w].at = "succeeded"]
  /\ UNCHANGED <<row, runs, faults>>

\* The handler throws; classifyWorkerFailure decides whether it may be retried.
HandleFails(w, outcome) ==
  /\ runner[w].at = "handling"
  /\ outcome \in Failing
  /\ runner' = [runner EXCEPT ![w].at = outcome]
  /\ UNCHANGED <<row, runs, faults>>

\* markCompleted: by id alone, whatever the row has become meanwhile.
MarkCompleted(w) ==
  /\ runner[w].at = "succeeded"
  /\ row' = [row EXCEPT ![runner[w].job] = Completed(@)]
  /\ runner' = [runner EXCEPT ![w] = Polling]
  /\ UNCHANGED <<runs, faults>>

\* markCompleted rejects inside the try block: work that was done is treated
\* as a failed try (an unclassified error is retryable).
MarkCompletedFails(w) ==
  /\ runner[w].at = "succeeded"
  /\ runner' = [runner EXCEPT ![w].at = "failedRetryable"]
  /\ \/ Fault("dbError") /\ UNCHANGED row
     \/ Fault("lostAck") /\ row' = [row EXCEPT ![runner[w].job] = Completed(@)]
  /\ UNCHANGED runs

\* markDead or reschedule, again by id alone.
RecordFailure(w) ==
  /\ runner[w].at \in Failing
  /\ ~Conflicts(w)
  /\ row' = [row EXCEPT ![runner[w].job] = FailureRow(w)]
  /\ runner' = [runner EXCEPT ![w] = Polling]
  /\ UNCHANGED <<runs, faults>>

\* They reject: runOnce rejects, the loop ends and the service shuts down.
RecordFailureFails(w) ==
  /\ runner[w].at \in Failing
  /\ runner' = [runner EXCEPT ![w] = Down]
  /\ \/ Fault("dbError") /\ UNCHANGED row
     \/ /\ Fault("lostAck") /\ ~Conflicts(w)
        /\ row' = [row EXCEPT ![runner[w].job] = FailureRow(w)]
     \/ Conflicts(w) /\ UNCHANGED <<row, faults>>
  /\ UNCHANGED runs

Crash(w) ==
  /\ runner[w].at # "down"
  /\ Fault("crash")
  /\ runner' = [runner EXCEPT ![w] = Down]
  /\ UNCHANGED <<row, runs>>

\* The supervisor starts the process again; it knows nothing of its past.
Restart(w) ==
  /\ runner[w].at = "down"
  /\ runner' = [runner EXCEPT ![w] = Polling]
  /\ UNCHANGED <<row, runs, faults>>

\* Runner w is at work on row j; no runner is, although the row is claimed.
WorksOn(w, j) == runner[w].at \in Working /\ runner[w].job = j
Abandoned(j)  == row[j].status = "CLAIMED" /\ ~\E w \in Workers : WorksOn(w, j)

\* Mutant of StaleClaims: the threshold is shorter than a handler may run.
StaleClaims_TooSoon == {j \in Jobs : row[j].status = "CLAIMED"}

\* Claims that may be older than the threshold; without TimelyHandlers any may.
StaleClaims == {j \in Jobs : row[j].status = "CLAIMED" /\ (TimelyHandlers => Abandoned(j))}

\* recoverStaleClaims: stale claims go back to the queue, due now, their attempt
\* count unchanged; a run that had begun is not charged.
RecoverStaleClaims ==
  /\ RecoveryWired
  /\ \E J \in SUBSET StaleClaims :
       /\ J # {}
       /\ row' = [j \in Jobs |-> IF j \in J THEN Requeued(row[j], row[j].attempt, 0)
                                 ELSE row[j]]
       /\ runs' = [j \in Jobs |-> IF j \in J THEN row[j].attempt ELSE runs[j]]
  /\ UNCHANGED <<runner, faults>>

\* Mutant of Aged: waiting rows never become due.
Aged_NeverDue(r) == r

\* A unit of time passes.
Aged(r) == [r EXCEPT !.due = IF r.status = "QUEUED" /\ @ > -Overdue THEN @ - 1 ELSE @]

Tick ==
  /\ row' = [j \in Jobs |-> Aged(row[j])]
  /\ UNCHANGED <<runner, runs, faults>>

Work(w) ==
  \/ \E j \in Jobs : ClaimNext(w, j)
  \/ HandleSucceeds(w) \/ \E outcome \in Failing : HandleFails(w, outcome)
  \/ MarkCompleted(w) \/ MarkCompletedFails(w)
  \/ RecordFailure(w) \/ RecordFailureFails(w)

Next ==
  \/ \E j \in Jobs, k \in Keys : Enqueue(j, k)
  \/ \E w \in Workers : Work(w) \/ ClaimNextFails(w) \/ Crash(w) \/ Restart(w)
  \/ RecoverStaleClaims
  \/ Tick

Spec == Init /\ [][Next]_vars

\* The event loop of a live process keeps running its one chain of awaits, a
\* dead process is restarted, and time passes.  Producers and faults owe
\* nothing, and nobody has to recover stale claims.
Fairness ==
  /\ \A w \in Workers : WF_vars(Work(w)) /\ WF_vars(Restart(w))
  /\ WF_vars(Tick)

FairSpec == Spec /\ Fairness

-----------------------------------------------------------------------------
(* Properties *)

\* Nobody recovers stale claims (as in src/), or only those of workers that are gone.
SafeRecovery == RecoveryWired => TimelyHandlers
NoLostAck    == "lostAck" \notin Faults

\* Two workers never run the handler for one deduplication key at the same
\* time: the claim, the unique index and the unfenced updates of
\* worker-job-repository.ts together keep two reconciliations of one pull
\* request apart.
OneRunnerPerKey ==
  \A v, w \in Workers :
    v # w /\ runner[v].at = "handling" /\ runner[w].at = "handling"
      => row[runner[v].job].key # row[runner[w].job].key

\* A worker's view of its job stays true until it has recorded an outcome:
\* nobody else changed the row, so the updates by id hit the claim they were
\* meant for.  (After a completion whose acknowledgement was lost the row is
\* COMPLETED while the worker believes it failed.)
ClaimStaysMine ==
  \A w \in Workers : runner[w].at \in Working =>
    LET r == row[runner[w].job]
    IN  /\ r.attempt = runner[w].attempt
        /\ \/ r.status = "CLAIMED"
           \/ r.status = "COMPLETED" /\ runner[w].at = "failedRetryable" /\ ~NoLostAck

\* No two workers are at work on the same row.
OneRunnerPerRow ==
  \A v, w \in Workers : \A j \in Jobs : WorksOn(v, j) /\ WorksOn(w, j) => v = w

\* The unique index at work: at most one active row per key.
OneActiveRowPerKey ==
  \A i, j \in Jobs :
    row[i].status \in Active /\ row[j].status \in Active /\ row[i].key = row[j].key
      => i = j

\* Only a row that was never inserted has no key.
KeysKnown == \A j \in Jobs : row[j].status # "absent" => row[j].key \in Keys

\* Every run of the handler is accounted for by the attempt counter of the
\* row, except the one under way or the last one.  (The claim whose
\* acknowledgement was lost started no handler.)
RunsAccounted ==
  \A j \in Jobs :
    /\ row[j].status = "absent" => runs[j] = 0
    /\ row[j].status = "QUEUED" => runs[j] = row[j].attempt
    /\ row[j].status = "CLAIMED" => runs[j] \in {row[j].attempt, row[j].attempt + 1}
    /\ row[j].status \in Terminal => runs[j] = row[j].attempt + 1
    /\ \A w \in Workers : WorksOn(w, j) => runs[j] = row[j].attempt + 1

\* The inductive invariant of the queue.
QueueInv ==
  /\ TypeOK
  /\ ClaimStaysMine
  /\ OneRunnerPerRow
  /\ OneActiveRowPerKey
  /\ KeysKnown
  /\ RunsAccounted

\* The budget of handler runs is never exceeded: every run but the last is
\* charged to the row before the next may start.
RunsWithinBudget == \A j \in Jobs : runs[j] <= MaxAttempts

\* A job that was completed or given up is never touched again.
TerminalIsFinal ==
  [][\A j \in Jobs : row[j].status \in Terminal => row'[j] = row[j]]_vars

\* A job dies only with a failure that cannot be retried or with its whole
\* budget of handler runs spent.
DeadOnlyWhenSpent ==
  [][\A j \in Jobs : row[j].status # "DEAD" /\ row'[j].status = "DEAD" =>
       \/ runs[j] = MaxAttempts
       \/ \E w \in Workers : WorksOn(w, j) /\ runner[w].at = "failedFatal"]_vars

\* What the producers see: the rows of a key add up to one task.
ActiveRow(k) == CHOOSE j \in Jobs : row[j].key = k /\ row[j].status \in Active

StateOf(j) == IF row[j].status = "QUEUED" THEN "pending"
              ELSE IF Abandoned(j) THEN "stranded" ELSE "running"

TaskOf(k) ==
  IF ~KeyTaken(k, Jobs) THEN [state |-> "idle", failures |-> 0]
  ELSE [state |-> StateOf(ActiveRow(k)), failures |-> row[ActiveRow(k)].attempt]

TaskMap == [k \in Keys |-> TaskOf(k)]

Board == INSTANCE WorkBoard WITH task <- TaskMap, MayReturn <- RecoveryWired,
                                 MayReopen <- ~NoLostAck

\* The queue implements the board: one task per key, at most one worker on
\* it, failures charged one by one.
ImplementsBoard == Board!BoardSafety

\* ... and the board's fairness: pending work is started, started work ends or
\* is stranded.
ImplementsBoardFairly == Board!BoardSpec

\* Every job that was accepted is completed or given up in the end, unless its
\* worker has abandoned it: a busy queue, backoffs, failing statements and dying
\* workers hold up no other job.
JobsSettleUnlessAbandoned ==
  \A j \in Jobs : row[j].status \in Active ~> row[j].status \in Terminal \/ Abandoned(j)

\* Jobs that a crashed worker has left CLAIMED come back ("Jobs left in `CLAIMED`
\* after a worker crash can be returned to `QUEUED`",
\* docs/product/phase-5-worker.md).
AbandonedJobsReturn == \A j \in Jobs : Abandoned(j) ~> ~Abandoned(j)
=============================================================================
