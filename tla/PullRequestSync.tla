--------------------------- MODULE PullRequestSync ---------------------------
(***************************************************************************)
(* How the stored picture of each pull request follows GitHub: webhooks     *)
(* enqueue a reconciliation of the pull request they name, a timer enqueues *)
(* a sweep that enqueues one for every contribution on record, and a        *)
(* reconciliation stores what it read.                                      *)
(*                                                                          *)
(* The queue is the WorkBoard that JobQueue implements.  The content of a   *)
(* pull request is its version number; a webhook carries none, it only says *)
(* that something changed.  One installation with one repository, both on   *)
(* record.  As the program is wired nobody recovers stale claims, so a job  *)
(* whose worker is gone keeps its key for good.                             *)
(***************************************************************************)
EXTENDS Naturals

CONSTANTS
  PullRequests,
  Sweep,          \* deduplication key of the installation's sweep
  Unlisted,       \* the running sweep has not listed the contributions yet
  MaxAttempts,    \* retryPolicy.maxAttempts
  MaxVersion,     \* bound: versions of a pull request
  MaxChanges,     \* bound: changes of all pull requests together
  MaxInFlight,    \* bound: webhooks of one pull request under way at a time
  MaxFailures     \* bound: failed tries and lost workers in a behaviour

ASSUME SyncAssumption ==
  /\ Sweep \notin PullRequests
  /\ MaxAttempts \in Nat \ {0}
  /\ {MaxVersion, MaxChanges, MaxInFlight, MaxFailures} \subseteq Nat

VARIABLES
  actual,     \* version of each pull request on GitHub, 0: not opened
  webhooks,   \* how many webhooks of each pull request are under way
  task,       \* the queue, see WorkBoard
  run,        \* the reconciliation of each pull request
  todo,       \* contributions the running sweep has still to enqueue
  stored,     \* version on record, 0: no contribution row
  missed,     \* history: pull requests with a change that no webhook will bring
  changes, failures   \* counters for the bounds

github == <<actual, webhooks, changes>>
vars   == <<github, task, run, todo, stored, missed, failures>>

Keys == PullRequests \union {Sweep}

Board == INSTANCE WorkBoard WITH MayReturn <- FALSE, MayReopen <- TRUE

TaskStates == {"idle", "pending", "running", "stranded"}

\* claimed: the executor has not asked GitHub yet; reading: requests are under
\* way and have seen version `seen' or a later one; read: reconcilePullRequest
\* has returned; stored: the transaction is committed.
Fresh   == [at |-> "claimed", seen |-> 0]
Run     == [at : {"claimed", "reading", "read", "stored"}, seen : Nat]

TypeOK ==
  /\ actual \in [PullRequests -> Nat]
  /\ webhooks \in [PullRequests -> Nat]
  /\ task \in [Keys -> [state : TaskStates, failures : Nat]]
  /\ run \in [PullRequests -> Run]
  /\ todo = Unlisted \/ todo \subseteq PullRequests
  /\ stored \in [PullRequests -> Nat]
  /\ missed \subseteq PullRequests
  /\ changes \in Nat /\ failures \in Nat

Init ==
  /\ actual = [p \in PullRequests |-> 0]
  /\ webhooks = [p \in PullRequests |-> 0]
  /\ Board!Init
  /\ run = [p \in PullRequests |-> Fresh]
  /\ todo = Unlisted
  /\ stored = [p \in PullRequests |-> 0]
  /\ missed = {}
  /\ changes = 0 /\ failures = 0

-----------------------------------------------------------------------------
(* GitHub *)

\* The pull request is opened or changes, and GitHub sends a webhook.
Change(p) ==
  /\ actual[p] < MaxVersion /\ changes < MaxChanges /\ webhooks[p] < MaxInFlight
  /\ actual' = [actual EXCEPT ![p] = @ + 1]
  /\ webhooks' = [webhooks EXCEPT ![p] = @ + 1]
  /\ changes' = changes + 1
  /\ UNCHANGED <<task, run, todo, stored, missed, failures>>

\* A webhook never arrives, or the intake parks it.
Lose(p) ==
  /\ webhooks[p] > 0
  /\ webhooks' = [webhooks EXCEPT ![p] = @ - 1]
  /\ missed' = missed \union {p}
  /\ UNCHANGED <<actual, changes, task, run, todo, stored, failures>>

\* A copy of an earlier webhook is under way.
Redeliver(p) ==
  /\ actual[p] > 0 /\ webhooks[p] < MaxInFlight
  /\ webhooks' = [webhooks EXCEPT ![p] = @ + 1]
  /\ UNCHANGED <<actual, changes, task, run, todo, stored, missed, failures>>

-----------------------------------------------------------------------------
(* Producers of work *)

\* enqueue: absorbed while the key has an active row.
Ask(k) == IF task[k].state = "idle" THEN Board!Request(k) ELSE UNCHANGED task

\* A reconciliation of p that starts to read from now on is certain.
WillRead(p) ==
  \/ task[p].state = "pending"
  \/ task[p].state = "running" /\ run[p].at = "claimed"

\* acceptNormalizedEvent: ENQUEUED, or DUPLICATE while the key is active.
AcceptWebhook(p) ==
  /\ webhooks[p] > 0
  /\ webhooks' = [webhooks EXCEPT ![p] = @ - 1]
  /\ Ask(p)
  /\ missed' = IF task[p].state = "idle" \/ WillRead(p) THEN missed ELSE missed \union {p}
  /\ UNCHANGED <<actual, changes, run, todo, stored, failures>>

\* SweepScheduler: the interval has passed.
ScheduleSweep ==
  /\ Board!Request(Sweep)
  /\ UNCHANGED <<github, run, todo, stored, missed, failures>>

\* Mutant of ListContributions: repositoryId null is looked up as a repository.
ListContributions_None ==
  /\ task[Sweep].state = "running" /\ todo = Unlisted
  /\ todo' = {}
  /\ UNCHANGED <<github, task, run, stored, missed, failures>>

\* DatabaseBackedSweepExecutor: the contributions of the repository ...
ListContributions ==
  /\ task[Sweep].state = "running" /\ todo = Unlisted
  /\ todo' = {p \in PullRequests : stored[p] > 0}
  /\ UNCHANGED <<github, task, run, stored, missed, failures>>

\* ... and one awaited enqueue for each.
EnqueueListed(p) ==
  /\ task[Sweep].state = "running" /\ todo # Unlisted /\ p \in todo
  /\ todo' = todo \ {p}
  /\ Ask(p)
  /\ UNCHANGED <<github, run, stored, missed, failures>>

-----------------------------------------------------------------------------
(* Workers *)

\* Mutant of StartJob: what an earlier run has read is kept.
StartJob_Keeps(k) ==
  /\ Board!Start(k)
  /\ todo' = IF k = Sweep THEN Unlisted ELSE todo
  /\ UNCHANGED <<github, run, stored, missed, failures>>

StartJob(k) ==
  /\ Board!Start(k)
  /\ run' = IF k = Sweep THEN run ELSE [run EXCEPT ![k] = Fresh]
  /\ todo' = IF k = Sweep THEN Unlisted ELSE todo
  /\ UNCHANGED <<github, stored, missed, failures>>

\* The first request to GitHub is answered: every later answer is as new.
BeginRead(p) ==
  /\ task[p].state = "running" /\ run[p].at = "claimed"
  /\ run' = [run EXCEPT ![p] = [at |-> "reading", seen |-> actual[p]]]
  /\ missed' = missed \ {p}
  /\ UNCHANGED <<github, task, todo, stored, failures>>

\* Mutant of EndRead: an answer kept from an earlier run is taken.
EndRead_Cached(p) ==
  /\ task[p].state = "running" /\ run[p].at = "reading"
  /\ \E v \in 1 .. actual[p] : run' = [run EXCEPT ![p] = [at |-> "read", seen |-> v]]
  /\ UNCHANGED <<github, task, todo, stored, missed, failures>>

\* The requests together show some version between the first and the last.
EndRead(p) ==
  /\ task[p].state = "running" /\ run[p].at = "reading"
  /\ \E v \in run[p].seen .. actual[p] : run' = [run EXCEPT ![p] = [at |-> "read", seen |-> v]]
  /\ UNCHANGED <<github, task, todo, stored, missed, failures>>

\* persistReconciliationTransaction
Persist(p) ==
  /\ task[p].state = "running" /\ run[p].at = "read"
  /\ stored' = [stored EXCEPT ![p] = run[p].seen]
  /\ run' = [run EXCEPT ![p].at = "stored"]
  /\ UNCHANGED <<github, task, todo, missed, failures>>

JobDone(k) == IF k = Sweep THEN todo = {} ELSE run[k].at = "stored"

\* markCompleted
CompleteJob(k) ==
  /\ JobDone(k)
  /\ Board!Finish(k)
  /\ UNCHANGED <<github, run, todo, stored, missed, failures>>

\* Any statement or request of the job rejects, or the reconciliation is
\* deferred: the job is tried again or, with a failure that cannot be retried or
\* with its budget spent, given up.
FailJob(k) ==
  /\ failures < MaxFailures
  /\ failures' = failures + 1
  /\ \/ Board!Retry(k) /\ UNCHANGED missed
     \/ /\ Board!Finish(k)
        /\ missed' = (missed \union {k}) \ {Sweep}
  /\ UNCHANGED <<github, run, todo, stored>>

\* The worker of the job is gone, or its claim was committed and never
\* acknowledged: the row stays CLAIMED.  What the job has read is lost with it.
StrandJob(k) ==
  /\ failures < MaxFailures
  /\ failures' = failures + 1
  /\ Board!Strand(k)
  /\ missed' = (missed \union {k}) \ {Sweep}
  /\ UNCHANGED <<github, run, todo, stored>>

\* markCompleted was committed and reported as failed: reschedule puts the job
\* back in the queue although it is done.
ReopenJob(k) ==
  /\ failures < MaxFailures
  /\ failures' = failures + 1
  /\ Board!Reopen(k)
  /\ UNCHANGED <<github, run, todo, stored, missed>>

Reconcile(p) == BeginRead(p) \/ EndRead(p) \/ Persist(p)

RunSweep == ListContributions \/ \E p \in PullRequests : EnqueueListed(p)

Next ==
  \/ \E p \in PullRequests : Change(p) \/ Lose(p) \/ Redeliver(p) \/ AcceptWebhook(p)
  \/ ScheduleSweep \/ RunSweep
  \/ \E p \in PullRequests : Reconcile(p)
  \/ \E k \in Keys : StartJob(k) \/ CompleteJob(k) \/ FailJob(k)
                       \/ StrandJob(k) \/ ReopenJob(k)

Spec == Init /\ [][Next]_vars

\* The timer keeps firing and the board's own fairness, which the queue provides
\* with nobody recovering claims: pending jobs are started and running jobs go on,
\* unless they are stranded.  A webhook that arrives is handled.  GitHub owes
\* neither changes nor deliveries.
Fairness ==
  /\ WF_vars(ScheduleSweep) /\ WF_vars(RunSweep)
  /\ \A p \in PullRequests : WF_vars(Reconcile(p)) /\ WF_vars(AcceptWebhook(p))
  /\ \A k \in Keys : WF_vars(StartJob(k)) /\ WF_vars(CompleteJob(k))

FairSpec == Spec /\ Fairness

-----------------------------------------------------------------------------
(* Properties *)

\* What a reconciliation has read is no older than what is on record, and what
\* is on record was GitHub's state once.
ReadsAreFresh ==
  \A p \in PullRequests :
    /\ stored[p] <= actual[p]
    /\ task[p].state = "running" /\ run[p].at # "claimed" =>
         /\ stored[p] <= run[p].seen /\ run[p].seen <= actual[p]
         /\ run[p].at = "stored" => stored[p] = run[p].seen

\* A change that is not on record is on its way: in a webhook, in a job that will
\* read, or read already.
OnItsWay(p) ==
  \/ stored[p] = actual[p]
  \/ webhooks[p] > 0
  \/ WillRead(p)
  \/ task[p].state = "running" /\ run[p].seen = actual[p]

NothingForgotten == \A p \in PullRequests : p \notin missed => OnItsWay(p)

\* The inductive invariant: no interleaving of webhooks, retries, sweeps and
\* reconciliations loses a change without its being one of the known cases.
SyncInv == TypeOK /\ ReadsAreFresh /\ NothingForgotten

\* Webhooks do their part: when none is under way and nothing is queued, the
\* record equals GitHub, unless a webhook was lost, came while a reconciliation
\* that had begun to read was still running (acceptNormalizedEvent then answers
\* DUPLICATE), or the job was given up or stranded.  Delays, copies, reordering and retries
\* do no harm.
WebhooksSuffice ==
  \A p \in PullRequests :
    webhooks[p] = 0 /\ task[p].state = "idle" /\ p \notin missed => stored[p] = actual[p]

\* The record never goes back to an older state of the pull request.
RecordNeverOlder == [][\A p \in PullRequests : stored'[p] >= stored[p]]_vars

\* The sweep still comes round to p: p has a contribution row, and neither its job
\* nor the sweep's own is stranded.
SweepReaches(p) ==
  stored[p] > 0 /\ task[p].state # "stranded" /\ task[Sweep].state # "stranded"

\* Once GitHub stops changing, the record of a pull request equals GitHub for good
\* if the webhooks have done their part or the sweep reaches it: whatever else was
\* lost, dropped or given up is repaired ("Reconciliation periodically re-fetches
\* authoritative GitHub state", docs/adr/0002-webhooks-and-reconciliation.md).
RecordConverges ==
  \A p \in PullRequests :
    <>[]((p \notin missed \/ SweepReaches(p)) => stored[p] = actual[p])
=============================================================================
