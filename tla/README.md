# ContribOS in TLA+

ContribOS follows GitHub pull requests: it takes GitHub's webhooks in, queues
reconciliations, reads the authoritative state back from GitHub, evaluates whose
turn it is on each pull request and stores the result. This directory holds
TLA+ models of the parts of that pipeline that run concurrently, fail half-way or
decide what maintainers are told; the TLC configurations that check them; and
proofs for TLAPS of the most important results.

`PROJECT.json` maps every definition to the source lines it stands for and lists
the runs, the deliberately broken variants of definitions (the `X_Something`
operators, each of which one of the properties detects), the theorems, and the
hazards with the properties that cover them. Paths below are relative to `src/`.

Run a check with `tlc -config JobQueue.cfg MCJobQueue` and a proof with
`tlapm JobQueueProofs.tla`.

## 1. The system

```
GitHub --webhook--> Webhook intake --enqueue--> Work queue <--enqueue-- Sweep timer
                                                  | claim                and sweep job
                                                  v
   GitHub <--reads-- Reconciliation <-- Worker loop / runner
                          | snapshot
                          v
                     State engine --> Persistence --> queries --> web pages
```

Everything runs in one Node.js process, `apps/control-plane` (several replicas are
possible and the SQL is written for them); PostgreSQL holds all durable state.

| component | state | operations | hard behaviour | what makes it correct |
|---|---|---|---|---|
| Work queue (`packages/worker`, `worker-job-repository.ts`) | `worker_jobs`; each runner's position | enqueue, claimNext, complete, reschedule, markDead, recoverStaleClaims | concurrent workers, updates by id alone, crash after a claim, failing or unacknowledged statements | one active row and one handler per key; runs within the budget; every job settles unless its worker is gone |
| Webhook intake (`github-webhook-service.ts`, `packages/github`, `webhook-delivery-repository.ts`) | `webhook_deliveries`; each request's position | tryClaim, recordMetadata, accept, markProcessed/Failed, recoverStaleClaims | concurrent copies and redeliveries, a failing statement in or outside the `try` | one request past the claim; handed over before PROCESSED; bounded hand-overs; redelivery settles a delivery or finds it parked |
| Synchronisation (webhook application service, sweep scheduler / producer / executor, job handler, executor, persistence) | contribution rows, jobs, webhooks under way | the path of a change from GitHub to the record | lost, delayed and copied webhooks; a webhook while the job runs; jobs given up | record equals GitHub in the end where webhooks or the sweep get through; never goes backwards |
| Reconciliation (`reconcile-pull-request.ts`) | answers read so far | mergeability polling, parallel reads, head check, deferral | GitHub changes between the requests | ready only on the commit's own checks and approvals; a quiet run is exact |
| Fact derivation (`reconciliation-policy.ts`, `reconcile-pull-request.ts`) | none | policy, review decision, check status | any order, equal times, dismissals, one name reported by several apps | loops equal their reference definitions; fail closed |
| State engine (`packages/state-engine`) | stored verdict | evaluatePullRequest | order of rules | ready is claimed exactly when proven; the actor named can act |
| Service lifecycle (`service-entrypoint.ts`, `application-runtime.ts`, `sweep-scheduler.ts`, `runtime-factory.ts`) | health flags, server, timer, loop, pool | start, signals, shutdown, close | signals, failures and awaits in any order | pool closed last; the ready flag never set while stopping; a stop ends if the clients let it |
| Reconciliation persistence (`reconciliation-executor.ts`, `persist-reconciliation.ts`) | contributions, evidence, runs, evaluations, history; each executor's position | one transaction of six statements | rollbacks; two PRs sharing evidence rows, which they lock in any order; a snapshot read long before the transaction | one step on what is on record at the commit; history is a chain; a run's evidence is traceable (it is not always: section 5) |
| GitHub App tokens and API client (`github-app-auth.ts`, `github-api-client.ts`) | token cache, refreshes under way | getToken, invalidate, request with one retry | late 401s, shared refreshes, clear during a refresh | a retry never uses the refused token or an older one; one retry is enough unless a token ends meanwhile |
| Sessions and OAuth (`security/auth-service.ts`, repositories) | sessions, OAuth states, encrypted credentials | login, callback, resolve, refresh, sign-out | copies of a callback; concurrent refreshes of a single-use token; sign-in against a refresh | a state signs in once; a stored refresh token is not a spent one |
| Repository authorization (`security/repository-authorization-service.ts`) | none | session, scope row, installations, repositories, permission ladder | GitHub changes between the questions | data only with GitHub's permission; a refusal has a cause |
| Installation registration (`security/github-installation-sync-service.ts`) | installations, repositories | sync | has no caller | - |
| Dashboards, attention queue, query API (`product-query-service.ts`, `maintainer-attention-queue.ts`, `repository-dashboard.ts`, `product-http-api.ts`) | none; each query's position | five read-only queries | several statements without a transaction; rows in no order, cut into pages by separate requests | an answer is not older than its question; answers of a quiet moment agree; the queue's pages are one list in its order |
| HTTP server, readiness, observability | requests in flight | routing, readiness | the ready flag is read before the checks are awaited | 200 only for a probe that came before the stop |
| Web interface (`apps/web`) | session status; page, its controls and content; requests under way | effects, navigation, paging, filters, sign-in and sign-out | answers that come after the next question; a lost sign-out | what is shown answers what is asked; signed out means no session |
| Schema and migrations, domain types, test doubles, deployment | - | - | - | - |

Interactions: the intake calls the queue's enqueue inside its `try` block and
turns its failure into a retryable delivery; the queue's runner calls the job
handler, which calls the reconciliation executor or the sweep executor; the sweep
executor enqueues again; the executor hands the reconciler's snapshot to the state
engine and both to one transaction. The health flags are shared by `start`,
`shutdown` and the HTTP server.

## 2. Modules

| module | models | proofs |
|---|---|---|
| `WorkBoard` | what the queue promises: one task per key, at most one worker on it, failures charged, given up when the budget is spent; and what it does not: work whose worker is gone is stranded | - |
| `JobQueue` (`MCJobQueue`) | the queue, statement by statement | `JobQueueProofs` |
| `WebhookIntake` (`MCWebhookIntake`) | the intake, await by await | `ControlPlaneProofs` |
| `StateEngine` | the rules, over a snapshot | `StateEngineProofs` |
| `PullRequestFacts`, `Derivation` (`MCReconciler`) | the derivations; every short list of answers, and the verdict on it | `ReconciliationProofs` |
| `Reconciliation` (`MCReconciler`, `MCReconciliation`) | one reconciliation against a changing GitHub; uses `PullRequestFacts` and `StateEngine` | `ReconciliationProofs` |
| `PullRequestSync` (`MCPullRequestSync`) | the whole path, over `WorkBoard` | `PullRequestSyncProofs` |
| `ContributionRecord` | what the database promises: a reconciliation goes on record in one step | `RecordProofs` |
| `ContributionStore` (`MCContributionStore`) | the executor and the persistence transaction, statement by statement | `RecordProofs` |
| `AttentionQueue` | ranking and paging of the queue, the dashboard's counts | `RecordProofs` |
| `ProductQueries` | the statements of the five queries; uses `ContributionRecord` and `AttentionQueue` | `RecordProofs` |
| `WebPages` (`MCWebPages`) | a browser tab over `ProductQueries` | `RecordProofs` |
| `ServiceLifecycle` | start and shutdown of the process, and the readiness probe | `ControlPlaneProofs` |
| `TokenProvider` | installation tokens: cache, shared refresh, invalidation, one retry | `TokenProviderProofs` |
| `ApiAccess` (`MCApiAccess`) | sign-in, sessions, user credentials and repository authorization of the product API | `ApiAccessProofs` |

`JobQueue` implements `WorkBoard` (safety and fairness), and `PullRequestSync` is
built on `WorkBoard`: what it shows about the pipeline rests on the board only, not
on rows and claims. In the same way `ContributionStore` implements
`ContributionRecord`, and `ProductQueries` with `WebPages` is built on the record:
what they show about pages does not depend on the statements of a transaction.

### JobQueue

`row` is the `worker_jobs` table, `runner[w]` says at which await
`WorkerRunner.runOnce` of worker `w` stands. A statement is one step (Postgres
executes it atomically; `FOR UPDATE SKIP LOCKED` keeps claims apart); what lies
between two awaits is another. The partial unique index on active keys is
`KeyTaken`: `Enqueue` inserts nothing against it, and a `reschedule` against it
rejects (23505). `markCompleted`, `reschedule` and `markDead` update by id alone,
as in the code, so a worker that lost its claim overwrites the row - the
properties must find out whether that happens. Faults: the process dies between two
steps (`crash`), a statement fails without effect (`dbError`), a statement is
committed and reported as failed (`lostAck`). Where `runOnce` lets the error
through (claim, reschedule, markDead) the loop ends; `Restart` is the supervisor's
doing. Time is relative: `due` counts ticks, `Overdue` bounds how long ago is told
apart. How old a claim is, is not counted: a claim may be stale as soon as no worker is
at work on it (`Abandoned`). `RecoveryWired` says whether somebody may call
`recoverStaleClaims`; in this repository nobody does. Where it is TRUE the function may
run at any time or never - no fairness makes it - so that what is checked there holds of
the program as wired and of one that calls it. `TimelyHandlers` keeps handlers faster
than its threshold.

On the board an abandoned claim is `stranded` work, whose key stays taken: nobody owes it
anything, `Return` (recovery) may put it back. `Reopen` is the code's way with a
`markCompleted` that is committed and reported as failed: the row is COMPLETED, the catch
block reschedules it, and the work is done again.

### WebhookIntake

`delivery` is the `webhook_deliveries` table, `handler[h]` is the await at which a
request stands. `tryClaim` is two statements (INSERT, then the conditional UPDATE)
and so two steps. The `try` block begins after `recordMetadata`:
`CaughtFailure` is a rejection inside it (the delivery becomes FAILED and
retryable), `UncaughtFailure` one outside (the row stays as it is). A malformed
delivery fails normalisation, a workless one names no pull request and is
accepted without an enqueue. A request rejected before the claim touches nothing
and is left out. GitHub and operators redeliver what they like and nobody has to recover
stale claims; a delivery left CLAIMED by a request that is gone is `Parked`.

### PullRequestFacts, Derivation, StateEngine

Pure functions. `PullRequestFacts` follows the loops of the reconciler over the
lists GitHub returns (folds that keep the newest entry of each key); `Derivation`
builds every list up to `MaxEntries` entry by entry and compares with first-order
reference definitions. `StateEngine` is the ordered list of rules; `Derivation`
evaluates what it has derived together with every combination of the lifecycle
flags, so the rules meet exactly the snapshots the derivations can give them.
`MCReconciler` puts the lists and the runs of `Reconciliation` into one specification, a
behaviour of which is about one of the two.

### Reconciliation

GitHub is a set of facts that people change between the requests: pushes (forth and
back between two commits), target-branch moves that reset mergeability, drafts and
state, reviews, dismissals, checks, rules. A run polls for mergeability, reads
rules, reviews and checks in any order (they are parallel), and concludes with the
final answer, whose head must equal the one it began with.

### PullRequestSync

The content of a pull request is its version number. A webhook carries no content.
A reconciliation reads some version between the one current when its first request
was answered and the one current when the last was, and stores it in one
transaction. The sweep lists the contributions on record and enqueues each. `missed`
is a history variable with the pull requests that have a change no webhook will
bring: the webhook was lost, it arrived while a reconciliation that had begun to
read still ran (the enqueue is absorbed), or the job was given up or stranded. A worker
that dies and a claim that is committed and not acknowledged strand the job (`StrandJob`,
also the sweep's own), a lost acknowledgement of its completion brings it back
(`ReopenJob`); `MayReturn` is FALSE, since nobody calls the recovery.

### ServiceLifecycle

`closing` is the await at which `shutdown()` (and `handle.close()` inside it)
stands. A signal may come at any time, also during the migrations; the worker loop
may reject, in which case the handler attached to `startWorker` begins the
shutdown; the sweep that `stopAndWait` waits for may reject, which ends the
shutdown early. A request comes on a new connection or on one kept alive since the last
(`kept`); `server.close()` closes the idle ones, but a connection a request is on may be
kept again and bring the next request while the server closes. One of the requests in
flight may be a readiness probe: it reads the
flag when it arrives (`ReadyArrives`), waits for the checks, and is answered
(`ReadyAnswered`) by what the flag was then, although a stop may have begun
meanwhile. `late` remembers that the probe came after a stop was asked for.

### ContributionRecord, ContributionStore

`ContributionRecord` has the five tables and one action: a reconciliation concluded
with a snapshot and an evidence list goes on record. `Write` is everything its
transaction leaves behind. `ContributionStore` does it as the code does:
`executor[e]` reads the snapshot on record (`Begin`), waits for GitHub
(`Conclude`), and runs the transaction - `Upsert`, `ReadPrevious`, one
`UpsertEvidence` per evidence reference, and `Commit`, which stands for the three inserts and
the commit because no other transaction can see or block them. Postgres is
external: READ COMMITTED, locks on written rows until the transaction ends, and one
transaction of a cycle of waits ended. `Abandon` is every way a run ends without a
commit. That a pull request has one executor at a time is what `JobQueue` proves
(`OneRunnerPerKey`); the mutant that drops it shows what depends on it.

### AttentionQueue, ProductQueries

`AttentionQueue` is a module of pure functions of rows. A query in `ProductQueries` is
`request[r]`: its question, the contribution rows found by its first statement, and what
is still to be read; `Promise.all` reads in any order, so each `Select` takes any of
what is left. Reconciliations go on record between the statements. `asked` is the number
of commits when the question was asked, a history variable of the properties; an
answer is `Quiet` if nothing has gone on record since. `AtOnce` is the answer that is read
at one moment, with which `PagesAgree` compares each quiet one.

### WebPages

One tab. A `Place` is what the address and the controls on the page name. React
renders a change of place at once and runs the effect afterwards, so `tab.place`
(what the user asks for) and `tab.ran` (what the effect ran for) are two variables,
and `tab.shown` is the place the content answers. A page of the same component keeps
its state when its address changes, another one mounts anew. `fetch[g]` is the fetch a
page has under way; the cleanup of the effect before aborts it, whose answer then
changes nothing. With the code's cleanup one round is enough; the second one is there so
that the mutant without a cleanup has somewhere to keep the fetch it forgot.

### TokenProvider

One installation; the parallel reads of a reconciliation are the `Requests`, and
`request[r].at` is the await each stands at. `cache` and `refresh` are the two maps of
`GitHubInstallationTokenProvider`; a refresh under way has no token until GitHub
has issued one (`IssueToken`, the answer still travels), and `RefreshEnds` is the
promise's `then` and `finally` with the continuations of all that wait for it, which
Node runs before it takes the next answer. `Retry` is what `request` does on the
first 401, up to its next await: `invalidate` deletes the cache entry, whichever token
it holds by then, and the forced `getToken` joins a refresh under way or begins one.
GitHub is external: a token comes due (within `refreshSkewMs` of its end), ends, or all
are revoked; a token may be issued with less scope than the reads ask for.

### ApiAccess

`request[r].at` is the await a request of the browser stands at. A callback goes
`consume` (the conditional UPDATE of `oauth_states`), `exchange` (code for
credential, and the viewer), `upsert` (the user row), `create` (the session row). An
API request goes `find` (session joined with user), perhaps `refresh` (GitHub) and
`store` (the UPDATE), `touch`; there `/api/auth/me` is answered (`TellUser`), and
`authorize()` goes on with the scope row, `installations`, `repositories` and
`query`. A failure inside `refresh` and `store` is caught by the code and the request
goes on with what it has (`RefreshAnswerLost`, `StoreFails`); anywhere else it is
answered 500 (`RequestFails`). Requests run concurrently and read the one user row
without a lock: `Store` and `Upsert` overwrite it whatever it holds by then.

GitHub's side is external: a credential is a number in order of issue; it may pass
its time, be exchanged (then its access token is dead too, if `Rotates`), or be
withdrawn by the user. What GitHub answers about installations, repositories and
permissions is read from one `github` situation at the moment of each question, and
it may change between two questions. `active`, `granted` and `quiet` are history
variables of the properties: no action reads them. A request is `quiet` until a
credential is stored, exchanged or lost, or GitHub changes, while it is under way.

## 3. What the runs check

| run | shows |
|---|---|
| `jobqueue` | under crashes, failing statements and lost acknowledgements, with recovery now and then or never: one handler per key; a job dies only when its tries are spent or its failure is fatal; every job settles unless its worker is gone; and the queue implements the board with its fairness |
| `jobqueue_stranded` | **violated**: a job left CLAIMED by a crashed worker does not come back |
| `webhook_safety` | one request past the claim, hand-over before PROCESSED, bounded hand-overs; a delivery that keeps being redelivered is concluded or parked, and nothing else |
| `reconciler` | over the short lists within the bounds below: change requests stand, approvals are earned, required checks reported, no report ignored; the verdict on what was derived is ready exactly when proven, names an actor who can act, and is ambiguous only from unknown facts. Over every run against a GitHub that changes: a commit is only called ready on its own checks and approvals; an undisturbed run equals one atomic look |
| `reconciliation_mergeability` | **violated**: READY_TO_MERGE with unknown mergeability |
| `sync_convergence` | exactly which changes webhooks bring; the record never goes back; the sweep repairs every contribution on record, unless its job or the contribution's is stranded |
| `contribution_store` | the transaction is one step on what is on record when it commits, although its snapshot was read long before; whole rows, an unbroken history, drift against the run before; every run ends, deadlocks included |
| `contribution_evidence` | **violated**: the evidence a run rests on is listed under another pull request of the same head commit |
| `product_pages` | answers are not older than their questions; those of a quiet moment agree, whichever page asked, with each other, with the dashboard's counts and with the length of the queue; the queue's pages are one list in its order of what matches the filters, each contribution once; a tab shows what was asked last, settles, and never shows a user as signed out who is not |
| `service_lifecycle` | pool closed last, 200 only for a probe that came before the stop to a service that served, a stop and a loop failure come to an end if the clients of open connections fall silent |
| `token_provider` | a retry uses a newer token than the refused one; a read is refused for good only if a token ended while it was under way |
| `api_access` | a state signs in once; concurrent refreshes and sign-ins do not leave a spent refresh token behind; every answer with content was due; a request nothing interferes with is refused only for a cause |

Every invariant and action property of the passing runs is also proved for all values of the
constants (section 4). The type invariants and the inductive invariants (`QueueInv`,
`IntakeInv`, `SyncInv`, `AccessInv`, `TokenInv`, `LifecycleInv`, `StoreInv`, `PagesInv`; in
the proof modules `DerivationInv`, `ReconciliationInv`, `QuietInv`, `AnswersInv`) are proved
and not repeated in the runs.

### Bounds

| constant | value | why it is enough |
|---|---|---|
| `Jobs`, `Keys`, `Workers` | 2, 2, 2 | a second job of a key after the first settled, or a second key, and a race of two workers for one row; all but what must happen in the end is also proved for any number |
| `MaxAttempts` | 3 (2 in `jobqueue_stranded`) | first, middle and last try; `BaseDelay` 1 and `MaxDelay` 2 make the cap take effect |
| `Overdue` | 1 | two due times in the past can be told apart |
| `MaxFaults` | 3 (`JobQueue`), 2 (`WebhookIntake`), 1 (`jobqueue_stranded`) | a fault, a fault in the handling of it, and a crash of the other worker |
| `Deliveries`, `Handlers` | 3, 2 | a normal, a malformed and a workless delivery; two copies of one |
| `MaxDeliveryAttempts` | 2 | one retry and its refusal; the code's 3 adds more of the same, and the bound is proved for any number |
| `RecoverLimit` | 1 | the limit takes effect with two stale claims |
| `MaxEntries`, `MaxMixed` | 3, 2 | three entries of one key, or two keys and a tie; reviews and reports are derived apart and only meet in the verdict, so one of each is enough together. Three reviews: all of the head, of one reviewer with a login and any without, or of one reviewer and any commits where pushes dismiss approvals (no dismissing rule, no look at the commit). Three reports: under two required checks |
| `Heads`, `Logins`, `MaxChanges`, `MaxReviews`, `Attempts` | 2, 2, 3, 2, 1 | a push away and back, a review of each commit, one poll and the final request after it (the code polls 3 times, which asks the same question again). A run's pull request is neither a draft nor in conflict at first; both may come before or during the run, and so may rules that reviews cannot prove |
| `MaxVersion`, `MaxChanges`, `MaxInFlight`, `MaxFailures` | 2, 2, 1, 2 | a change while a reconciliation of the previous one runs, for two pull requests; two failures give a job up |
| `MaxConnections` | 2 | a probe and another request, or a request and a kept connection; the safety properties are proved for any number |
| `PullRequests`, `Executors`, `Objects`, `MaxTime` (`ContributionStore`) | 2, 2, 2, 2 | two transactions that write the same two evidence rows in opposite orders, and a second run of each pull request; all but `EveryRunEnds` is proved for any number |
| `Requests`, `PullRequests`, `MaxCommits`, `Limit`, `PageSize` (`WebPages`) | 2 of each of 2 rounds, 2, 2, 1, 1 | two questions of one page that straddle a commit; two pull requests updated at one moment on two pages; a list that is cut. Three snapshots: the maintainer's turn, the author's, and merged. The k-th reconciliation of a pull request is at time k, so equal times of different pull requests occur |
| `Requests`, `OAuthStates`, `Sessions` | 2, 2, 2 | two callbacks of one state, two refreshes of one credential, a sign-in during a refresh; the safety properties are proved for any number |
| `MaxGrants`, `MaxUpsets` | 3, 1 | sign-in and two refreshes, or two sign-ins and a refresh; one change of access or one fault |
| `Requests`, `MaxTokens` (`TokenProvider`) | 2, 4 | a read with a late 401 beside one that has already refreshed, twice; three reads and three tokens show nothing new, and all of it is proved for any number |
| `Situations` | 4 | readable; installation hidden; repository moved; no permission |

`MaxAttempts`, `MaxFaults` and the other counters bound behaviours and nothing else: a
fault that is used up simply no longer happens. Symmetry is used in safety runs only.
Deadlock is not checked where the system may stop: in `api_access` all sessions and
sign-ins may be used up, in `service_lifecycle` the process ends, in the runs of
`ContributionStore` time and in `reconciler` the lists come to their bound.

### Fairness

* `JobQueue`: the event loop of a live process goes on with its one chain of awaits
  (weak fairness of the worker's steps), a dead process is restarted, time passes.
  Producers, faults and recovery owe nothing.
* `WebhookIntake`: a request under way goes on. Nobody owes a redelivery or a recovery:
  `RedeliveredConcludesOrParks` speaks of the deliveries that keep coming.
* `PullRequestSync`: the sweep timer fires, handlers and runners go on (the board's
  own fairness, shown for the queue in `jobqueue` under the same faults, and which owes
  stranded work nothing), a webhook that arrived is handled. GitHub owes neither changes
  nor deliveries; failures are bounded in number, which stands for GitHub and the
  database working again at last.
* `ServiceLifecycle`: migrations, requests, sweeps and jobs end, the loop and
  `shutdown()` go on; readiness checks have a timeout, so a probe is answered; an idle
  connection is closed (`keepAliveTimeout`). The code has no deadline for connections that
  are in use, so `StopComesToEnd` and `LoopFailureStops` assume that their clients stop
  sending requests at last (`ClientsFallSilent`); without it TLC finds both violated.
* `ContributionStore`: time passes, an executor goes on with its awaits (GitHub and the
  database answer or fail), and Postgres looks for deadlocks.
* `WebPages`: effects run after a render, the server goes on with its statements, and
  answers arrive (`Progress`). Nobody must click, and nothing must go on record.

## 4. What is proved

Each proof module extends its component's module. Nothing is assumed beyond the
named ASSUME of that module, which TLC evaluates on every run.

**JobQueue** (`QueueAssumption`). `TypeCorrect`: types, for all constants.
`ClaimProtocol`: `QueueInv`, under `SafeRecovery`: recovery is not wired (as in the code),
or handlers are faster than its threshold. The
exclusion of two handlers of one key (`Exclusion`) is not inductive: it needs that
the row of a worker is CLAIMED with the attempt number the worker remembers
(`ClaimStaysMine`), that no two workers hold one row (`OneRunnerPerRow`), that the
unique index holds (`OneActiveRowPerKey`), and, because a lost acknowledgement may
leave a COMPLETED row under a worker that believes it failed, the exception in
`ClaimStaysMine`. `RunsAccounted` ties the number of handler runs to the attempt
counter in every status, from which `Budget` and `DeathIsDeserved` follow, under
`SafeRecovery` too: a run that recovery takes back is not charged and not counted.
`Finality` is proved without lost acknowledgements; with them it is false, since
`reschedule` reopens the row that `markCompleted` finished. `QueueImplementsBoard`: every
step - a recovered claim, an abandoned one and a lost acknowledgement included - maps to
a step of `WorkBoard` or a stutter; the refinement mapping chooses the active row of a
key, which `OneActiveRowPerKey` makes unique, and tells running from stranded work by
whether a worker is at work on the row.

**WebhookIntake** (`IntakeAssumption`). `IntakeProtocol`: `IntakeInv`, provided
stale claims are not recovered or only after their handler has ended; `Exclusion`,
`Bounded`, `HandOver` and `Finality` follow. `ClaimIsOwned` is the strengthening:
the request past the claim owns the CLAIMED row. `AcceptsCovered` adds that an
attempt not yet handed over is still to be charged, which makes the bound
inductive.

**StateEngine, Derivation** (`FactsAssumption`, `DerivationAssumption`). The library states
that `<` is well-founded on the naturals, which gives `LeastNatural` and an induction over
the length of a list (`Induction`, `StateEngineProofs`). `TheFirstRuleDecides`: the rules
are total, and a verdict is that of the first rule that applies; `VerdictsAreKnown` bounds
what is answered. The fold over the pages is followed entry by entry
(`ReconciliationProofs`): what it keeps of each key is an entry of the list, and none of
that key is newer; nothing else is needed of it. From it and `DerivedListsAreGitHubs`
(`DerivationInv`: lists of the answers' types without a repeated id) follow
`ChangeRequestsAlwaysStand`, `ApprovalsAreEarned`, `SuccessIsReported`, `ReportsAreHeard`,
and, with the rules, `VerdictsAreSound`. For lists of any length, and any sets of
reviewers, commits, times, apps and names.

**Reconciliation** (`FactsAssumption`, `ReconciliationAssumption`). `RunsAreConsistent`:
`ReconciliationInv` says of each answer a run has kept what it still is whatever GitHub has
become since (`ReadingOK`): the policy of some rules, a list of reviews in order, a report
of the first head that is a success only if that commit has passed its check. While nothing
has happened since the run began, each kept answer is what GitHub would say now
(`QuietReading`). `ReadyRunsHaveEvidence` and `QuietRunsAreExact` follow, for any number of
pushes, reviews and polls.

**PullRequestSync** (`SyncAssumption`). `SyncInvariant`: readings lie between the
record and GitHub (`ReadsAreFresh`), and a change that is not on record is in a
webhook, in a job that will read, in a reading that has seen it, or in `missed`
(`NothingForgotten`). `WebhooksDoTheirPart` and `NeverOlder` follow. For any
number of pull requests, webhooks, retries, stranded and reopened jobs, and sweeps.

**ApiAccess** (`AccessAssumption`). `AccessInvariant`: `AccessInv`, for any number of
requests, sign-ins and sessions, whether GitHub rotates refresh tokens or not, with
any number of faults and changes. `CredentialSurvives` is not inductive: two requests
may hold one refresh token, so the proof needs that a credential issued and not yet
stored is in no other request and not in the row (`PendingIsFresh`), and that a
request at `store` has its successor with it. `OneSignIn` needs that the state of a
request past the consumption is consumed and that no session has come from it yet;
`Authorized` needs what each await implies about session and GitHub (`FoundOut`).
`QuietIsExact` has an invariant of its own beside `AccessInv` (`QuietInv`): as long as a
request is quiet, GitHub grants what it granted when the request came, and takes the
credential the request works with at each of its awaits - the stored one, the refresh
token it is about to exchange, the access token it is about to store. Every step of
another request either leaves GitHub, the user row and the credentials alone, or only
issues new ones, or ends the quiet.

**TokenProvider** (`TokenAssumption`). `TokenInvariant`: `TokenInv`. `RetryIsNewer` needs
that nothing in use is newer than the cache and that a refresh under way delivers the
newest token (`InOrder`), although any 401 may empty the cache at any time.
`RefusedForCause` needs that a refresh whose token has ended has only first tries
waiting among the requests that saw no token end (`QuietGetsThrough`).

**ServiceLifecycle** (`LifecycleAssumption`). `LifecycleInvariant`: what
`shutdown()` has drained at each of its awaits (`Drained`), who may have closed
the pool (`PoolClosedBy`), that nothing runs unless the service serves
(`QuietUnlessServing`), and that a probe which found the flag up is a request in
flight that came before any stop (`Probed`): while it waits the server cannot close and
with it the pool. `ReadyMeansServing` and `PoolClosedLast` follow.

**ContributionStore** (`RecordAssumption`, `StoreAssumption`). `StoreImplementsRecord`:
every step is a step of `ContributionRecord` or changes no table. It needs that what an
executor has read is still so when it commits (`Stands`), which rests on one executor
per pull request (`Apart`); `StoreInvariant` proves both. `StoreIsWhole`, `StoreKeepsChain`,
`StoreComparesRecord` and `StoreKeepsNewestEvidence` (what holds in place of the violated
`EvidenceIsOwn`) follow from invariants of the record alone, for any number of pull requests, snapshots and evidence lists.

**ProductQueries, AttentionQueue** (`QueriesAssumption`). `AnswersInvariant`: `AnswersInv` is
`PagesInv`, `RecordInv` and, for every request, what its reads so far have to do with the
record (`Faithful`): no row it has found is newer than the last run, nothing that was on
record when it was asked is missing or older (`Listing`), what it has read afterwards is at
least as new as the row (`Belonging`), because the record only grows, and with no commit
since it was asked all of it is what is on record (`AsOnRecord`). `AnswersStayCurrent` follows.
`PagesAlwaysAgree`: each quiet answer shows of every contribution what `AtOnce` shows
(`ShownOnRecord`); the turns of a verdict (`TurnsAre`) split the active contributions, which
gives the dashboard's sums (`CountsAgree`), and the queue filtered for an actor lists exactly
those that wait for it (`TurnsAreWaiting`). `PagesShowTheQueue`: no two contributions rank
alike (the number decides at last), so sorting what matches the filters has one result
whatever order the rows come in (`RankedSame`), in which each outranks those behind it
(`RankedRises`); page `k` is the stretch of positions it names (`PageIs`), and the stretches
of all pages tile the list without gap or overlap (`PagesCover`). Sorting enters by what it
promises (`InOrder`), not by an algorithm.

**WebPages** (`PagesAssumption`). `PagesInvariant`: at most one fetch is under way, it is for
the place the effect ran for, and a settled page shows that place's answer;
`PagesShowAnswers` and `SignedOutIsOver` follow, whatever the queries answer.

Assumptions the proofs made explicit: `FactsAssumption` (rule sets are finite, the counts
and flags in a rule have their types, no reviewer is the missing one), `QueriesAssumption`
(pull request numbers are numbers and finitely many at a time; a list has a limit of at
least one).

Only model-checked: what must happen in the end. The provers know neither ENABLED
nor fairness, so `JobsSettleUnlessAbandoned`, the fair half of `ImplementsBoardFairly`,
`RedeliveredConcludesOrParks`, `RecordConverges`, `EveryRunEnds`, `EveryQuestionSettles`,
`StopComesToEnd` and `LoopFailureStops` are what TLC found on the instances above.

## 5. Where the code and its documents disagree

* `reconciliation_mergeability`: only the first answer's mergeability is waited for;
  the final answer's `null` is taken for "no conflict".
  `docs/product/phase-3-reconciliation.md:52,56` says otherwise.
* `jobqueue_stranded`: `recoverStaleClaims` of the queue has no caller (`RecoveryWired` is
  FALSE in the code); after a crash the row stays CLAIMED and the pull request's key taken,
  for good. `docs/product/phase-5-worker.md:20,45` lists stale-claim recovery as completed.
* `contribution_evidence`: evidence rows are unique by the evidence id alone, and a check
  run belongs to a commit: a pull request of the same head commit takes the row, and the
  first one's trail no longer lists it. `docs/adr/0004-evidence-provenance.md` and
  `docs/product/phase-7-query-api.md:57` present a contribution's evidence as its own.
  What holds instead is `EvidenceIsNewest`, proved in `StoreKeepsNewestEvidence`.
* `recoverStaleClaims` of the deliveries has no caller either, and `recordMetadata` stands
  outside the `try` block, so one failing statement or a crash there parks a delivery
  as CLAIMED and each redelivery is answered DUPLICATE, although
  `docs/product/phase-6-application-runtime.md:45` lists bounded webhook stale-claim
  recovery. `RedeliveredConcludesOrParks` says that this is the only way a redelivered
  delivery is left unconcluded.
* The sweep covers contributions already on record only (`ListContributions`), so a pull
  request whose first webhook is lost, or whose first job is given up, stays unknown, while
  the repository's `README.md:96` promises recovery from missed events. A stranded job is
  beyond the sweep too, and a stranded sweep job ends all repair. `RecordConverges` states
  what is repaired and excepts exactly these (`SweepReaches`).
* The web interface counts every stored run as failed: it looks for the status
  `COMPLETED` or `SUCCESS` (`apps/web/src/product/contribution-view-model.ts:65`), while stored runs are `READY` or
  `POLICY_UNRESOLVED` (`RunRow`).
* A run whose repair decision is `DEFER` replaces the stored snapshot like any other
  (`ContributionRow`); the decision is only recorded.

Smaller things the models brought up, about which no document says anything: a probe begun
before a stop may be answered 200 after it; a sign-out whose request fails is reported to
nobody; a page answered 401 leaves the tab's status at AUTHENTICATED; a page of the
queue beyond the last one says that no contribution matches the filters; pages of the
queue read across a commit may show a contribution twice or not at all; React may paint
one frame of the old content under a new address before the effect runs; a pull request
with more answers than `maxPages` pages cannot be reconciled; a repository that slides to
an earlier page of GitHub's list between two requests is answered 404 once; a required
check without an integration id takes the first check run of its name.

A signal during the migrations leaves a service that listens with an ended pool and
ignores later signals; the model reaches that state, no document promises
otherwise, and the properties of `ServiceLifecycle` name the exception. A step of the
shutdown that rejects skips those after it (the token cache, the pool); the process still
ends, and no document says more. `shutdown()` sets no deadline for connections in use.

## 6. Not modelled, and why

* Of the queries: the checks of numbers in addresses (a refused question reads nothing), the
  labels of priorities, the order of evidence.
* Of the web interface: markup, the view models, and several tabs, which share nothing but
  the session.
* Of sessions and authorization: hashing, encryption and cookies; several users and
  repositories, whose rows share nothing; the pages of GitHub's lists; a
  change of the scope row, which no code makes.
* Installation registration: has no caller; the models start with the installation
  and repository on record, as the tests do.
* HTTP routing, headers, signatures, encryption, logging: I/O without state.
* Schema beyond unique keys and defaults, deployment: no protocol.
* `ConcurrencyGuard`, `shutdown.ts`, the in-memory stores, `PostgresJobStore.release`, the
  single-table `upsertPullRequest`, `upsertMany` and `append`: no production caller.

## 7. Plan

Done, in this order: queue and board; intake; rules and derivations; reconciliation;
synchronisation over the board; lifecycle; sign-in, sessions and authorization; the
token provider; the record and the store that implements it; queries and pages over the
record; proofs of every invariant and action property that is checked.

Next:

1. Proofs: step by step, what the liveness properties rest on (a job that is due can be
   claimed, a redelivery gets past the claim).
2. `Reconciliation`: commit statuses in the reads, and the pages of a list.
3. `PullRequestSync` over `ContributionRecord` instead of version numbers.
