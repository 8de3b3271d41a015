------------------------ MODULE PullRequestSyncProofs ------------------------
(***************************************************************************)
(* SyncInv is inductive; WebhooksSuffice and RecordNeverOlder follow.  For  *)
(* any number of pull requests, changes, webhooks and failures.             *)
(***************************************************************************)
EXTENDS PullRequestSync, TLAPS

-----------------------------------------------------------------------------
(* Every step keeps the types. *)

LEMMA InitType == Init => TypeOK
  BY SyncAssumption DEF Init, Board!Init, Board!NoTask, TypeOK, Keys, Fresh, Run, TaskStates

LEMMA GitHubType ==
  ASSUME TypeOK, NEW p \in PullRequests, Change(p) \/ Lose(p) \/ Redeliver(p)
  PROVE  TypeOK'
  <1>1. CASE Change(p)
    BY <1>1 DEF TypeOK, Change
  <1>2. CASE Lose(p)
    <2>1. webhooks[p] - 1 \in Nat
      BY <1>2 DEF TypeOK, Lose
    <2> QED BY <1>2, <2>1 DEF TypeOK, Lose
  <1>3. CASE Redeliver(p)
    BY <1>3 DEF TypeOK, Redeliver
  <1> QED BY <1>1, <1>2, <1>3

\* A request for work keeps the queue's type.
LEMMA AskType ==
  ASSUME TypeOK, NEW k \in Keys, Ask(k)
  PROVE  (task \in [Keys -> [state : TaskStates, failures : Nat]])'
  BY DEF TypeOK, github, Ask, Board!Request, Keys, TaskStates

LEMMA ProducerType ==
  ASSUME TypeOK,
         \/ \E p \in PullRequests : AcceptWebhook(p) \/ EnqueueListed(p)
         \/ ScheduleSweep \/ ListContributions
  PROVE  TypeOK'
  <1>1. CASE \E p \in PullRequests : AcceptWebhook(p)
    <2>1. PICK p \in PullRequests : AcceptWebhook(p)
      BY <1>1
    <2>2. (task \in [Keys -> [state : TaskStates, failures : Nat]])'
      BY <2>1, AskType DEF AcceptWebhook, Keys
    <2> QED BY <2>1, <2>2 DEF TypeOK, github, AcceptWebhook
  <1>2. CASE \E p \in PullRequests : EnqueueListed(p)
    <2>1. PICK p \in PullRequests : EnqueueListed(p)
      BY <1>2
    <2>2. (task \in [Keys -> [state : TaskStates, failures : Nat]])'
      BY <2>1, AskType DEF EnqueueListed, Keys
    <2>3. (todo = Unlisted \/ todo \subseteq PullRequests)'
      BY <2>1 DEF TypeOK, github, EnqueueListed
    <2> QED BY <2>1, <2>2, <2>3 DEF TypeOK, github, EnqueueListed
  <1>3. CASE ScheduleSweep
    BY <1>3 DEF TypeOK, github, ScheduleSweep, Board!Request, Keys, TaskStates
  <1>4. CASE ListContributions
    BY <1>4 DEF TypeOK, github, ListContributions
  <1> QED BY <1>1, <1>2, <1>3, <1>4

LEMMA ReconcileType ==
  ASSUME TypeOK, NEW p \in PullRequests, Reconcile(p)
  PROVE  TypeOK'
  <1>1. CASE BeginRead(p)
    BY <1>1 DEF TypeOK, github, BeginRead, Run
  <1>2. CASE EndRead(p)
    <2>1. PICK v \in run[p].seen .. actual[p] : run' = [run EXCEPT ![p] = [at |-> "read", seen |-> v]]
      BY <1>2 DEF EndRead
    <2>2. v \in Nat
      BY DEF TypeOK, github, Run
    <2> QED BY <1>2, <2>1, <2>2 DEF TypeOK, github, EndRead, Run
  <1>3. CASE Persist(p)
    BY <1>3 DEF TypeOK, github, Persist, Run
  <1> QED BY <1>1, <1>2, <1>3 DEF Reconcile

LEMMA JobType ==
  ASSUME TypeOK, NEW k \in Keys,
         StartJob(k) \/ CompleteJob(k) \/ FailJob(k) \/ StrandJob(k) \/ ReopenJob(k)
  PROVE  TypeOK'
  <1>1. CASE StartJob(k)
    BY <1>1, SyncAssumption DEF TypeOK, github, StartJob, Board!Start, Keys, Run, Fresh, TaskStates
  <1>2. CASE CompleteJob(k)
    BY <1>2 DEF TypeOK, github, CompleteJob, Board!Finish, Board!NoTask, TaskStates
  <1>3. CASE FailJob(k)
    <2>1. (task \in [Keys -> [state : TaskStates, failures : Nat]])'
      BY <1>3 DEF TypeOK, github, FailJob, Board!Retry, Board!Finish, Board!NoTask, TaskStates
    <2>2. missed' \subseteq PullRequests
      BY <1>3 DEF TypeOK, github, FailJob, Keys
    <2> QED BY <1>3, <2>1, <2>2 DEF TypeOK, github, FailJob
  <1>4. CASE StrandJob(k)
    <2>1. (task \in [Keys -> [state : TaskStates, failures : Nat]])'
      BY <1>4 DEF TypeOK, github, StrandJob, Board!Strand, TaskStates
    <2>2. missed' \subseteq PullRequests
      BY <1>4 DEF TypeOK, github, StrandJob, Keys
    <2> QED BY <1>4, <2>1, <2>2 DEF TypeOK, github, StrandJob
  <1>5. CASE ReopenJob(k)
    <2>1. PICK n \in 1 .. MaxAttempts - 1 :
            task' = [task EXCEPT ![k] = [state |-> "pending", failures |-> n]]
      BY <1>5 DEF ReopenJob, Board!Reopen
    <2>2. (task \in [Keys -> [state : TaskStates, failures : Nat]])'
      BY <2>1, SyncAssumption DEF TypeOK, TaskStates
    <2> QED BY <1>5, <2>2 DEF TypeOK, github, ReopenJob
  <1> QED BY <1>1, <1>2, <1>3, <1>4, <1>5

-----------------------------------------------------------------------------
(* What is read and stored stays between the record and GitHub, and no change *)
(* is forgotten.                                                              *)

\* The part of SyncInv that speaks about pull request p.
Sound(p) ==
  /\ stored[p] <= actual[p]
  /\ task[p].state = "running" /\ run[p].at # "claimed" =>
       /\ stored[p] <= run[p].seen /\ run[p].seen <= actual[p]
       /\ run[p].at = "stored" => stored[p] = run[p].seen
  /\ p \notin missed => OnItsWay(p)

LEMMA SoundIsInv == TypeOK => (SyncInv <=> \A p \in PullRequests : Sound(p))
  BY DEF SyncInv, ReadsAreFresh, NothingForgotten, Sound

LEMMA GitHubSound ==
  ASSUME TypeOK, NEW q \in PullRequests, Sound(q),
         NEW p \in PullRequests, Change(p) \/ Lose(p) \/ Redeliver(p)
  PROVE  Sound(q)'
  BY DEF TypeOK, Sound, OnItsWay, WillRead, Change, Lose, Redeliver, Run, Keys

LEMMA WebhookSound ==
  ASSUME TypeOK, NEW q \in PullRequests, Sound(q),
         NEW p \in PullRequests, AcceptWebhook(p)
  PROVE  Sound(q)'
  <1>1. CASE task[p].state = "idle"
    BY <1>1 DEF TypeOK, github, Sound, OnItsWay, WillRead, AcceptWebhook, Ask, Board!Request, Run, Keys
  <1>2. CASE task[p].state # "idle"
    BY <1>2 DEF TypeOK, github, Sound, OnItsWay, WillRead, AcceptWebhook, Ask, Run, Keys
  <1> QED BY <1>1, <1>2

LEMMA SweepSound ==
  ASSUME TypeOK, NEW q \in PullRequests, Sound(q),
         \/ ScheduleSweep \/ ListContributions
         \/ \E p \in PullRequests : EnqueueListed(p)
  PROVE  Sound(q)'
  <1>1. CASE ScheduleSweep
    BY <1>1, SyncAssumption
    DEF TypeOK, Sound, OnItsWay, WillRead, ScheduleSweep, Board!Request, Keys, github
  <1>2. CASE ListContributions
    BY <1>2 DEF Sound, OnItsWay, WillRead, ListContributions, github
  <1>3. CASE \E p \in PullRequests : EnqueueListed(p)
    <2>1. PICK p \in PullRequests : EnqueueListed(p)
      BY <1>3
    <2> QED BY <2>1
        DEF TypeOK, Sound, OnItsWay, WillRead, EnqueueListed, Ask, Board!Request, Keys, github
  <1> QED BY <1>1, <1>2, <1>3

LEMMA ReconcileSound ==
  ASSUME TypeOK, NEW q \in PullRequests, Sound(q), NEW p \in PullRequests, Reconcile(p)
  PROVE  Sound(q)'
  <1>1. CASE BeginRead(p)
    BY <1>1 DEF TypeOK, Sound, OnItsWay, WillRead, BeginRead, Run, github
  <1>2. CASE EndRead(p)
    <2>1. PICK v \in run[p].seen .. actual[p] : run' = [run EXCEPT ![p] = [at |-> "read", seen |-> v]]
      BY <1>2 DEF EndRead
    <2>2. v \in Nat /\ run[p].seen <= v /\ v <= actual[p]
      BY DEF TypeOK, Run
    <2>3. UNCHANGED <<actual, webhooks, task, stored, missed>> /\ run[p].at = "reading"
      BY <1>2 DEF EndRead, github
    <2>4. run'[p] = [at |-> "read", seen |-> v] /\ (q # p => run'[q] = run[q])
      BY <2>1 DEF TypeOK
    <2>5. CASE q = p
      <3>1. p \notin missed => v = actual[p] \/ webhooks[p] > 0 \/ stored[p] = actual[p]
        <4>1. actual[p] \in Nat /\ run[p].seen \in Nat
          BY DEF TypeOK, Run
        <4>2. p \notin missed => run[p].seen = actual[p] \/ webhooks[p] > 0 \/ stored[p] = actual[p]
          BY <1>2, <2>3, <2>5 DEF Sound, OnItsWay, WillRead, EndRead
        <4> QED BY <2>2, <4>1, <4>2
      <3>2. stored[p] <= v /\ task[p].state = "running"
        BY <1>2, <2>2, <2>3, <2>5 DEF TypeOK, Sound, EndRead, Run
      <3> QED BY <2>2, <2>3, <2>4, <2>5, <3>1, <3>2 DEF TypeOK, Sound, OnItsWay, WillRead
    <2>6. CASE q # p
      BY <2>3, <2>4, <2>6 DEF Sound, OnItsWay, WillRead
    <2> QED BY <2>5, <2>6
  <1>3. CASE Persist(p)
    <2>1. /\ task[p].state = "running" /\ run[p].at = "read"
          /\ UNCHANGED <<actual, webhooks, task, missed>>
      BY <1>3 DEF Persist, github
    <2>2. stored'[p] = run[p].seen /\ run'[p] = [at |-> "stored", seen |-> run[p].seen]
      BY <1>3 DEF TypeOK, Persist, Run
    <2>3. q # p => stored'[q] = stored[q] /\ run'[q] = run[q]
      BY <1>3 DEF TypeOK, Persist
    <2>4. run[p].seen \in Nat /\ actual[p] \in Nat
      BY DEF TypeOK, Run
    <2>5. CASE q = p
      BY <2>1, <2>2, <2>4, <2>5 DEF Sound, OnItsWay, WillRead
    <2>6. CASE q # p
      BY <2>1, <2>3, <2>6 DEF Sound, OnItsWay, WillRead
    <2> QED BY <2>5, <2>6
  <1> QED BY <1>1, <1>2, <1>3 DEF Reconcile

LEMMA JobSound ==
  ASSUME TypeOK, NEW q \in PullRequests, Sound(q),
         NEW k \in Keys,
         StartJob(k) \/ CompleteJob(k) \/ FailJob(k) \/ StrandJob(k) \/ ReopenJob(k)
  PROVE  Sound(q)'
  <1>0. q \in Keys /\ q # Sweep
    BY SyncAssumption DEF Keys
  <1>1. CASE StartJob(k)
    BY <1>0, <1>1 DEF TypeOK, Sound, OnItsWay, WillRead, StartJob, Board!Start, Run, Fresh, Keys, github
  <1>2. CASE CompleteJob(k)
    BY <1>0, <1>2
    DEF TypeOK, Sound, OnItsWay, WillRead, CompleteJob, JobDone, Board!Finish, Board!NoTask, Run, github
  <1>3. CASE FailJob(k) /\ Board!Retry(k)
    BY <1>0, <1>3 DEF TypeOK, Sound, OnItsWay, WillRead, FailJob, Board!Retry, Board!Finish, Board!NoTask, Run, github
  <1>4. CASE FailJob(k) /\ Board!Finish(k)
    BY <1>0, <1>4 DEF TypeOK, Sound, OnItsWay, WillRead, FailJob, Board!Retry, Board!Finish, Board!NoTask, Run, github
  <1>5. CASE StrandJob(k)
    BY <1>0, <1>5 DEF TypeOK, Sound, OnItsWay, WillRead, StrandJob, Board!Strand, Run, github
  <1>6. CASE ReopenJob(k)
    <2>1. PICK n \in 1 .. MaxAttempts - 1 :
            task' = [task EXCEPT ![k] = [state |-> "pending", failures |-> n]]
      BY <1>6 DEF ReopenJob, Board!Reopen
    <2>2. task[k].state = "idle" /\ task'[k].state = "pending"
      BY <1>6, <2>1 DEF TypeOK, ReopenJob, Board!Reopen
    <2>3. \A j \in Keys : j # k => task'[j] = task[j]
      BY <2>1 DEF TypeOK
    <2>4. UNCHANGED <<actual, webhooks, run, stored, missed>>
      BY <1>6 DEF ReopenJob, github
    <2> QED BY <1>0, <2>2, <2>3, <2>4 DEF Sound, OnItsWay, WillRead
  <1> QED BY <1>1, <1>2, <1>3, <1>4, <1>5, <1>6 DEF FailJob

-----------------------------------------------------------------------------
LEMMA InitInv == Init => SyncInv
  <1> SUFFICES ASSUME Init PROVE SyncInv
    OBVIOUS
  <1>1. TypeOK
    BY InitType
  <1>2. \A p \in PullRequests : Sound(p)
    <2> SUFFICES ASSUME NEW p \in PullRequests PROVE Sound(p)
      OBVIOUS
    <2>1. stored[p] = 0 /\ actual[p] = 0
      BY DEF Init
    <2>2. task[p].state = "idle"
      BY DEF Init, Board!Init, Board!NoTask, Keys
    <2> QED BY <2>1, <2>2 DEF Sound, OnItsWay
  <1> QED BY <1>1, <1>2, SoundIsInv

LEMMA NextInv == SyncInv /\ [Next]_vars => SyncInv'
  <1> SUFFICES ASSUME SyncInv, [Next]_vars PROVE SyncInv'
    OBVIOUS
  <1>1. TypeOK /\ \A q \in PullRequests : Sound(q)
    BY SoundIsInv DEF SyncInv
  <1>2. TypeOK' /\ \A q \in PullRequests : Sound(q)'
    <2>1. CASE \E p \in PullRequests : Change(p) \/ Lose(p) \/ Redeliver(p)
      BY <1>1, <2>1, GitHubType, GitHubSound
    <2>2. CASE \E p \in PullRequests : AcceptWebhook(p)
      BY <1>1, <2>2, ProducerType, WebhookSound
    <2>3. CASE \/ ScheduleSweep \/ ListContributions
               \/ \E p \in PullRequests : EnqueueListed(p)
      BY <1>1, <2>3, ProducerType, SweepSound
    <2>4. CASE \E p \in PullRequests : Reconcile(p)
      BY <1>1, <2>4, ReconcileType, ReconcileSound
    <2>5. CASE \E k \in Keys : StartJob(k) \/ CompleteJob(k) \/ FailJob(k)
                                \/ StrandJob(k) \/ ReopenJob(k)
      BY <1>1, <2>5, JobType, JobSound
    <2>6. CASE UNCHANGED vars
      BY <1>1, <2>6 DEF vars, github, TypeOK, Sound, OnItsWay, WillRead, Run, Keys
    <2> QED BY <2>1, <2>2, <2>3, <2>4, <2>5, <2>6 DEF Next, RunSweep
  <1>3. (\A p \in PullRequests : Sound(p))'
    BY <1>2
  <1> QED BY <1>2, <1>3 DEF SyncInv, ReadsAreFresh, NothingForgotten, Sound

\* Whatever the interleaving of webhooks, retries, sweeps and reconciliations,
\* readings lie between the record and GitHub, and a change that is not on
\* record is on its way or is one of the known misses.
THEOREM SyncInvariant == Spec => []SyncInv
  BY InitInv, NextInv, PTL DEF Spec

\* The webhooks alone keep the record equal to GitHub, but for lost webhooks,
\* webhooks dropped while a reconciliation runs, and jobs given up or stranded.
THEOREM WebhooksDoTheirPart == Spec => []WebhooksSuffice
  <1>1. SyncInv => WebhooksSuffice
    BY DEF SyncInv, TypeOK, NothingForgotten, OnItsWay, WillRead, WebhooksSuffice, Keys
  <1> QED BY <1>1, SyncInvariant, PTL

\* The record never goes back to an older state of the pull request.
THEOREM NeverOlder == Spec => RecordNeverOlder
  <1>1. SyncInv /\ [Next]_vars => [\A p \in PullRequests : stored'[p] >= stored[p]]_vars
    <2> SUFFICES ASSUME SyncInv, Next, NEW q \in PullRequests
                 PROVE  stored'[q] >= stored[q]
      BY DEF vars
    <2>1. stored[q] \in Nat
      BY DEF SyncInv, TypeOK
    <2>2. CASE \E p \in PullRequests : Persist(p)
      BY <2>2 DEF Persist, SyncInv, TypeOK, ReadsAreFresh, Run
    <2>3. CASE UNCHANGED stored
      BY <2>1, <2>3
    <2> QED BY <2>2, <2>3 DEF Next, Change, Lose, Redeliver, AcceptWebhook, ScheduleSweep,
          RunSweep, ListContributions, EnqueueListed, Reconcile, BeginRead, EndRead,
          StartJob, CompleteJob, FailJob, StrandJob, ReopenJob
  <1> QED BY <1>1, SyncInvariant, PTL DEF Spec, RecordNeverOlder
=============================================================================
