------------------------- MODULE ContributionStore -------------------------
(***************************************************************************)
(* DatabaseBackedPullRequestExecutor and persistReconciliationTransaction,  *)
(* statement by statement, for several executors at once.  A statement sees *)
(* what was committed before it (READ COMMITTED), a row a transaction has   *)
(* written is locked until it ends, and Postgres ends a transaction of each *)
(* cycle of waits (40P01).  What a transaction has written so far is in its *)
(* executor's record; the tables change when it commits.                    *)
(***************************************************************************)
EXTENDS ContributionRecord

CONSTANTS
  Executors,   \* executors at work at the same time
  MaxTime      \* bound: the last point in time

ASSUME StoreAssumption == MaxTime \in Nat /\ 0 .. MaxTime \subseteq Stamps

VARIABLES
  executor,    \* where each executor stands
  clock        \* the time

store == <<tables, executor, clock>>

Idle == [at |-> "idle", pr |-> None, started |-> 0, observed |-> None, snapshot |-> None,
         stamp |-> 0, refs |-> <<>>, todo |-> <<>>, held |-> {}, previous |-> None,
         updated |-> 0]

StoreInit ==
  /\ RecordInit
  /\ executor = [e \in Executors |-> Idle]
  /\ clock = 0

\* Mutant of Unclaimed: the jobs of one pull request run beside each other.
Unclaimed_Shared(p) == p \in PullRequests

\* The job of a pull request runs in one executor at a time: this is what the
\* queue's exclusion (JobQueue!OneRunnerPerKey) gives the executor.
Unclaimed(p) == \A e \in Executors : executor[e].pr # p

Move(e, to) == executor' = [executor EXCEPT ![e] = to]

Tick ==
  /\ clock < MaxTime
  /\ clock' = clock + 1
  /\ UNCHANGED <<tables, executor>>

\* execute(): the snapshot on record is read before GitHub is asked.
Begin(e, p) ==
  /\ clock < MaxTime
  /\ executor[e].at = "idle" /\ Unclaimed(p)
  /\ Move(e, [Idle EXCEPT !.at = "reading", !.pr = p, !.started = clock,
                          !.observed = StoredSnapshot(p)])
  /\ UNCHANGED <<tables, clock>>

\* reconcilePullRequest returns and evaluatePullRequest has run.  The answers of
\* GitHub take time.
Conclude(e) ==
  /\ executor[e].at = "reading" /\ executor[e].started < clock
  /\ \E s \in Snapshots, refs \in EvidenceLists :
       Move(e, [executor[e] EXCEPT !.at = "upsert", !.snapshot = s, !.stamp = clock,
                                   !.refs = refs, !.todo = refs])
  /\ UNCHANGED <<tables, clock>>

-----------------------------------------------------------------------------
(* persistReconciliationTransaction *)

InTransaction(e) == executor[e].at \in {"previous", "evidence"}

RowLocked(p) == \E e \in Executors : InTransaction(e) /\ executor[e].pr = p

\* Mutant of Upsert: the row is written outside the transaction.
Upsert_Autocommit(e) ==
  /\ executor[e].at = "upsert" /\ ~RowLocked(executor[e].pr)
  /\ Move(e, [executor[e] EXCEPT !.at = "previous", !.updated = clock])
  /\ contribution' = [contribution EXCEPT ![executor[e].pr] =
       ContributionRow([executor[e] EXCEPT !.updated = clock])]
  /\ UNCHANGED <<evidence, runs, evaluations, history, commits, clock>>

\* The transaction begins and writes the contribution's row, or waits for it.
Upsert(e) ==
  /\ executor[e].at = "upsert" /\ ~RowLocked(executor[e].pr)
  /\ Move(e, [executor[e] EXCEPT !.at = "previous", !.updated = clock])
  /\ UNCHANGED <<tables, clock>>

ReadPrevious(e) ==
  /\ executor[e].at = "previous"
  /\ Move(e, [executor[e] EXCEPT !.at = "evidence", !.previous = LatestState(executor[e].pr)])
  /\ UNCHANGED <<tables, clock>>

HeldByOther(e, o) == \E f \in Executors \ {e} : o \in executor[f].held

\* The next evidence row is inserted or rewritten, or waited for.
UpsertEvidence(e) ==
  /\ executor[e].at = "evidence" /\ executor[e].todo # <<>>
  /\ LET o == Head(executor[e].todo)
     IN  /\ ~HeldByOther(e, o)
         /\ Move(e, [executor[e] EXCEPT !.held = @ \union {o}, !.todo = Tail(@)])
  /\ UNCHANGED <<tables, clock>>

\* The three inserts, which touch nothing another transaction can see, and COMMIT.
\* Its acknowledgement may be lost: the job is then tried again, which is a run
\* like any other.
Commit(e) ==
  /\ executor[e].at = "evidence" /\ executor[e].todo = <<>>
  /\ Write(executor[e])
  /\ Move(e, Idle)
  /\ UNCHANGED clock

\* Mutant of Abandon: the transaction is left open.
Abandon_LeftOpen(e) ==
  /\ executor[e].at # "idle"
  /\ Move(e, [Idle EXCEPT !.held = executor[e].held])
  /\ UNCHANGED <<tables, clock>>

\* The reconciliation asks for a retry, GitHub or a statement fails, the process
\* dies: the transaction is rolled back, its locks are released.
Abandon(e) ==
  /\ executor[e].at # "idle"
  /\ Move(e, Idle)
  /\ UNCHANGED <<tables, clock>>

WaitsFor(e, f) ==
  /\ executor[e].at = "evidence" /\ executor[e].todo # <<>>
  /\ f # e /\ Head(executor[e].todo) \in executor[f].held

\* e is on a cycle of transactions that wait for each other's evidence rows.
Deadlocked(e) ==
  \E S \in SUBSET Executors :
    /\ e \in S
    /\ \A f \in S : (\E g \in S : WaitsFor(f, g)) /\ (\E g \in S : WaitsFor(g, f))

EndDeadlock(e) == Deadlocked(e) /\ Abandon(e)

ExecutorStep(e) == Conclude(e) \/ Upsert(e) \/ ReadPrevious(e) \/ UpsertEvidence(e) \/ Commit(e)

StoreNext ==
  \/ Tick
  \/ \E e \in Executors : (\E p \in PullRequests : Begin(e, p)) \/ ExecutorStep(e) \/ Abandon(e)

StoreSpec == StoreInit /\ [][StoreNext]_store

\* Time passes, executors go on, and Postgres looks for deadlocks.
FairStoreSpec ==
  /\ StoreSpec
  /\ WF_store(Tick)
  /\ \A e \in Executors : WF_store(ExecutorStep(e)) /\ WF_store(EndDeadlock(e))

-----------------------------------------------------------------------------
(* Properties *)

Standing ==
  [at : {"idle", "reading", "upsert", "previous", "evidence"},
   pr : PullRequests \union {None}, started : 0 .. MaxTime,
   observed : Snapshots \union {None}, snapshot : Snapshots \union {None},
   stamp : 0 .. MaxTime, refs : EvidenceLists \union {<<>>}, todo : Seq(Objects),
   held : SUBSET Objects,
   previous : {Evaluate(s).workflowState : s \in Snapshots} \union {None},
   updated : 0 .. MaxTime]

StoreTypes ==
  /\ clock \in 0 .. MaxTime
  /\ executor \in [Executors -> Standing]
  /\ \A p \in PullRequests : \A i \in DOMAIN evaluations[p] : evaluations[p][i].stamp <= clock

\* What an executor has read stays true until it commits: the snapshot it compares
\* with is the one on record, and nothing on record is later than its start.
Stands(x) ==
  /\ x.at = "idle" <=> x.pr = None
  /\ x.at # "idle" =>
       /\ x.started <= clock /\ x.observed = StoredSnapshot(x.pr)
       /\ \A i \in DOMAIN evaluations[x.pr] : evaluations[x.pr][i].stamp <= x.started
  /\ x.at \in {"upsert", "previous", "evidence"} =>
       /\ x.snapshot # None /\ x.refs \in EvidenceLists
       /\ x.started < x.stamp /\ x.stamp <= clock
  /\ x.at \in {"previous", "evidence"} => x.stamp <= x.updated /\ x.updated <= clock
  /\ x.at = "evidence" => x.previous = LatestState(x.pr)
  /\ x.held # {} => x.at = "evidence"

\* A pull request has one executor, an evidence row one transaction that has it locked.
Apart(x, y) == (x.pr = y.pr => x.pr = None) /\ x.held \intersect y.held = {}

\* Types, and what executors rely on between their statements.
StoreInv ==
  /\ StoreTypes
  /\ \A e \in Executors : Stands(executor[e])
  /\ \A e, f \in Executors : e # f => Apart(executor[e], executor[f])

\* The transaction, with what the executor read before it and during it, changes the
\* tables as ContributionRecord does in one step on what is on record then.
ImplementsRecord == RecordSpec

\* Executors wait for each other's rows, in any order of the lists, and no
\* reconciliation waits for ever.
EveryRunEnds == \A e \in Executors : executor[e].at # "idle" ~> executor[e].at = "idle"
=============================================================================
