------------------------- MODULE ContributionRecord -------------------------
(***************************************************************************)
(* What the database promises about the contributions of a repository: each *)
(* reconciliation goes on record in one step - contribution, evidence, run, *)
(* evaluation and, if the state changed, a transition - and is compared     *)
(* with what was on record at that moment.  ContributionStore does the same *)
(* statement by statement; the product's queries read these tables.         *)
(*                                                                          *)
(* Tables are functions of the pull request; an append-only table is the    *)
(* sequence of its rows in the order of their commits.  Times are stamps:   *)
(* evaluatedAt, completedAt and the like of one run are one stamp.          *)
(***************************************************************************)
EXTENDS StateEngine, FiniteSets

CONSTANTS
  PullRequests,  \* of one repository that is on record, by number
  Snapshots,     \* what reconcilePullRequest may conclude
  Objects,       \* the GitHub objects evidence is about, by evidence id
  EvidenceLists, \* the evidence lists of a reconciliation, in GitHub's order
  Stamps,        \* bound: points in time
  None           \* no row, no value

ASSUME RecordAssumption ==
  /\ Snapshots \subseteq PullRequestSnapshot
  /\ EvidenceLists \subseteq Seq(Objects)
  /\ Stamps \subseteq Nat
  /\ None \notin PullRequests /\ None \notin Snapshots
  /\ \A s \in Snapshots : Evaluate(s).workflowState # None

VARIABLES
  contribution,  \* contributions, by number; NoContribution where there is no row
  evidence,      \* evidence: whose each object is and which commit wrote it, or NoEvidence
  runs,          \* reconciliation_runs
  evaluations,   \* state_evaluations
  history,       \* state_history
  commits        \* history: transactions committed

tables == <<contribution, evidence, runs, evaluations, history, commits>>

NoContribution == [snapshot |-> None, stamp |-> 0, updated |-> 0]
NoEvidence     == [pr |-> None, commit |-> 0]

-----------------------------------------------------------------------------
(* reconciliation-drift.ts and the end of reconcilePullRequest *)

SnapshotFields ==
  {"isDraft", "isOpen", "isMerged", "hasMergeConflict", "checkStatus", "reviewDecision",
   "authorHasChangesToMake", "maintainerReviewRequired"}

DriftFields(observed, s) ==
  IF observed = None THEN {} ELSE {f \in SnapshotFields : observed[f] # s[f]}

\* deriveReviewDecision leaves the decision open exactly when the branch rules
\* ask for more than reviews can prove.
PolicyResolved(s) == s.reviewDecision # "UNKNOWN"

RepairAction(observed, s) ==
  IF ~PolicyResolved(s) THEN "DEFER"
  ELSE IF observed # None /\ DriftFields(observed, s) = {} THEN "NO_CHANGE"
  ELSE "REPLACE_WITH_AUTHORITATIVE"

-----------------------------------------------------------------------------
(* The rows of one reconciliation x, which has concluded x.snapshot and x.refs *)
(* at x.stamp, was given x.observed and found x.previous *)

\* Mutant of ContributionRow: a deferred repair leaves the snapshot on record.
ContributionRow_Deferred(x) ==
  [snapshot |-> IF RepairAction(x.observed, x.snapshot) = "DEFER" /\ x.observed # None
                THEN x.observed ELSE x.snapshot,
   stamp |-> x.stamp, updated |-> x.updated]

\* The snapshot is stored whatever the repair decision says.
ContributionRow(x) == [snapshot |-> x.snapshot, stamp |-> x.stamp, updated |-> x.updated]

RunRow(x) ==
  [stamp |-> x.stamp, commit |-> commits + 1, snapshot |-> x.snapshot, refs |-> x.refs,
   status |-> IF PolicyResolved(x.snapshot) THEN "READY" ELSE "POLICY_UNRESOLVED",
   repairAction |-> RepairAction(x.observed, x.snapshot),
   driftFields |-> DriftFields(x.observed, x.snapshot)]

EvaluationRow(x) == [stamp |-> x.stamp, verdict |-> Evaluate(x.snapshot)]

HistoryRow(x) ==
  [stamp |-> x.stamp, from |-> x.previous, to |-> Evaluate(x.snapshot).workflowState]

Named(refs, o) == \E k \in DOMAIN refs : refs[k] = o

StateChanged(x) == x.previous # Evaluate(x.snapshot).workflowState

\* Rows are unique by the evidence id alone: a conflict moves the row to the
\* pull request that is being written.
EvidenceRows(x) ==
  [o \in Objects |-> IF Named(x.refs, o)
                     THEN [pr |-> x.pr, commit |-> commits + 1] ELSE evidence[o]]

Added(table, p, r) == [table EXCEPT ![p] = Append(@, r)]

Write(x) ==
  /\ commits' = commits + 1
  /\ contribution' = [contribution EXCEPT ![x.pr] = ContributionRow(x)]
  /\ evidence' = EvidenceRows(x)
  /\ runs' = Added(runs, x.pr, RunRow(x))
  /\ evaluations' = Added(evaluations, x.pr, EvaluationRow(x))
  /\ history' = IF StateChanged(x) THEN Added(history, x.pr, HistoryRow(x)) ELSE history

-----------------------------------------------------------------------------
\* Mutant of Latest: the order is ascending.
Latest_Ascending(E) == E[1]

\* findLatestByContributionId: ORDER BY evaluated_at DESC LIMIT 1
Latest(E) == E[CHOOSE i \in DOMAIN E : \A j \in DOMAIN E : E[j].stamp <= E[i].stamp]

LatestState(p) ==
  IF evaluations[p] = <<>> THEN None ELSE Latest(evaluations[p]).verdict.workflowState

StoredSnapshot(p) == contribution[p].snapshot

RecordInit ==
  /\ contribution = [p \in PullRequests |-> NoContribution]
  /\ evidence = [o \in Objects |-> NoEvidence]
  /\ runs = [p \in PullRequests |-> <<>>]
  /\ evaluations = [p \in PullRequests |-> <<>>]
  /\ history = [p \in PullRequests |-> <<>>]
  /\ commits = 0

\* A reconciliation of p goes on record; it is later than those before it.
Record(p, s, refs, stamp, updated) ==
  /\ \A i \in DOMAIN evaluations[p] : evaluations[p][i].stamp < stamp
  /\ stamp <= updated
  /\ Write([pr |-> p, snapshot |-> s, refs |-> refs, stamp |-> stamp, updated |-> updated,
            observed |-> StoredSnapshot(p), previous |-> LatestState(p)])

RecordNext ==
  \E p \in PullRequests, s \in Snapshots, refs \in EvidenceLists,
     stamp \in Stamps, updated \in Stamps : Record(p, s, refs, stamp, updated)

RecordSpec == RecordInit /\ [][RecordNext]_tables

-----------------------------------------------------------------------------
(* Properties *)

Final(s) == s[Len(s)]

\* "This prevents partial persistence where the contribution state changes without
\* its evidence or evaluation history" (docs/product/phase-4-persistence.md): for
\* every run on record there is the evaluation of what it concluded, the latest
\* evaluation is the last one committed, and the contribution's row is that run's.
Evaluated(R, E) ==
  /\ Len(R) = Len(E)
  /\ \A i \in DOMAIN R : E[i].stamp = R[i].stamp /\ E[i].verdict = Evaluate(R[i].snapshot)
RecordIsWhole ==
  \A p \in PullRequests :
    /\ Evaluated(runs[p], evaluations[p])
    /\ contribution[p].snapshot = None <=> runs[p] = <<>>
    /\ runs[p] # <<>> =>
         /\ contribution[p].snapshot = Final(runs[p]).snapshot
         /\ contribution[p].stamp = Final(runs[p]).stamp
         /\ Latest(evaluations[p]) = Final(evaluations[p])

\* The state history of a pull request begins without a state, each transition
\* starts where the one before it ended, none goes nowhere, and the last one ends
\* in the state the latest evaluation shows.
Chain(H) ==
  \A i \in DOMAIN H :
    /\ H[i].from # H[i].to
    /\ i = 1 => H[i].from = None
    /\ i > 1 => H[i].from = H[i - 1].to /\ H[i].stamp > H[i - 1].stamp
HistoryIsChain ==
  \A p \in PullRequests :
    /\ Chain(history[p])
    /\ history[p] = <<>> <=> evaluations[p] = <<>>
    /\ history[p] # <<>> => Final(history[p]).to = LatestState(p)

\* The drift and the repair on record compare a run with the run stored before it,
\* although the snapshot they use was read long before the transaction.
Before(R, i) == IF i = 1 THEN None ELSE R[i - 1].snapshot
Compared(R) ==
  \A i \in DOMAIN R :
    /\ R[i].driftFields = DriftFields(Before(R, i), R[i].snapshot)
    /\ R[i].repairAction = RepairAction(Before(R, i), R[i].snapshot)
DriftIsAgainstRecord == \A p \in PullRequests : Compared(runs[p])

\* The evidence a pull request's newest run rests on is listed under it ("every
\* evaluation must be explainable and traceable back to concrete GitHub evidence",
\* docs/adr/0004-evidence-provenance.md).  It does not hold: evidence rows are unique
\* by the evidence id alone, so pull requests of one head commit take each other's.
EvidenceIsOwn ==
  \A p \in PullRequests : runs[p] # <<>> =>
    \A o \in Objects : Named(Final(runs[p]).refs, o) => evidence[o].pr = p

\* What holds instead: an evidence row belongs to the pull request whose
\* reconciliation named the object last, in whatever order the executors wrote.
EvidenceIsNewest ==
  /\ \A o \in Objects : evidence[o].pr # None =>
       \E i \in DOMAIN runs[evidence[o].pr] :
         /\ Named(runs[evidence[o].pr][i].refs, o)
         /\ runs[evidence[o].pr][i].commit = evidence[o].commit
  /\ \A p \in PullRequests : \A i \in DOMAIN runs[p] : \A o \in Objects :
       Named(runs[p][i].refs, o) =>
         evidence[o].pr # None /\ runs[p][i].commit <= evidence[o].commit
=============================================================================
