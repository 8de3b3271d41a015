---------------------------- MODULE RecordProofs ----------------------------
(***************************************************************************)
(* What TLAPS proves of what goes on record and what is shown of it.  The    *)
(* promises of ContributionRecord hold, and ContributionStore implements it, *)
(* for any number of executors, pull requests and evidence rows.  Over the   *)
(* same tables, what ProductQueries answers and WebPages shows, for any      *)
(* number of pull requests, requests, reconciliations and pages.             *)
(***************************************************************************)
EXTENDS ContributionStore, WebPages, StateEngineProofs, FiniteSetTheorems

-----------------------------------------------------------------------------
(* ContributionRecord: one reconciliation after another *)

Stored == Snapshots \union {None}
Verdicts == {Evaluate(s) : s \in Snapshots}
States == {Evaluate(s).workflowState : s \in Snapshots}

RunRows ==
  [stamp : Nat, commit : Nat, snapshot : Snapshots, refs : EvidenceLists,
   status : {"READY", "POLICY_UNRESOLVED"},
   repairAction : {"DEFER", "NO_CHANGE", "REPLACE_WITH_AUTHORITATIVE"},
   driftFields : SUBSET SnapshotFields]
EvaluationRows == [stamp : Nat, verdict : Verdicts]
HistoryRows == [stamp : Nat, from : States \union {None}, to : States]

RecordTypes ==
  /\ commits \in Nat
  /\ contribution \in [PullRequests -> [snapshot : Stored, stamp : Nat, updated : Nat]]
  /\ evidence \in [Objects -> [pr : PullRequests \union {None}, commit : Nat]]
  /\ runs \in [PullRequests -> Seq(RunRows)]
  /\ evaluations \in [PullRequests -> Seq(EvaluationRows)]
  /\ history \in [PullRequests -> Seq(HistoryRows)]

\* Evaluations are on record in the order of their times.
Ascending(E) == \A i, j \in 1 .. Len(E) : i < j => E[i].stamp < E[j].stamp

\* A transition is stored with the evaluation that made it.
Dated(H, E) == \A i \in 1 .. Len(H) : \E j \in 1 .. Len(E) : H[i].stamp = E[j].stamp

Counted(R, n) == \A i \in 1 .. Len(R) : R[i].commit <= n

RecordInv ==
  /\ RecordTypes
  /\ \A p \in PullRequests :
       /\ Ascending(evaluations[p])
       /\ Dated(history[p], evaluations[p])
       /\ Counted(runs[p], commits)
  /\ RecordIsWhole
  /\ HistoryIsChain
  /\ DriftIsAgainstRecord
  /\ EvidenceIsNewest

-----------------------------------------------------------------------------
\* The latest evaluation is the last one stored, for stamps that ascend.
LEMMA LatestIsLast ==
  ASSUME NEW E \in Seq(EvaluationRows), Ascending(E), E # <<>>
  PROVE  Latest(E) = E[Len(E)]
<1>1. Len(E) \in Nat /\ Len(E) > 0
  BY EmptySeq
<1>2. \A i \in 1 .. Len(E) : E[i].stamp \in Nat
  <2>1. \A i \in 1 .. Len(E) : E[i] \in EvaluationRows
    BY <1>1
  <2> QED BY <2>1 DEF EvaluationRows
<1>3. DOMAIN E = 1 .. Len(E)
  BY <1>1
<1>4. \A j \in DOMAIN E : E[j].stamp <= E[Len(E)].stamp
  <2> SUFFICES ASSUME NEW j \in DOMAIN E PROVE E[j].stamp <= E[Len(E)].stamp
    OBVIOUS
  <2>1. CASE j = Len(E)
    BY <2>1, <1>1, <1>2, <1>3
  <2>2. CASE j < Len(E)
    BY <2>2, <1>1, <1>2, <1>3 DEF Ascending
  <2> QED BY <2>1, <2>2, <1>1, <1>3
<1>5. ASSUME NEW i \in DOMAIN E, \A j \in DOMAIN E : E[j].stamp <= E[i].stamp
      PROVE  i = Len(E)
  <2>1. CASE i < Len(E)
    <3>1. E[i].stamp < E[Len(E)].stamp
      BY <2>1, <1>1, <1>3 DEF Ascending
    <3> QED BY <3>1, <1>1, <1>2, <1>3, <1>5
  <2> QED BY <2>1, <1>1, <1>3
<1> DEFINE last == CHOOSE i \in DOMAIN E : \A j \in DOMAIN E : E[j].stamp <= E[i].stamp
<1>6. last = Len(E)
  <2>1. Len(E) \in DOMAIN E
    BY <1>1, <1>3
  <2>2. last \in DOMAIN E /\ \A j \in DOMAIN E : E[j].stamp <= E[last].stamp
    BY <2>1, <1>4
  <2> QED BY <2>2, <1>5
<1> QED BY <1>6 DEF Latest

LEMMA InitRecord ==
  ASSUME RecordInit
  PROVE  RecordInv
<1> USE RecordAssumption DEF RecordAssumption
<1>1. RecordTypes
  BY DEF RecordInit, RecordTypes, NoContribution, NoEvidence, Stored
<1>2. EvidenceIsNewest
  BY DEF RecordInit, EvidenceIsNewest, NoEvidence
<1>3. ASSUME NEW p \in PullRequests
      PROVE  /\ Ascending(evaluations[p]) /\ Dated(history[p], evaluations[p])
             /\ Counted(runs[p], commits)
  BY DEF RecordInit, Ascending, Dated, Counted
<1>4. RecordIsWhole /\ HistoryIsChain /\ DriftIsAgainstRecord
  BY DEF RecordInit, RecordIsWhole, HistoryIsChain, DriftIsAgainstRecord, Evaluated, Chain,
     Compared, NoContribution
<1> QED BY <1>1, <1>2, <1>3, <1>4 DEF RecordInv
-----------------------------------------------------------------------------
(* A reconciliation goes on record *)

\* What Record writes, for the pull request p and for the others.
Written(p, s, refs, stamp) ==
  /\ RecordTypes'
  /\ commits' = commits + 1
  /\ \A q \in PullRequests \ {p} :
       /\ contribution'[q] = contribution[q] /\ runs'[q] = runs[q]
       /\ evaluations'[q] = evaluations[q] /\ history'[q] = history[q]
  /\ contribution'[p].snapshot = s /\ contribution'[p].stamp = stamp
  /\ \E r \in RunRows :
       /\ runs'[p] = Append(runs[p], r)
       /\ r.stamp = stamp /\ r.commit = commits + 1 /\ r.snapshot = s /\ r.refs = refs
       /\ r.driftFields = DriftFields(StoredSnapshot(p), s)
       /\ r.repairAction = RepairAction(StoredSnapshot(p), s)
  /\ \E v \in EvaluationRows :
       /\ evaluations'[p] = Append(evaluations[p], v)
       /\ v.stamp = stamp /\ v.verdict = Evaluate(s)
  /\ LatestState(p) = Evaluate(s).workflowState => history'[p] = history[p]
  /\ LatestState(p) # Evaluate(s).workflowState =>
       \E h \in HistoryRows :
         /\ history'[p] = Append(history[p], h)
         /\ h.stamp = stamp /\ h.from = LatestState(p)
         /\ h.to = Evaluate(s).workflowState
  /\ \A o \in Objects :
       evidence'[o] = IF Named(refs, o) THEN [pr |-> p, commit |-> commits + 1]
                      ELSE evidence[o]
  /\ stamp \in Nat
  /\ \A i \in 1 .. Len(evaluations[p]) : evaluations[p][i].stamp < stamp

LEMMA RowsWritten ==
  ASSUME RecordTypes, NEW p \in PullRequests, Ascending(evaluations[p]),
         NEW s \in Snapshots, NEW refs \in EvidenceLists,
         NEW stamp \in Stamps, NEW updated \in Stamps, Record(p, s, refs, stamp, updated)
  PROVE  Written(p, s, refs, stamp)
<1> USE RecordAssumption DEF RecordAssumption
<1> DEFINE x == [pr |-> p, snapshot |-> s, refs |-> refs, stamp |-> stamp, updated |-> updated,
                 observed |-> StoredSnapshot(p), previous |-> LatestState(p)]
           r == RunRow(x)
           v == EvaluationRow(x)
           h == HistoryRow(x)
<1>1. Write(x) /\ stamp \in Nat /\ updated \in Nat
  BY DEF Record
<1>2. /\ x.pr = p /\ x.snapshot = s /\ x.refs = refs /\ x.stamp = stamp /\ x.updated = updated
      /\ x.observed = StoredSnapshot(p) /\ x.previous = LatestState(p)
  OBVIOUS
<1>3. commits \in Nat /\ commits' = commits + 1
  BY <1>1 DEF Write, RecordTypes
<1>4. DriftFields(StoredSnapshot(p), s) \in SUBSET SnapshotFields
  BY DEF DriftFields
<1>5. RepairAction(StoredSnapshot(p), s) \in {"DEFER", "NO_CHANGE", "REPLACE_WITH_AUTHORITATIVE"}
  BY DEF RepairAction
<1>6. r \in RunRows /\ r.stamp = stamp /\ r.commit = commits + 1 /\ r.snapshot = s
      /\ r.refs = refs /\ r.driftFields = DriftFields(StoredSnapshot(p), s)
      /\ r.repairAction = RepairAction(StoredSnapshot(p), s)
  BY <1>1, <1>2, <1>3, <1>4, <1>5 DEF RunRow, RunRows
<1>7. v \in EvaluationRows /\ v.stamp = stamp /\ v.verdict = Evaluate(s)
  BY <1>1, <1>2 DEF EvaluationRow, EvaluationRows, Verdicts
<1>8. LatestState(p) \in States \union {None}
  <2>1. CASE evaluations[p] = <<>>
    BY <2>1 DEF LatestState
  <2>2. CASE evaluations[p] # <<>>
    <3>1. evaluations[p] \in Seq(EvaluationRows)
      BY DEF RecordTypes
    <3>2. /\ Latest(evaluations[p]) = evaluations[p][Len(evaluations[p])]
          /\ Len(evaluations[p]) \in Nat \ {0}
      BY <2>2, <3>1, LatestIsLast, EmptySeq
    <3>3. Latest(evaluations[p]) \in EvaluationRows
      BY <3>1, <3>2
    <3>4. Latest(evaluations[p]).verdict \in Verdicts
      BY <3>3 DEF EvaluationRows
    <3> QED BY <2>2, <3>4 DEF LatestState, Verdicts, States
  <2> QED BY <2>1, <2>2
<1>9. h \in HistoryRows /\ h.stamp = stamp /\ h.from = LatestState(p)
      /\ h.to = Evaluate(s).workflowState
  BY <1>1, <1>2, <1>8 DEF HistoryRow, HistoryRows, States
<1> HIDE DEF x, r, v, h
<1>10. /\ runs' = [runs EXCEPT ![p] = Append(@, r)]
       /\ evaluations' = [evaluations EXCEPT ![p] = Append(@, v)]
       /\ history' = IF StateChanged(x) THEN [history EXCEPT ![p] = Append(@, h)] ELSE history
  BY <1>1, <1>2 DEF Write, Added, r, v, h
<1>11. StateChanged(x) <=> LatestState(p) # Evaluate(s).workflowState
  BY <1>2 DEF StateChanged
<1>12. /\ runs' \in [PullRequests -> Seq(RunRows)] /\ runs'[p] = Append(runs[p], r)
       /\ \A q \in PullRequests \ {p} : runs'[q] = runs[q]
  BY <1>6, <1>10 DEF RecordTypes
<1>13. /\ evaluations' \in [PullRequests -> Seq(EvaluationRows)]
       /\ evaluations'[p] = Append(evaluations[p], v)
       /\ \A q \in PullRequests \ {p} : evaluations'[q] = evaluations[q]
  BY <1>7, <1>10 DEF RecordTypes
<1>14. /\ history' \in [PullRequests -> Seq(HistoryRows)]
       /\ \A q \in PullRequests \ {p} : history'[q] = history[q]
       /\ StateChanged(x) => history'[p] = Append(history[p], h)
       /\ ~StateChanged(x) => history'[p] = history[p]
  BY <1>9, <1>10 DEF RecordTypes
<1>15. /\ contribution' \in [PullRequests -> [snapshot : Stored, stamp : Nat, updated : Nat]]
       /\ contribution'[p].snapshot = s /\ contribution'[p].stamp = stamp
       /\ \A q \in PullRequests \ {p} : contribution'[q] = contribution[q]
  BY <1>1, <1>2 DEF Write, ContributionRow, RecordTypes, Stored
<1>16. \A o \in Objects : evidence'[o] = IF Named(refs, o) THEN [pr |-> p, commit |-> commits + 1]
                                         ELSE evidence[o]
  BY <1>1, <1>2 DEF Write, EvidenceRows
<1>17. evidence' \in [Objects -> [pr : PullRequests \union {None}, commit : Nat]]
  BY <1>1, <1>2, <1>3 DEF Write, EvidenceRows, RecordTypes
<1>18. \A i \in 1 .. Len(evaluations[p]) : evaluations[p][i].stamp < stamp
  BY DEF Record, RecordTypes
<1>19. RecordTypes'
  <2>1. commits' \in Nat
    BY <1>3
  <2> QED BY <2>1, <1>12, <1>13, <1>14, <1>15, <1>17, Zenon DEF RecordTypes
<1>20. \E row \in RunRows :
         /\ runs'[p] = Append(runs[p], row)
         /\ row.stamp = stamp /\ row.commit = commits + 1 /\ row.snapshot = s /\ row.refs = refs
         /\ row.driftFields = DriftFields(StoredSnapshot(p), s)
         /\ row.repairAction = RepairAction(StoredSnapshot(p), s)
  BY <1>6, <1>12, Zenon
<1>21. \E row \in EvaluationRows :
         /\ evaluations'[p] = Append(evaluations[p], row)
         /\ row.stamp = stamp /\ row.verdict = Evaluate(s)
  BY <1>7, <1>13, Zenon
<1>22. LatestState(p) # Evaluate(s).workflowState =>
         \E row \in HistoryRows :
           /\ history'[p] = Append(history[p], row)
           /\ row.stamp = stamp /\ row.from = LatestState(p)
           /\ row.to = Evaluate(s).workflowState
  BY <1>9, <1>11, <1>14, Zenon
<1>23. LatestState(p) = Evaluate(s).workflowState => history'[p] = history[p]
  BY <1>11, <1>14
<1>24. \A q \in PullRequests \ {p} :
         /\ contribution'[q] = contribution[q] /\ runs'[q] = runs[q]
         /\ evaluations'[q] = evaluations[q] /\ history'[q] = history[q]
  BY <1>12, <1>13, <1>14, <1>15
<1> QED
  BY <1>1, <1>3, <1>15, <1>16, <1>18, <1>19, <1>20, <1>21, <1>22, <1>23, <1>24, Zenon
  DEF Written

\* The new row is the last.
LEMMA RowAdded ==
  ASSUME NEW S, NEW t \in Seq(S), NEW e \in S
  PROVE  /\ Append(t, e) \in Seq(S) /\ Append(t, e) # <<>>
         /\ Len(t) \in Nat /\ Len(Append(t, e)) = Len(t) + 1
         /\ DOMAIN t = 1 .. Len(t) /\ DOMAIN Append(t, e) = 1 .. Len(t) + 1
         /\ \A i \in 1 .. Len(t) : Append(t, e)[i] = t[i]
         /\ Append(t, e)[Len(t) + 1] = e
         /\ t = <<>> <=> Len(t) = 0
  BY AppendProperties, LenProperties, EmptySeq

LEMMA AscendingAppend ==
  ASSUME NEW E \in Seq(EvaluationRows), NEW v \in EvaluationRows, Ascending(E),
         \A i \in 1 .. Len(E) : E[i].stamp < v.stamp
  PROVE  Ascending(Append(E, v))
  BY DEF Ascending

LEMMA DatedAppend ==
  ASSUME NEW H \in Seq(HistoryRows), NEW h \in HistoryRows,
         NEW E \in Seq(EvaluationRows), NEW v \in EvaluationRows,
         Dated(H, E), h.stamp = v.stamp
  PROVE  Dated(H, Append(E, v)) /\ Dated(Append(H, h), Append(E, v))
<1> DEFINE F == Append(E, v)
           G == Append(H, h)
<1>1. /\ Len(E) \in Nat /\ Len(F) = Len(E) + 1 /\ F[Len(E) + 1] = v
      /\ \A j \in 1 .. Len(E) : F[j] = E[j]
  BY RowAdded
<1>2. /\ Len(H) \in Nat /\ Len(G) = Len(H) + 1 /\ G[Len(H) + 1] = h
      /\ \A i \in 1 .. Len(H) : G[i] = H[i]
  BY RowAdded
<1> HIDE DEF F, G
<1>3. Dated(H, F)
  <2> SUFFICES ASSUME NEW i \in 1 .. Len(H)
               PROVE  \E j \in 1 .. Len(F) : H[i].stamp = F[j].stamp
    BY DEF Dated
  <2>1. PICK j \in 1 .. Len(E) : H[i].stamp = E[j].stamp
    BY DEF Dated
  <2>2. j \in 1 .. Len(F) /\ H[i].stamp = F[j].stamp
    BY <2>1, <1>1
  <2> QED BY <2>2
<1>4. Dated(G, F)
  <2> SUFFICES ASSUME NEW i \in 1 .. Len(G)
               PROVE  \E j \in 1 .. Len(F) : G[i].stamp = F[j].stamp
    BY DEF Dated
  <2>1. CASE i = Len(H) + 1
    <3>1. Len(E) + 1 \in 1 .. Len(F) /\ G[i].stamp = F[Len(E) + 1].stamp
      BY <2>1, <1>1, <1>2
    <3> QED BY <3>1
  <2>2. CASE i \in 1 .. Len(H)
    <3>1. \E j \in 1 .. Len(F) : H[i].stamp = F[j].stamp
      BY <2>2, <1>3 DEF Dated
    <3> QED BY <3>1, <2>2, <1>2
  <2> QED BY <2>1, <2>2, <1>2
<1> QED BY <1>3, <1>4 DEF F, G

LEMMA CountedLater ==
  ASSUME NEW R \in Seq(RunRows), NEW n \in Nat, Counted(R, n)
  PROVE  Counted(R, n + 1)
<1>1. \A i \in 1 .. Len(R) : R[i] \in RunRows
  OBVIOUS
<1>2. \A i \in 1 .. Len(R) : R[i].commit \in Nat
  BY <1>1 DEF RunRows
<1> QED BY <1>2 DEF Counted

LEMMA CountedAppend ==
  ASSUME NEW R \in Seq(RunRows), NEW r \in RunRows, NEW n \in Nat, Counted(R, n), r.commit <= n + 1
  PROVE  Counted(Append(R, r), n + 1)
<1>1. /\ Len(R) \in Nat /\ Len(Append(R, r)) = Len(R) + 1 /\ Append(R, r)[Len(R) + 1] = r
      /\ \A i \in 1 .. Len(R) : Append(R, r)[i] = R[i]
  BY RowAdded
<1>2. Counted(R, n + 1)
  BY CountedLater
<1> QED BY <1>1, <1>2 DEF Counted

LEMMA EvaluatedAppend ==
  ASSUME NEW R \in Seq(RunRows), NEW r \in RunRows,
         NEW E \in Seq(EvaluationRows), NEW v \in EvaluationRows,
         Evaluated(R, E), v.stamp = r.stamp, v.verdict = Evaluate(r.snapshot)
  PROVE  Evaluated(Append(R, r), Append(E, v))
  BY DEF Evaluated

LEMMA ChainAppend ==
  ASSUME NEW H \in Seq(HistoryRows), NEW h \in HistoryRows, Chain(H), h.from # h.to,
         H = <<>> => h.from = None,
         H # <<>> => h.from = Final(H).to /\ h.stamp > Final(H).stamp
  PROVE  Chain(Append(H, h))
  BY DEF Chain, Final

LEMMA ComparedAppend ==
  ASSUME NEW R \in Seq(RunRows), NEW r \in RunRows, Compared(R),
         NEW before, before = IF R = <<>> THEN None ELSE Final(R).snapshot,
         r.driftFields = DriftFields(before, r.snapshot),
         r.repairAction = RepairAction(before, r.snapshot)
  PROVE  Compared(Append(R, r))
  BY DEF Compared, Before, Final

\* The evidence of a reconciliation is the newest, the other rows stay as they were.
LEMMA EvidenceWritten ==
  ASSUME RecordTypes, EvidenceIsNewest, NEW p \in PullRequests,
         \A q \in PullRequests : Counted(runs[q], commits),
         NEW s, NEW refs, NEW stamp, Written(p, s, refs, stamp)
  PROVE  EvidenceIsNewest'
<1> USE RecordAssumption DEF RecordAssumption
<1>1. PICK r \in RunRows : runs'[p] = Append(runs[p], r) /\ r.commit = commits + 1 /\ r.refs = refs
  BY DEF Written
<1>2. \A q \in PullRequests \ {p} : runs'[q] = runs[q]
  BY DEF Written
<1>3. \A o \in Objects : evidence'[o] = IF Named(refs, o) THEN [pr |-> p, commit |-> commits + 1]
                                        ELSE evidence[o]
  BY DEF Written
<1>4. commits \in Nat /\ \A q \in PullRequests : runs[q] \in Seq(RunRows)
  BY DEF RecordTypes
<1> DEFINE n == Len(runs[p])
<1>5. /\ n \in Nat /\ DOMAIN runs[p] = 1 .. n /\ DOMAIN runs'[p] = 1 .. n + 1
      /\ \A i \in 1 .. n : runs'[p][i] = runs[p][i]
      /\ runs'[p][n + 1] = r
  BY <1>1, <1>4, RowAdded
<1>6. \A q \in PullRequests : \A i \in DOMAIN runs[q] :
        i \in DOMAIN runs'[q] /\ runs'[q][i] = runs[q][i]
  BY <1>2, <1>5
<1>7. \A q \in PullRequests : \A i \in DOMAIN runs'[q] :
        i \in DOMAIN runs[q] \/ (q = p /\ i = n + 1)
  BY <1>2, <1>5
<1>8. \A q \in PullRequests : \A i \in DOMAIN runs[q] :
        runs[q][i].commit \in Nat /\ runs[q][i].commit <= commits
  <2> SUFFICES ASSUME NEW q \in PullRequests, NEW i \in DOMAIN runs[q]
               PROVE  runs[q][i].commit \in Nat /\ runs[q][i].commit <= commits
    OBVIOUS
  <2>1. runs[q] \in Seq(RunRows) /\ i \in 1 .. Len(runs[q])
    BY <1>4
  <2>2. runs[q][i] \in RunRows
    BY <2>1
  <2> QED BY <2>1, <2>2 DEF RunRows, Counted
<1> HIDE DEF n
<1>9. ASSUME NEW o \in Objects, evidence'[o].pr # None
      PROVE  \E i \in DOMAIN runs'[evidence'[o].pr] :
               /\ Named(runs'[evidence'[o].pr][i].refs, o)
               /\ runs'[evidence'[o].pr][i].commit = evidence'[o].commit
  <2>1. CASE Named(refs, o)
    <3>1. evidence'[o].pr = p /\ evidence'[o].commit = commits + 1
      BY <2>1, <1>3
    <3>2. /\ n + 1 \in DOMAIN runs'[p] /\ Named(runs'[p][n + 1].refs, o)
          /\ runs'[p][n + 1].commit = commits + 1
      BY <2>1, <1>1, <1>5
    <3> QED BY <3>1, <3>2
  <2>2. CASE ~Named(refs, o)
    <3>1. evidence'[o] = evidence[o] /\ evidence[o].pr \in PullRequests
      BY <2>2, <1>3, <1>9 DEF RecordTypes
    <3>2. PICK i \in DOMAIN runs[evidence[o].pr] :
            /\ Named(runs[evidence[o].pr][i].refs, o)
            /\ runs[evidence[o].pr][i].commit = evidence[o].commit
      BY <3>1, <1>9 DEF EvidenceIsNewest
    <3> QED BY <3>1, <3>2, <1>6
  <2> QED BY <2>1, <2>2
<1>10. ASSUME NEW q \in PullRequests, NEW i \in DOMAIN runs'[q], NEW o \in Objects,
              Named(runs'[q][i].refs, o)
       PROVE  evidence'[o].pr # None /\ runs'[q][i].commit <= evidence'[o].commit
  <2>1. CASE i \in DOMAIN runs[q]
    <3>1. runs'[q][i] = runs[q][i] /\ evidence[o].pr # None /\ runs[q][i].commit <= evidence[o].commit
      BY <2>1, <1>6, <1>10 DEF EvidenceIsNewest
    <3>2. CASE Named(refs, o)
      <4>1. evidence'[o].pr = p /\ evidence'[o].commit = commits + 1
        BY <3>2, <1>3
      <4> QED BY <4>1, <3>1, <2>1, <1>4, <1>8
    <3>3. CASE ~Named(refs, o)
      BY <3>3, <3>1, <1>3
    <3> QED BY <3>2, <3>3
  <2>2. CASE q = p /\ i = n + 1
    <3>1. evidence'[o].pr = p /\ evidence'[o].commit = commits + 1
      BY <2>2, <1>1, <1>3, <1>5, <1>10
    <3> QED BY <3>1, <2>2, <1>1, <1>4, <1>5
  <2> QED BY <2>1, <2>2, <1>7
<1> QED BY <1>9, <1>10 DEF EvidenceIsNewest

LEMMA RecordStep ==
  ASSUME RecordInv, RecordNext
  PROVE  RecordInv'
<1> USE RecordAssumption DEF RecordAssumption
<1>1. PICK p \in PullRequests, s \in Snapshots, refs \in EvidenceLists,
           stamp \in Stamps, updated \in Stamps : Record(p, s, refs, stamp, updated)
  BY DEF RecordNext
<1> DEFINE R == runs[p]
           E == evaluations[p]
           H == history[p]
<1>2. /\ R \in Seq(RunRows) /\ E \in Seq(EvaluationRows) /\ H \in Seq(HistoryRows)
      /\ commits \in Nat
  BY DEF RecordInv, RecordTypes
<1>3. Ascending(E) /\ Dated(H, E) /\ Counted(R, commits)
  BY DEF RecordInv
<1>4. /\ Evaluated(R, E)
      /\ contribution[p].snapshot = None <=> R = <<>>
      /\ R # <<>> => contribution[p].snapshot = Final(R).snapshot
      /\ Chain(H) /\ (H = <<>> <=> E = <<>>) /\ (H # <<>> => Final(H).to = LatestState(p))
      /\ Compared(R)
  BY DEF RecordInv, RecordIsWhole, HistoryIsChain, DriftIsAgainstRecord
<1>5. RecordTypes
  BY DEF RecordInv
<1>6. Written(p, s, refs, stamp)
  BY <1>1, <1>3, <1>5, RowsWritten
<1>7. PICK r \in RunRows :
        /\ runs'[p] = Append(R, r)
        /\ r.stamp = stamp /\ r.commit = commits + 1 /\ r.snapshot = s /\ r.refs = refs
        /\ r.driftFields = DriftFields(StoredSnapshot(p), s)
        /\ r.repairAction = RepairAction(StoredSnapshot(p), s)
  BY <1>6, Zenon DEF Written
<1>8. PICK v \in EvaluationRows :
        evaluations'[p] = Append(E, v) /\ v.stamp = stamp /\ v.verdict = Evaluate(s)
  BY <1>6, Zenon DEF Written
<1>9. /\ RecordTypes' /\ commits' = commits + 1 /\ stamp \in Nat
      /\ contribution'[p].snapshot = s /\ contribution'[p].stamp = stamp
      /\ \A i \in 1 .. Len(E) : E[i].stamp < stamp
  BY <1>6, Zenon DEF Written
<1>10. \A q \in PullRequests \ {p} :
         /\ contribution'[q] = contribution[q] /\ runs'[q] = runs[q]
         /\ evaluations'[q] = evaluations[q] /\ history'[q] = history[q]
  BY <1>6, Zenon DEF Written
<1> HIDE DEF R, E, H
<1>11. Ascending(evaluations'[p]) /\ Evaluated(runs'[p], evaluations'[p]) /\ Compared(runs'[p])
  <2>1. Ascending(Append(E, v))
    BY <1>2, <1>3, <1>8, <1>9, AscendingAppend
  <2>2. Evaluated(Append(R, r), Append(E, v))
    BY <1>2, <1>4, <1>7, <1>8, EvaluatedAppend
  <2>3. StoredSnapshot(p) = IF R = <<>> THEN None ELSE Final(R).snapshot
    BY <1>4 DEF StoredSnapshot
  <2>4. Compared(Append(R, r))
    BY <2>3, <1>2, <1>4, <1>7, ComparedAppend
  <2> QED BY <2>1, <2>2, <2>4, <1>7, <1>8
<1>12. evaluations'[p] # <<>> /\ Final(evaluations'[p]) = v /\ runs'[p] # <<>> /\ Final(runs'[p]) = r
  <2>1. Append(E, v) # <<>> /\ Final(Append(E, v)) = v
    BY <1>2, RowAdded DEF Final
  <2>2. Append(R, r) # <<>> /\ Final(Append(R, r)) = r
    BY <1>2, RowAdded DEF Final
  <2> QED BY <2>1, <2>2, <1>7, <1>8
<1>13. Latest(evaluations'[p]) = v /\ LatestState(p)' = Evaluate(s).workflowState
  <2>1. evaluations'[p] \in Seq(EvaluationRows)
    BY <1>9 DEF RecordTypes
  <2>2. Latest(evaluations'[p]) = Final(evaluations'[p])
    BY <2>1, <1>11, <1>12, LatestIsLast DEF Final
  <2> QED BY <2>2, <1>8, <1>12 DEF LatestState
<1>14. Counted(runs'[p], commits')
  BY <1>2, <1>3, <1>7, <1>9, CountedAppend
<1>15. Dated(history'[p], evaluations'[p]) /\ Chain(history'[p]) /\ history'[p] # <<>>
       /\ Final(history'[p]).to = Evaluate(s).workflowState
  <2>1. CASE LatestState(p) = Evaluate(s).workflowState
    <3>1. history'[p] = H
      BY <2>1, <1>6 DEF Written, H
    <3>2. Dated(H, Append(E, v))
      <4>1. H = <<>> => Dated(H, Append(E, v))
        BY DEF Dated
      <4>2. \A h \in HistoryRows : h.stamp = v.stamp => Dated(H, Append(E, v))
        BY <1>2, <1>3, DatedAppend
      <4>3. [stamp |-> v.stamp, from |-> None, to |-> Evaluate(s).workflowState] \in HistoryRows
        BY DEF HistoryRows, EvaluationRows, States
      <4> QED BY <4>2, <4>3
    <3>3. E # <<>>
      BY <2>1 DEF LatestState, E
    <3> QED BY <3>1, <3>2, <3>3, <2>1, <1>4, <1>8
  <2>2. CASE LatestState(p) # Evaluate(s).workflowState
    <3>1. PICK h \in HistoryRows :
            /\ history'[p] = Append(H, h)
            /\ h.stamp = stamp /\ h.from = LatestState(p) /\ h.to = Evaluate(s).workflowState
      BY <2>2, <1>6, Zenon DEF Written, H
    <3>2. Dated(Append(H, h), Append(E, v))
      BY <3>1, <1>2, <1>3, <1>8, DatedAppend
    <3>3. H = <<>> => h.from = None
      BY <3>1, <1>4 DEF LatestState, E
    <3>4. H # <<>> => h.from = Final(H).to /\ h.stamp > Final(H).stamp
      <4>1. SUFFICES ASSUME H # <<>> PROVE h.stamp > Final(H).stamp
        BY <3>1, <1>4
      <4>2. Len(H) \in 1 .. Len(H) /\ H[Len(H)] \in HistoryRows
        BY <4>1, <1>2, EmptySeq
      <4>3. PICK j \in 1 .. Len(E) : H[Len(H)].stamp = E[j].stamp
        BY <4>2, <1>3 DEF Dated
      <4> QED BY <4>2, <4>3, <3>1, <1>9 DEF Final, HistoryRows
    <3>5. Chain(Append(H, h))
      BY <3>1, <3>3, <3>4, <2>2, <1>2, <1>4, ChainAppend
    <3>6. Append(H, h) # <<>> /\ Final(Append(H, h)) = h
      BY <1>2, RowAdded DEF Final
    <3> QED BY <3>1, <3>2, <3>5, <3>6, <1>8
  <2> QED BY <2>1, <2>2
<1>16. ASSUME NEW q \in PullRequests \ {p}
       PROVE  LatestState(q)' = LatestState(q)
  BY <1>10 DEF LatestState
<1>17. ASSUME NEW q \in PullRequests
       PROVE  /\ Ascending(evaluations'[q]) /\ Dated(history'[q], evaluations'[q])
              /\ Counted(runs'[q], commits')
  <2>1. CASE q = p
    BY <2>1, <1>11, <1>14, <1>15
  <2>2. CASE q # p
    <3>1. Counted(runs[q], commits) /\ runs[q] \in Seq(RunRows)
      BY DEF RecordInv, RecordTypes
    <3>2. Counted(runs[q], commits + 1)
      BY <3>1, <1>2, CountedLater
    <3> QED BY <3>2, <2>2, <1>9, <1>10 DEF RecordInv
  <2> QED BY <2>1, <2>2
<1>18. RecordIsWhole'
  <2> SUFFICES ASSUME NEW q \in PullRequests
               PROVE  /\ Evaluated(runs'[q], evaluations'[q])
                      /\ contribution'[q].snapshot = None <=> runs'[q] = <<>>
                      /\ runs'[q] # <<>> =>
                           /\ contribution'[q].snapshot = Final(runs'[q]).snapshot
                           /\ contribution'[q].stamp = Final(runs'[q]).stamp
                           /\ Latest(evaluations'[q]) = Final(evaluations'[q])
    BY DEF RecordIsWhole, Evaluated, Final
  <2>1. CASE q = p
    BY <2>1, <1>7, <1>9, <1>11, <1>12, <1>13
  <2>2. CASE q # p
    BY <2>2, <1>10, <1>16 DEF RecordInv, RecordIsWhole
  <2> QED BY <2>1, <2>2
<1>19. HistoryIsChain'
  <2> SUFFICES ASSUME NEW q \in PullRequests
               PROVE  /\ Chain(history'[q])
                      /\ history'[q] = <<>> <=> evaluations'[q] = <<>>
                      /\ history'[q] # <<>> => Final(history'[q]).to = LatestState(q)'
    BY DEF HistoryIsChain, Chain, Final
  <2>1. CASE q = p
    BY <2>1, <1>12, <1>13, <1>15
  <2>2. CASE q # p
    BY <2>2, <1>10, <1>16 DEF RecordInv, HistoryIsChain
  <2> QED BY <2>1, <2>2
<1>20. DriftIsAgainstRecord'
  <2>1. \A q \in PullRequests : Compared(runs'[q])
    BY <1>10, <1>11 DEF RecordInv, DriftIsAgainstRecord
  <2> QED BY <2>1 DEF DriftIsAgainstRecord, Compared, Before, DriftFields, RepairAction
<1>21. EvidenceIsNewest'
  BY <1>5, <1>6, EvidenceWritten DEF RecordInv
<1> QED BY <1>9, <1>17, <1>18, <1>19, <1>20, <1>21 DEF RecordInv, Ascending, Dated, Counted

-----------------------------------------------------------------------------
(* The store *)

LEMMA InitStore ==
  ASSUME StoreInit
  PROVE  RecordInv /\ StoreInv
<1> USE RecordAssumption, StoreAssumption DEF RecordAssumption, StoreAssumption
<1>1. RecordInv
  BY InitRecord DEF StoreInit
<1>2. Idle \in Standing
  BY DEF Idle, Standing
<1>3. StoreTypes
  BY <1>2 DEF StoreInit, RecordInit, StoreTypes
<1>4. ASSUME NEW e \in Executors PROVE Stands(executor[e])
  BY DEF StoreInit, Idle, Stands
<1>5. ASSUME NEW e \in Executors, NEW f \in Executors PROVE Apart(executor[e], executor[f])
  BY DEF StoreInit, Idle, Apart
<1> QED BY <1>1, <1>3, <1>4, <1>5 DEF StoreInv

\* A commit puts on record what ContributionRecord would at that moment.
LEMMA CommitRecords ==
  ASSUME RecordInv, StoreInv, NEW e \in Executors, Commit(e)
  PROVE  RecordNext
<1> USE RecordAssumption, StoreAssumption DEF RecordAssumption, StoreAssumption
<1> DEFINE x == executor[e]
<1>1. x \in Standing /\ Stands(x) /\ clock \in 0 .. MaxTime /\ x.at = "evidence" /\ Write(x)
  BY DEF StoreInv, StoreTypes, Commit
<1> HIDE DEF x
<1>2. x.pr \in PullRequests /\ x.snapshot \in Snapshots /\ x.refs \in EvidenceLists
  BY <1>1 DEF Standing, Stands
<1>3. /\ x.observed = StoredSnapshot(x.pr) /\ x.previous = LatestState(x.pr)
      /\ x.started \in Nat /\ x.stamp \in Nat /\ x.updated \in Nat
      /\ x.started < x.stamp /\ x.stamp <= x.updated /\ x.updated <= clock
      /\ \A i \in DOMAIN evaluations[x.pr] : evaluations[x.pr][i].stamp <= x.started
  BY <1>1 DEF Standing, Stands
<1>4. x.stamp \in Stamps /\ x.updated \in Stamps
  BY <1>1, <1>3
<1>5. \A i \in DOMAIN evaluations[x.pr] : evaluations[x.pr][i].stamp < x.stamp
  <2> SUFFICES ASSUME NEW i \in DOMAIN evaluations[x.pr]
               PROVE  evaluations[x.pr][i].stamp < x.stamp
    OBVIOUS
  <2>1. evaluations[x.pr] \in Seq(EvaluationRows)
    BY <1>2 DEF RecordInv, RecordTypes
  <2>2. evaluations[x.pr][i] \in EvaluationRows
    BY <2>1
  <2> QED BY <2>2, <1>3 DEF EvaluationRows
<1> DEFINE y == [pr |-> x.pr, snapshot |-> x.snapshot, refs |-> x.refs, stamp |-> x.stamp,
                 updated |-> x.updated, observed |-> StoredSnapshot(x.pr),
                 previous |-> LatestState(x.pr)]
<1>6. /\ y.pr = x.pr /\ y.snapshot = x.snapshot /\ y.refs = x.refs /\ y.stamp = x.stamp
      /\ y.updated = x.updated /\ y.observed = x.observed /\ y.previous = x.previous
  BY <1>3
<1> HIDE DEF y
<1>7. Write(y)
  <2>1. StateChanged(y) <=> StateChanged(x)
    BY <1>6 DEF StateChanged
  <2>2. ContributionRow(y) = ContributionRow(x)
    BY <1>6 DEF ContributionRow
  <2>3. EvidenceRows(y) = EvidenceRows(x)
    BY <1>6 DEF EvidenceRows
  <2>4. RunRow(y) = RunRow(x)
    BY <1>6 DEF RunRow
  <2>5. EvaluationRow(y) = EvaluationRow(x)
    BY <1>6 DEF EvaluationRow
  <2>6. HistoryRow(y) = HistoryRow(x)
    BY <1>6 DEF HistoryRow
  <2> QED BY <2>1, <2>2, <2>3, <2>4, <2>5, <2>6, <1>1, <1>6 DEF Write
<1>8. Record(x.pr, x.snapshot, x.refs, x.stamp, x.updated)
  BY <1>3, <1>5, <1>7 DEF Record, y
<1> QED BY <1>2, <1>4, <1>8 DEF RecordNext

LEMMA StepRecords ==
  ASSUME RecordInv, StoreInv, [StoreNext]_store
  PROVE  RecordNext \/ UNCHANGED tables
<1>1. CASE \E e \in Executors : Commit(e)
  BY <1>1, CommitRecords
<1>2. CASE ~\E e \in Executors : Commit(e)
  BY <1>2 DEF StoreNext, store, Tick, Begin, ExecutorStep, Conclude, Upsert, ReadPrevious,
     UpsertEvidence, Abandon
<1> QED BY <1>1, <1>2

\* One executor moves to y, which stands and keeps apart from the others.
LEMMA OneMoves ==
  ASSUME StoreInv, UNCHANGED <<tables, clock>>, NEW e \in Executors, NEW y \in Standing,
         Move(e, y), Stands(y), \A f \in Executors \ {e} : Apart(y, executor[f])
  PROVE  StoreInv'
<1>1. /\ executor' \in [Executors -> Standing] /\ executor'[e] = y
      /\ \A f \in Executors \ {e} : executor'[f] = executor[f]
  BY DEF StoreInv, StoreTypes, Move
<1>2. StoreTypes'
  BY <1>1 DEF StoreInv, StoreTypes, tables
<1>3. ASSUME NEW f \in Executors PROVE Stands(executor'[f])
  <2>1. CASE f = e
    BY <2>1, <1>1
  <2>2. CASE f # e
    BY <2>2, <1>1 DEF StoreInv
  <2> QED BY <2>1, <2>2
<1>4. ASSUME NEW f \in Executors PROVE Stands(executor[f])'
  BY <1>3 DEF Stands, tables, StoredSnapshot, LatestState
<1>5. ASSUME NEW f \in Executors, NEW g \in Executors, f # g
      PROVE  Apart(executor'[f], executor'[g])
  <2>1. CASE f = e
    BY <2>1, <1>1, <1>5
  <2>2. CASE g = e
    <3>1. Apart(y, executor[f])
      BY <2>2, <1>5
    <3>2. Apart(executor[f], y)
      BY <3>1 DEF Apart
    <3> QED BY <3>2, <2>2, <1>1, <1>5
  <2>3. CASE f # e /\ g # e
    BY <2>3, <1>1, <1>5 DEF StoreInv
  <2> QED BY <2>1, <2>2, <2>3
<1>6. ASSUME NEW f \in Executors, NEW g \in Executors, f # g
      PROVE  Apart(executor[f], executor[g])'
  BY <1>5, <1>6 DEF Apart
<1> QED BY <1>2, <1>4, <1>6 DEF StoreInv
\* What is known of the executor that moves.
Mover(e) ==
  /\ executor[e] \in Standing /\ Stands(executor[e]) /\ clock \in 0 .. MaxTime
  /\ \A f \in Executors \ {e} : Apart(executor[e], executor[f])

LEMMA MoverKnown ==
  ASSUME StoreInv, NEW e \in Executors
  PROVE  Mover(e)
BY DEF StoreInv, StoreTypes, Mover

LEMMA IdleStands ==
  ASSUME StoreAssumption, StoreInv
  PROVE  /\ Idle \in Standing /\ Stands(Idle)
         /\ \A f \in Executors : Apart(Idle, executor[f])
BY DEF StoreAssumption, Idle, Standing, Stands, Apart

LEMMA BeginStep ==
  ASSUME RecordInv, StoreInv, NEW e \in Executors, NEW p \in PullRequests, Begin(e, p)
  PROVE  StoreInv'
<1> USE RecordAssumption, StoreAssumption DEF RecordAssumption, StoreAssumption
<1> DEFINE y == [Idle EXCEPT !.at = "reading", !.pr = p, !.started = clock,
                             !.observed = StoredSnapshot(p)]
<1>1. Move(e, y) /\ Unclaimed(p) /\ UNCHANGED <<tables, clock>>
  BY DEF Begin
<1>2. clock \in 0 .. MaxTime /\ StoredSnapshot(p) \in Snapshots \union {None}
  BY DEF StoreInv, StoreTypes, RecordInv, RecordTypes, StoredSnapshot, Stored
<1>3. y \in Standing
  <2>1. Idle \in Standing
    BY IdleStands
  <2> QED BY <2>1, <1>2 DEF Standing
<1>4. /\ y.at = "reading" /\ y.pr = p /\ y.started = clock
      /\ y.observed = StoredSnapshot(p) /\ y.held = {}
  BY DEF Idle
<1> HIDE DEF y
<1>5. \A i \in DOMAIN evaluations[p] : evaluations[p][i].stamp <= clock
  BY DEF StoreInv, StoreTypes
<1>6. Stands(y)
  BY <1>2, <1>4, <1>5 DEF Stands
<1>7. \A f \in Executors \ {e} : Apart(y, executor[f])
  BY <1>1, <1>4 DEF Unclaimed, Apart
<1> QED BY <1>1, <1>3, <1>6, <1>7, OneMoves

LEMMA ConcludeStep ==
  ASSUME StoreInv, NEW e \in Executors, Conclude(e)
  PROVE  StoreInv'
<1> USE RecordAssumption, StoreAssumption DEF RecordAssumption, StoreAssumption
<1>1. PICK s \in Snapshots, refs \in EvidenceLists :
        Move(e, [executor[e] EXCEPT !.at = "upsert", !.snapshot = s, !.stamp = clock,
                                    !.refs = refs, !.todo = refs])
  BY DEF Conclude
<1> DEFINE x == executor[e]
           y == [x EXCEPT !.at = "upsert", !.snapshot = s, !.stamp = clock,
                          !.refs = refs, !.todo = refs]
<1>2. Mover(e) /\ UNCHANGED <<tables, clock>> /\ Move(e, y)
  BY <1>1, MoverKnown DEF Conclude
<1>3. x \in Standing /\ Stands(x) /\ x.at = "reading" /\ x.started < clock /\ clock \in 0 .. MaxTime
  BY <1>2 DEF Mover, Conclude
<1>4. \A f \in Executors \ {e} : Apart(x, executor[f])
  BY <1>2 DEF Mover
<1> HIDE DEF x
<1>5. y \in Standing
  BY <1>3 DEF Standing
<1>6. /\ y.at = "upsert" /\ y.pr = x.pr /\ y.started = x.started /\ y.observed = x.observed
      /\ y.snapshot = s /\ y.stamp = clock /\ y.refs = refs /\ y.held = x.held
  BY <1>3 DEF Standing
<1> HIDE DEF y
<1>7. Stands(y)
  BY <1>3, <1>6 DEF Stands
<1>8. \A f \in Executors \ {e} : Apart(y, executor[f])
  BY <1>4, <1>6 DEF Apart
<1> QED BY <1>2, <1>5, <1>7, <1>8, OneMoves

LEMMA UpsertStep ==
  ASSUME StoreInv, NEW e \in Executors, Upsert(e)
  PROVE  StoreInv'
<1> DEFINE x == executor[e]
           y == [x EXCEPT !.at = "previous", !.updated = clock]
<1>1. Mover(e) /\ UNCHANGED <<tables, clock>> /\ Move(e, y)
  BY MoverKnown DEF Upsert
<1>2. x \in Standing /\ Stands(x) /\ x.at = "upsert" /\ clock \in 0 .. MaxTime
  BY <1>1 DEF Mover, Upsert
<1>3. \A f \in Executors \ {e} : Apart(x, executor[f])
  BY <1>1 DEF Mover
<1> HIDE DEF x
<1>4. y \in Standing
  BY <1>2 DEF Standing
<1>5. /\ y.at = "previous" /\ y.pr = x.pr /\ y.started = x.started /\ y.observed = x.observed
      /\ y.snapshot = x.snapshot /\ y.stamp = x.stamp /\ y.refs = x.refs /\ y.held = x.held
      /\ y.updated = clock
  BY <1>2 DEF Standing
<1> HIDE DEF y
<1>6. Stands(y)
  BY <1>2, <1>5 DEF Stands
<1>7. \A f \in Executors \ {e} : Apart(y, executor[f])
  BY <1>3, <1>5 DEF Apart
<1> QED BY <1>1, <1>4, <1>6, <1>7, OneMoves
LEMMA ReadPreviousStep ==
  ASSUME RecordInv, StoreInv, NEW e \in Executors, ReadPrevious(e)
  PROVE  StoreInv'
<1> DEFINE x == executor[e]
           state == LatestState(executor[e].pr)
           y == [x EXCEPT !.at = "evidence", !.previous = state]
<1>1. Mover(e) /\ UNCHANGED <<tables, clock>> /\ Move(e, y)
  BY MoverKnown DEF ReadPrevious
<1>2. x \in Standing /\ Stands(x) /\ x.at = "previous" /\ state = LatestState(x.pr)
  BY <1>1 DEF Mover, ReadPrevious
<1>3. \A f \in Executors \ {e} : Apart(x, executor[f])
  BY <1>1 DEF Mover
<1>4. x.pr \in PullRequests
  BY <1>2 DEF Standing, Stands
<1>5. state \in {Evaluate(s).workflowState : s \in Snapshots} \union {None}
  <2>1. CASE evaluations[x.pr] = <<>>
    BY <2>1, <1>2 DEF LatestState
  <2>2. CASE evaluations[x.pr] # <<>>
    <3> DEFINE E == evaluations[x.pr]
    <3>1. E \in Seq(EvaluationRows) /\ Ascending(E)
      BY <1>4 DEF RecordInv, RecordTypes
    <3>2. Latest(E) = E[Len(E)]
      BY <3>1, <2>2, LatestIsLast
    <3>3. E[Len(E)] \in EvaluationRows
      BY <3>1, <2>2, EmptySeq
    <3>4. Latest(E).verdict \in Verdicts
      BY <3>2, <3>3 DEF EvaluationRows
    <3>5. state = Latest(E).verdict.workflowState
      BY <1>2, <2>2 DEF LatestState
    <3> QED BY <3>4, <3>5 DEF Verdicts
  <2> QED BY <2>1, <2>2
<1> HIDE DEF x, state
<1>6. y \in Standing
  BY <1>2, <1>5 DEF Standing
<1>7. /\ y.at = "evidence" /\ y.pr = x.pr /\ y.started = x.started /\ y.observed = x.observed
      /\ y.snapshot = x.snapshot /\ y.stamp = x.stamp /\ y.refs = x.refs /\ y.held = x.held
      /\ y.updated = x.updated /\ y.previous = state
  BY <1>2 DEF Standing
<1> HIDE DEF y
<1>8. Stands(y)
  BY <1>2, <1>7 DEF Stands
<1>9. \A f \in Executors \ {e} : Apart(y, executor[f])
  BY <1>3, <1>7 DEF Apart
<1> QED BY <1>1, <1>6, <1>8, <1>9, OneMoves

LEMMA UpsertEvidenceStep ==
  ASSUME StoreInv, NEW e \in Executors, UpsertEvidence(e)
  PROVE  StoreInv'
<1> DEFINE x == executor[e]
           o == Head(executor[e].todo)
           y == [x EXCEPT !.held = @ \union {o}, !.todo = Tail(@)]
<1>1. Mover(e) /\ UNCHANGED <<tables, clock>> /\ Move(e, y) /\ ~HeldByOther(e, o)
  BY MoverKnown DEF UpsertEvidence
<1>2. x \in Standing /\ Stands(x) /\ x.at = "evidence" /\ x.todo # <<>> /\ o = Head(x.todo)
  BY <1>1 DEF Mover, UpsertEvidence
<1>3. \A f \in Executors \ {e} : Apart(x, executor[f])
  BY <1>1 DEF Mover
<1>4. \A f \in Executors \ {e} : o \notin executor[f].held
  BY <1>1 DEF HeldByOther
<1> HIDE DEF x
<1>5. o \in Objects /\ Tail(x.todo) \in Seq(Objects)
  <2>1. x.todo \in Seq(Objects)
    BY <1>2 DEF Standing
  <2> QED BY <2>1, <1>2, HeadTailProperties
<1> HIDE DEF o
<1>6. y \in Standing
  BY <1>2, <1>5 DEF Standing
<1>7. /\ y.at = "evidence" /\ y.pr = x.pr /\ y.started = x.started /\ y.observed = x.observed
      /\ y.snapshot = x.snapshot /\ y.stamp = x.stamp /\ y.refs = x.refs
      /\ y.updated = x.updated /\ y.previous = x.previous /\ y.held = x.held \union {o}
  BY <1>2 DEF Standing
<1> HIDE DEF y
<1>8. Stands(y)
  BY <1>2, <1>7 DEF Stands
<1>9. \A f \in Executors \ {e} : Apart(y, executor[f])
  BY <1>3, <1>4, <1>7 DEF Apart
<1> QED BY <1>1, <1>6, <1>8, <1>9, OneMoves

LEMMA TickStep ==
  ASSUME RecordInv, StoreInv, Tick
  PROVE  StoreInv'
<1> USE StoreAssumption DEF StoreAssumption
<1>1. clock \in 0 .. MaxTime /\ clock' = clock + 1 /\ clock' \in 0 .. MaxTime
      /\ UNCHANGED <<tables, executor>>
  BY DEF StoreInv, StoreTypes, Tick
<1>2. StoreTypes'
  <2>1. \A p \in PullRequests : \A i \in DOMAIN evaluations[p] : evaluations[p][i].stamp <= clock'
    <3> SUFFICES ASSUME NEW p \in PullRequests, NEW i \in DOMAIN evaluations[p]
                 PROVE  evaluations[p][i].stamp <= clock'
      OBVIOUS
    <3>1. evaluations[p][i].stamp <= clock
      BY DEF StoreInv, StoreTypes
    <3>2. evaluations[p] \in Seq(EvaluationRows)
      BY DEF RecordInv, RecordTypes
    <3>3. evaluations[p][i] \in EvaluationRows
      BY <3>2
    <3>4. evaluations[p][i].stamp \in Nat
      BY <3>3 DEF EvaluationRows
    <3> QED BY <3>1, <3>4, <1>1
  <2> QED BY <2>1, <1>1 DEF StoreInv, StoreTypes, tables
<1>3. ASSUME NEW e \in Executors PROVE Stands(executor[e])'
  <2> DEFINE x == executor[e]
  <2>1. x \in Standing /\ Stands(x) /\ executor'[e] = x
    BY <1>1 DEF StoreInv, StoreTypes
  <2> HIDE DEF x
  <2>2. x.stamp \in Nat /\ x.started \in Nat /\ x.updated \in Nat
    BY <2>1 DEF Standing
  <2>3. /\ x.stamp <= clock => x.stamp <= clock'
        /\ x.started <= clock => x.started <= clock'
        /\ x.updated <= clock => x.updated <= clock'
    BY <2>2, <1>1
  <2> QED BY <2>1, <2>3, <1>1 DEF Stands, tables, StoredSnapshot, LatestState
<1>4. ASSUME NEW f \in Executors, NEW g \in Executors, f # g
      PROVE  Apart(executor[f], executor[g])'
  BY <1>1, <1>4 DEF StoreInv, Apart
<1> QED BY <1>2, <1>3, <1>4 DEF StoreInv
LEMMA AbandonStep ==
  ASSUME StoreInv, NEW e \in Executors, Abandon(e)
  PROVE  StoreInv'
BY IdleStands, StoreAssumption, OneMoves DEF Abandon

LEMMA CommitStep ==
  ASSUME RecordInv, StoreInv, NEW e \in Executors, Commit(e)
  PROVE  StoreInv'
<1> USE RecordAssumption, StoreAssumption DEF RecordAssumption, StoreAssumption
<1> DEFINE x == executor[e]
<1>1. Mover(e) /\ Write(x) /\ Move(e, Idle) /\ clock' = clock
  BY MoverKnown DEF Commit
<1>2. x \in Standing /\ Stands(x) /\ x.at = "evidence" /\ clock \in 0 .. MaxTime
  BY <1>1 DEF Mover, Commit
<1>3. \A f \in Executors \ {e} : Apart(x, executor[f])
  BY <1>1 DEF Mover
<1>4. /\ executor' \in [Executors -> Standing] /\ executor'[e] = Idle
      /\ \A f \in Executors \ {e} : executor'[f] = executor[f]
  BY <1>1, IdleStands DEF StoreInv, StoreTypes, Move
<1> HIDE DEF x
<1>5. x.pr \in PullRequests /\ x.stamp <= clock
  BY <1>2 DEF Standing, Stands
<1>6. \A q \in PullRequests \ {x.pr} :
        evaluations'[q] = evaluations[q] /\ contribution'[q] = contribution[q]
  BY <1>1 DEF Write, Added, RecordInv, RecordTypes
<1>7. EvaluationRow(x) \in EvaluationRows /\ EvaluationRow(x).stamp = x.stamp
  <2>1. x.snapshot \in Snapshots /\ x.stamp \in Nat
    BY <1>2 DEF Standing, Stands
  <2>2. Evaluate(x.snapshot) \in Verdicts
    BY <2>1 DEF Verdicts
  <2> QED BY <2>1, <2>2 DEF EvaluationRow, EvaluationRows
<1>8. evaluations[x.pr] \in Seq(EvaluationRows)
      /\ evaluations'[x.pr] = Append(evaluations[x.pr], EvaluationRow(x))
  BY <1>1, <1>5 DEF Write, Added, RecordInv, RecordTypes
<1>9. StoreTypes'
  <2>1. ASSUME NEW p \in PullRequests, NEW i \in DOMAIN evaluations'[p]
        PROVE  evaluations'[p][i].stamp <= clock
    <3>1. CASE p # x.pr
      BY <3>1, <2>1, <1>6 DEF StoreInv, StoreTypes
    <3>2. CASE p = x.pr
      <4> DEFINE E == evaluations[x.pr]
                 v == EvaluationRow(x)
      <4>1. \A j \in DOMAIN E : E[j].stamp <= clock
        BY <1>5 DEF StoreInv, StoreTypes
      <4>2. E \in Seq(EvaluationRows) /\ v \in EvaluationRows /\ i \in DOMAIN Append(E, v)
        BY <3>2, <2>1, <1>7, <1>8
      <4>3. v.stamp <= clock
        BY <1>5, <1>7
      <4>4. evaluations'[p][i] = Append(E, v)[i]
        BY <3>2, <1>8
      <4> HIDE DEF E, v
      <4>5. Append(E, v)[i].stamp <= clock
        BY <4>1, <4>2, <4>3, RowAdded
      <4> QED BY <4>4, <4>5
    <3> QED BY <3>1, <3>2
  <2> QED BY <2>1, <1>1, <1>4 DEF StoreInv, StoreTypes
<1>10. ASSUME NEW f \in Executors PROVE Stands(executor[f])'
  <2>1. CASE f = e
    BY <2>1, <1>4 DEF Stands, Idle
  <2>2. CASE f # e
    <3> DEFINE y == executor[f]
    <3>1. y \in Standing /\ Stands(y) /\ Apart(x, y) /\ executor'[f] = y
      BY <2>2, <1>3, <1>4 DEF StoreInv, StoreTypes
    <3> HIDE DEF y
    <3>2. y.at # "idle" => y.pr \in PullRequests \ {x.pr}
      BY <3>1, <1>5 DEF Standing, Stands, Apart
    <3> QED BY <3>1, <3>2, <1>1, <1>6 DEF Stands, StoredSnapshot, LatestState
  <2> QED BY <2>1, <2>2
<1>11. ASSUME NEW f \in Executors, NEW g \in Executors, f # g
       PROVE  Apart(executor[f], executor[g])'
  <2>1. \A y : Apart(Idle, y) /\ Apart(y, Idle)
    BY DEF Apart, Idle
  <2>2. Apart(executor'[f], executor'[g])
    BY <2>1, <1>4, <1>11 DEF StoreInv
  <2> QED BY <2>2 DEF Apart
<1> QED BY <1>9, <1>10, <1>11 DEF StoreInv

LEMMA StoreStep ==
  ASSUME RecordInv, StoreInv, [StoreNext]_store
  PROVE  RecordInv' /\ StoreInv'
<1>1. RecordInv'
  <2>1. CASE RecordNext
    BY <2>1, RecordStep
  <2>2. CASE UNCHANGED tables
    BY <2>2 DEF tables, RecordInv, RecordTypes, RecordIsWhole, HistoryIsChain,
       DriftIsAgainstRecord, EvidenceIsNewest, LatestState
  <2> QED BY <2>1, <2>2, StepRecords
<1>2. StoreInv'
  <2>1. CASE UNCHANGED store
    BY <2>1 DEF store, tables, StoreInv, StoreTypes, Stands, Apart, StoredSnapshot, LatestState
  <2>2. CASE Tick
    BY <2>2, TickStep
  <2>3. ASSUME NEW e \in Executors, NEW p \in PullRequests, Begin(e, p) PROVE StoreInv'
    BY <2>3, BeginStep
  <2>4. ASSUME NEW e \in Executors, ExecutorStep(e) PROVE StoreInv'
    BY <2>4, ConcludeStep, UpsertStep, ReadPreviousStep, UpsertEvidenceStep, CommitStep
       DEF ExecutorStep
  <2>5. ASSUME NEW e \in Executors, Abandon(e) PROVE StoreInv'
    BY <2>5, AbandonStep
  <2> QED BY <2>1, <2>2, <2>3, <2>4, <2>5 DEF StoreNext
<1> QED BY <1>1, <1>2

-----------------------------------------------------------------------------
(* Theorems *)

\* However the statements of the executors interleave, wherever they fail, the
\* database takes only steps that put one whole reconciliation on record.
THEOREM StoreImplementsRecord == StoreSpec => ImplementsRecord
<1>1. StoreInit => RecordInv /\ StoreInv
  BY InitStore
<1>2. (RecordInv /\ StoreInv) /\ [StoreNext]_store => (RecordInv /\ StoreInv)'
  BY StoreStep
<1>3. (RecordInv /\ StoreInv) /\ [StoreNext]_store => [RecordNext]_tables
  BY StepRecords
<1>4. StoreInit => RecordInit
  BY DEF StoreInit
<1> QED BY <1>1, <1>2, <1>3, <1>4, PTL DEF StoreSpec, ImplementsRecord, RecordSpec

\* What executors rely on between their statements holds always.
THEOREM StoreInvariant == StoreSpec => [](RecordInv /\ StoreInv)
<1>1. StoreInit => RecordInv /\ StoreInv
  BY InitStore
<1>2. (RecordInv /\ StoreInv) /\ [StoreNext]_store => (RecordInv /\ StoreInv)'
  BY StoreStep
<1> QED BY <1>1, <1>2, PTL DEF StoreSpec

\* No contribution is on record without its evidence, run and evaluation.
THEOREM StoreIsWhole == StoreSpec => []RecordIsWhole
<1>1. RecordInv /\ StoreInv => RecordIsWhole
  BY DEF RecordInv
<1> QED BY <1>1, StoreInvariant, PTL

\* The state histories are chains that end in the state on record.
THEOREM StoreKeepsChain == StoreSpec => []HistoryIsChain
<1>1. RecordInv /\ StoreInv => HistoryIsChain
  BY DEF RecordInv
<1> QED BY <1>1, StoreInvariant, PTL

\* Drift and repair are against the run before, read though it was long ago.
THEOREM StoreComparesRecord == StoreSpec => []DriftIsAgainstRecord
<1>1. RecordInv /\ StoreInv => DriftIsAgainstRecord
  BY DEF RecordInv
<1> QED BY <1>1, StoreInvariant, PTL

\* Evidence is where its newest run put it.
THEOREM StoreKeepsNewestEvidence == StoreSpec => []EvidenceIsNewest
<1>1. RecordInv /\ StoreInv => EvidenceIsNewest
  BY DEF RecordInv
<1> QED BY <1>1, StoreInvariant, PTL

-----------------------------------------------------------------------------
(* WebPages *)

\* tab, its place and fetch have the fields and the domain they begin with.
Shapes ==
  /\ tab = [place |-> tab.place, ran |-> tab.ran, loading |-> tab.loading,
            error |-> tab.error, shown |-> tab.shown, totalPages |-> tab.totalPages]
  /\ tab.place = [page |-> tab.place.page, pr |-> tab.place.pr,
                  number |-> tab.place.number, actor |-> tab.place.actor]
  /\ fetch = [g \in Rounds |-> fetch[g]]

\* The fetch under way is the one of the last effect, and there is no other.
OneFetch ==
  /\ \A g \in Rounds : fetch[g] # None => IsMounted /\ tab.loading /\ tab.ran = fetch[g]
  /\ \A g, h \in Rounds : fetch[g] # None /\ fetch[h] # None => g = h

ShownIsAnswer == ~tab.loading /\ ~tab.error => tab.shown = tab.ran

PagesInv == Shapes /\ OneFetch /\ ShownIsAnswer /\ SignedOutHasNoSession

LEMMA AddressFields ==
  ASSUME NEW place \in Addresses
  PROVE  place = [page |-> place.page, pr |-> place.pr,
                  number |-> place.number, actor |-> place.actor]
<1>1. PICK page, pr : place = Place(page, pr, 1, "")
  BY DEF Addresses, Home
<1> QED
  BY <1>1 DEF Place

LEMMA MountedFields ==
  ASSUME NEW place,
         place = [page |-> place.page, pr |-> place.pr,
                  number |-> place.number, actor |-> place.actor]
  PROVE  LET m == Mounted(place)
         IN  /\ m = [place |-> m.place, ran |-> m.ran, loading |-> m.loading,
                     error |-> m.error, shown |-> m.shown, totalPages |-> m.totalPages]
             /\ m.place = place /\ m.loading
BY DEF Mounted

\* A page that mounts, with nothing under way, is as the invariant asks.
LEMMA MountKeeps ==
  ASSUME NEW place,
         place = [page |-> place.page, pr |-> place.pr,
                  number |-> place.number, actor |-> place.actor],
         tab' = Mounted(place),
         fetch' = [g \in Rounds |-> None]
  PROVE  Shapes' /\ OneFetch' /\ ShownIsAnswer'
BY MountedFields DEF Shapes, OneFetch, ShownIsAnswer

LEMMA PagesInit == Init => PagesInv
<1> SUFFICES ASSUME Init PROVE PagesInv
  OBVIOUS
<1>1. /\ Home = [page |-> Home.page, pr |-> Home.pr, number |-> Home.number, actor |-> Home.actor]
      /\ tab = Mounted(Home) /\ fetch = [g \in Rounds |-> None]
  BY DEF Init, Home, Place
<1>2. Shapes /\ OneFetch /\ ShownIsAnswer
  BY <1>1, MountedFields DEF Shapes, OneFetch, ShownIsAnswer
<1> QED
  BY <1>2 DEF Init, PagesInv, SignedOutHasNoSession

LEMMA EffectKeeps == PagesInv /\ Effect => PagesInv'
<1> SUFFICES ASSUME PagesInv, Effect PROVE PagesInv'
  OBVIOUS
<1> DEFINE going == [g \in Rounds |-> None]
<1>1. PICK g \in Rounds :
        \/ /\ fetch' = going
           /\ tab' = [tab EXCEPT !.ran = tab.place, !.loading = FALSE, !.error = TRUE]
        \/ /\ fetch' = [going EXCEPT ![g] = tab.place]
           /\ tab' = [tab EXCEPT !.ran = tab.place, !.loading = TRUE, !.error = FALSE]
  BY DEF Effect, Cleanup
<1>2. IsMounted /\ auth' = auth /\ session' = session
  BY DEF Effect, Pending
<1>3. tab'.place = tab.place /\ tab'.ran = tab.place
  BY <1>1 DEF PagesInv, Shapes
<1>4. IsMounted'
  BY <1>2, <1>3 DEF IsMounted
<1>5. CASE /\ fetch' = going
           /\ tab' = [tab EXCEPT !.ran = tab.place, !.loading = FALSE, !.error = TRUE]
  BY <1>2, <1>5 DEF PagesInv, Shapes, OneFetch, ShownIsAnswer, SignedOutHasNoSession
<1>6. CASE /\ fetch' = [going EXCEPT ![g] = tab.place]
           /\ tab' = [tab EXCEPT !.ran = tab.place, !.loading = TRUE, !.error = FALSE]
  <2>1. \A h \in Rounds : fetch'[h] = IF h = g THEN tab.place ELSE None
    BY <1>6
  <2>2. tab'.loading /\ ~tab'.error
    BY <1>6 DEF PagesInv, Shapes
  <2>3. Shapes'
    BY <1>6 DEF PagesInv, Shapes
  <2>4. OneFetch' /\ ShownIsAnswer'
    BY <1>3, <1>4, <2>1, <2>2 DEF OneFetch, ShownIsAnswer
  <2> QED
    BY <1>2, <2>3, <2>4 DEF PagesInv, SignedOutHasNoSession
<1> QED
  BY <1>1, <1>5, <1>6

\* A fetch that ends leaves none under way.
LEMMA SettleKeeps ==
  ASSUME PagesInv, NEW g \in Rounds, NEW to, Settle(g, to), fetch[g] # None,
         to = [place |-> to.place, ran |-> to.ran, loading |-> to.loading,
               error |-> to.error, shown |-> to.shown, totalPages |-> to.totalPages],
         to.place = tab.place,
         ~to.loading /\ ~to.error => to.shown = to.ran
  PROVE  PagesInv'
<1>1. /\ tab' = to /\ fetch' = [fetch EXCEPT ![g] = None]
      /\ auth' = auth /\ session' = session
  BY DEF Settle
<1>2. \A h \in Rounds : fetch'[h] = None
  BY <1>1 DEF PagesInv, Shapes, OneFetch
<1>3. Shapes'
  BY <1>1 DEF PagesInv, Shapes
<1> QED
  BY <1>1, <1>2, <1>3 DEF PagesInv, OneFetch, ShownIsAnswer, SignedOutHasNoSession

LEMMA SucceedKeeps == ASSUME PagesInv, NEW g \in Rounds, Succeed(g) PROVE PagesInv'
<1> DEFINE total == TotalPages(fetch[g], <<g, 1>>)
<1> HIDE DEF total
<1>1. PICK to : to = [tab EXCEPT !.shown = fetch[g], !.loading = FALSE, !.totalPages = total]
  OBVIOUS
<1>2. fetch[g] # None /\ Settle(g, to)
  BY <1>1 DEF Succeed, total
<1>3. tab.ran = fetch[g]
  BY <1>2 DEF PagesInv, OneFetch
<1>4. /\ to = [place |-> to.place, ran |-> to.ran, loading |-> to.loading,
               error |-> to.error, shown |-> to.shown, totalPages |-> to.totalPages]
      /\ to.place = tab.place /\ to.shown = fetch[g] /\ to.ran = tab.ran
  BY <1>1 DEF PagesInv, Shapes
<1> QED
  BY <1>2, <1>3, <1>4, SettleKeeps

LEMMA FailKeeps == ASSUME PagesInv, NEW g \in Rounds, Fail(g) PROVE PagesInv'
<1>1. PICK to : to = [tab EXCEPT !.error = TRUE, !.loading = FALSE]
  OBVIOUS
<1>2. fetch[g] # None /\ Settle(g, to)
  BY <1>1 DEF Fail
<1>3. /\ to = [place |-> to.place, ran |-> to.ran, loading |-> to.loading,
               error |-> to.error, shown |-> to.shown, totalPages |-> to.totalPages]
      /\ to.place = tab.place /\ to.error
  BY <1>1 DEF PagesInv, Shapes
<1> QED
  BY <1>2, <1>3, SettleKeeps

LEMMA NavigateKeeps == ASSUME PagesInv, NEW place \in Addresses, Navigate(place) PROVE PagesInv'
<1>1. auth' = auth /\ session' = session
  BY DEF Navigate
<1>2. CASE IsMounted /\ Component(place) = Component(tab.place)
  <2>1. tab' = [tab EXCEPT !.place = place] /\ fetch' = fetch
    BY <1>2 DEF Navigate
  <2>2. IsMounted'
    <3>1. place.page # "home"
      BY <1>2 DEF Component, IsMounted
    <3> QED
      BY <1>1, <1>2, <2>1, <3>1 DEF IsMounted, PagesInv, Shapes
  <2>3. Shapes'
    BY <2>1, AddressFields DEF PagesInv, Shapes
  <2>4. /\ tab'.ran = tab.ran /\ tab'.loading = tab.loading
        /\ tab'.error = tab.error /\ tab'.shown = tab.shown
    BY <2>1 DEF PagesInv, Shapes
  <2> QED
    BY <1>1, <2>1, <2>2, <2>3, <2>4
    DEF PagesInv, OneFetch, ShownIsAnswer, SignedOutHasNoSession
<1>3. CASE ~(IsMounted /\ Component(place) = Component(tab.place))
  <2>1. tab' = Mounted(place) /\ fetch' = [g \in Rounds |-> None]
    BY <1>3 DEF Navigate, Unmount, Cleanup
  <2>2. Shapes' /\ OneFetch' /\ ShownIsAnswer'
    BY <2>1, AddressFields, MountKeeps
  <2> QED
    BY <1>1, <2>2 DEF PagesInv, SignedOutHasNoSession
<1> QED
  BY <1>2, <1>3

\* The controls of the attention page change what its place names.
LEMMA TurnKeeps ==
  ASSUME PagesInv, NEW place, Turn(place),
         place = [page |-> place.page, pr |-> place.pr,
                  number |-> place.number, actor |-> place.actor],
         place.page = tab.place.page
  PROVE  PagesInv'
<1>1. tab' = [tab EXCEPT !.place = place] /\ fetch' = fetch /\ auth' = auth /\ session' = session
  BY DEF Turn
<1>2. /\ tab'.ran = tab.ran /\ tab'.loading = tab.loading
      /\ tab'.error = tab.error /\ tab'.shown = tab.shown /\ tab'.place = place
  BY <1>1 DEF PagesInv, Shapes
<1>3. IsMounted' <=> IsMounted
  BY <1>1, <1>2 DEF IsMounted
<1>4. Shapes'
  BY <1>1, <1>2 DEF PagesInv, Shapes
<1> QED
  BY <1>1, <1>2, <1>3, <1>4 DEF PagesInv, OneFetch, ShownIsAnswer, SignedOutHasNoSession

\* A tab that signs out or loads has no page and nothing under way.
LEMMA SignOutKeeps == PagesInv /\ SignOut => PagesInv'
<1> SUFFICES ASSUME PagesInv, SignOut PROVE PagesInv'
  OBVIOUS
<1>1. CASE /\ session' = FALSE /\ auth' = "ANONYMOUS"
           /\ tab' = Mounted(tab.place) /\ Unmount
  <2>1. fetch' = [g \in Rounds |-> None]
    BY <1>1 DEF Unmount, Cleanup
  <2>2. Shapes' /\ OneFetch' /\ ShownIsAnswer'
    BY <1>1, <2>1, MountKeeps DEF PagesInv, Shapes
  <2> QED
    BY <1>1, <2>2 DEF PagesInv, SignedOutHasNoSession
<1>2. CASE session' = FALSE /\ UNCHANGED <<request, auth, tab, fetch>>
  BY <1>2 DEF PagesInv, Shapes, OneFetch, ShownIsAnswer, SignedOutHasNoSession, IsMounted
<1> QED
  BY <1>1, <1>2 DEF SignOut

LEMMA LoadKeeps == PagesInv /\ Load => PagesInv'
<1> SUFFICES ASSUME PagesInv, Load PROVE PagesInv'
  OBVIOUS
<1>1. auth' = "LOADING" /\ fetch' = [g \in Rounds |-> None]
  BY DEF Load, Unmount, Cleanup
<1>2. PICK place \in {tab.place, Home} : tab' = Mounted(place)
  BY DEF Load
<1>3. place = [page |-> place.page, pr |-> place.pr,
               number |-> place.number, actor |-> place.actor]
  BY DEF PagesInv, Shapes, Home, Place
<1>4. Shapes' /\ OneFetch' /\ ShownIsAnswer'
  BY <1>1, <1>2, <1>3, MountKeeps
<1> QED
  BY <1>1, <1>4 DEF PagesInv, SignedOutHasNoSession

LEMMA RefreshedKeeps == PagesInv /\ Refreshed => PagesInv'
<1> SUFFICES ASSUME PagesInv, Refreshed PROVE PagesInv'
  OBVIOUS
<1>1. \A g \in Rounds : fetch[g] = None
  BY DEF PagesInv, OneFetch, IsMounted, Refreshed
<1>2. UNCHANGED <<session, tab, fetch>>
  BY DEF Refreshed
<1>3. SignedOutHasNoSession'
  BY DEF Refreshed, SignedOutHasNoSession
<1> QED
  BY <1>1, <1>2, <1>3 DEF PagesInv, Shapes, OneFetch, ShownIsAnswer

\* Steps that leave the tab alone, and at most end the session.
LEMMA OtherKeeps ==
  ASSUME PagesInv, UNCHANGED <<auth, tab, fetch>>, session' \in {session, FALSE}
  PROVE  PagesInv'
<1>1. Shapes'
  BY DEF PagesInv, Shapes
<1>2. OneFetch' /\ ShownIsAnswer'
  BY DEF PagesInv, OneFetch, ShownIsAnswer, IsMounted
<1>3. SignedOutHasNoSession'
  BY DEF PagesInv, SignedOutHasNoSession
<1> QED
  BY <1>1, <1>2, <1>3 DEF PagesInv

LEMMA PagesNext == PagesInv /\ [Next]_vars => PagesInv'
<1> SUFFICES ASSUME PagesInv, [Next]_vars PROVE PagesInv'
  OBVIOUS
<1>1. CASE Effect
  BY <1>1, EffectKeeps
<1>2. CASE Refreshed
  BY <1>2, RefreshedKeeps
<1>3. CASE \E g \in Rounds : Answer(g)
  BY <1>3, SucceedKeeps, FailKeeps DEF Answer
<1>4. CASE \E r \in Requests : Serve(r)
  BY <1>4, OtherKeeps DEF Serve, parts
<1>5. CASE \E place \in Addresses : Navigate(place)
  BY <1>5, NavigateKeeps
<1>6. CASE \E actor \in {"", "MAINTAINER"} : Filter(actor)
  <2>1. PICK actor \in {"", "MAINTAINER"} : Filter(actor)
    BY <1>6
  <2>2. PICK place : place = [tab.place EXCEPT !.actor = actor, !.number = 1]
    OBVIOUS
  <2>3. Turn(place)
    BY <2>1, <2>2 DEF Filter
  <2>4. /\ place = [page |-> place.page, pr |-> place.pr,
                    number |-> place.number, actor |-> place.actor]
        /\ place.page = tab.place.page
    BY <2>2 DEF PagesInv, Shapes
  <2> QED
    BY <2>3, <2>4, TurnKeeps
<1>7. CASE NextPage
  <2> DEFINE place == [tab.place EXCEPT !.number = @ + 1]
  <2>1. Turn(place)
    BY <1>7 DEF NextPage
  <2>2. /\ place = [page |-> place.page, pr |-> place.pr,
                    number |-> place.number, actor |-> place.actor]
        /\ place.page = tab.place.page
    BY DEF PagesInv, Shapes
  <2> HIDE DEF place
  <2> QED
    BY <2>1, <2>2, TurnKeeps
<1>8. CASE PreviousPage
  <2> DEFINE place == [tab.place EXCEPT !.number = Max({1, @ - 1})]
  <2>1. Turn(place)
    BY <1>8 DEF PreviousPage
  <2>2. /\ place = [page |-> place.page, pr |-> place.pr,
                    number |-> place.number, actor |-> place.actor]
        /\ place.page = tab.place.page
    BY DEF PagesInv, Shapes
  <2> HIDE DEF place
  <2> QED
    BY <2>1, <2>2, TurnKeeps
<1>9. CASE SignOut
  BY <1>9, SignOutKeeps
<1>10. CASE Load
  BY <1>10, LoadKeeps
<1>11. CASE \E g \in Rounds : Fail(g)
  BY <1>11, FailKeeps
<1>12. CASE SessionExpires
  BY <1>12, OtherKeeps DEF SessionExpires
<1>13. CASE GoesOnRecord
  BY <1>13, OtherKeeps DEF GoesOnRecord, parts
<1>14. CASE UNCHANGED vars
  BY <1>14, OtherKeeps DEF vars, parts
<1> QED
  BY <1>1, <1>2, <1>3, <1>4, <1>5, <1>6, <1>7, <1>8, <1>9, <1>10, <1>11, <1>12, <1>13, <1>14
  DEF Next, Progress, TabStep, UserStep

\* The invariant: one fetch under way at most, of the effect that ran last.
THEOREM PagesInvariant == Spec => []PagesInv
BY PagesInit, PagesNext, PTL DEF Spec

\* What a page shows once its effect has run answers what its address and controls
\* ask, for any number of rounds, pull requests and pages.
THEOREM PagesShowAnswers == Spec => []ShownAnswersQuestion
<1>1. PagesInv => ShownAnswersQuestion
  BY DEF PagesInv, ShownIsAnswer, ShownAnswersQuestion, ContentShown, Pending
<1> QED
  BY <1>1, PagesInvariant, PTL

\* A tab that shows a user as signed out has no session left behind it.
THEOREM SignedOutIsOver == Spec => []SignedOutHasNoSession
<1>1. PagesInv => SignedOutHasNoSession
  BY DEF PagesInv
<1> QED
  BY <1>1, PagesInvariant, PTL

-----------------------------------------------------------------------------
(* Numbers and sets *)

LEMMA Division ==
  ASSUME NEW a \in Nat, NEW b \in Nat \ {0}
  PROVE  /\ a \div b \in Nat
         /\ b * (a \div b) <= a /\ a < b * (a \div b) + b
OBVIOUS

LEMMA SmallerOfTwo ==
  ASSUME NEW a \in Nat, NEW b \in Nat
  PROVE  Min({a, b}) = IF a <= b THEN a ELSE b
<1>1. CASE a <= b
  <2>1. \A x \in {a, b} : (\A y \in {a, b} : x <= y) => x = a
    BY <1>1
  <2>2. a \in {a, b} /\ \A y \in {a, b} : a <= y
    BY <1>1
  <2> QED BY <1>1, <2>1, <2>2 DEF Min
<1>2. CASE ~(a <= b)
  <2>1. \A x \in {a, b} : (\A y \in {a, b} : x <= y) => x = b
    BY <1>2
  <2>2. b \in {a, b} /\ \A y \in {a, b} : b <= y
    BY <1>2
  <2> QED BY <1>2, <2>1, <2>2 DEF Min
<1> QED BY <1>1, <1>2

\* A set and its image under a function that separates its elements.
LEMMA SameCount ==
  ASSUME NEW S, IsFiniteSet(S), NEW T, NEW f, \A x \in S : f[x] \in T,
         \A x, y \in S : f[x] = f[y] => x = y,
         \A t \in T : \E x \in S : f[x] = t
  PROVE  IsFiniteSet(T) /\ Cardinality(T) = Cardinality(S)
<1>1. PICK g : g = [x \in S |-> f[x]]
  OBVIOUS
<1>2. /\ g \in [S -> T] /\ \A t \in T : \E x \in S : g[x] = t
      /\ \A x, y \in S : g[x] = g[y] => x = y
  BY <1>1
<1>3. g \in Bijection(S, T)
  BY <1>2 DEF Bijection, Injection, IsInjective, Surjection
<1> QED BY <1>3, FS_Bijection DEF ExistsBijection

-----------------------------------------------------------------------------
(* InOrder *)

\* R orders the elements of I, and I is finite.
Ordered(I, R) ==
  /\ IsFiniteSet(I)
  /\ \A i \in I : <<i, i>> \notin R
  /\ \A i, j \in I : i # j => <<i, j>> \in R \/ <<j, i>> \in R
  /\ \A i, j, k \in I : <<i, j>> \in R /\ <<j, k>> \in R => <<i, k>> \in R

Ahead(I, R, i) == {j \in I : <<j, i>> \in R}

\* The numbers of elements ahead are those from 0 on, each once.
LEMMA PlacesDiffer ==
  ASSUME NEW I, NEW R, Ordered(I, R)
  PROVE  /\ Cardinality(I) \in Nat
         /\ \A i \in I : Cardinality(Ahead(I, R, i)) \in 0 .. Cardinality(I) - 1
         /\ \A i, j \in I : <<i, j>> \in R =>
              Cardinality(Ahead(I, R, i)) < Cardinality(Ahead(I, R, j))
         /\ \A i, j \in I : Cardinality(Ahead(I, R, i)) = Cardinality(Ahead(I, R, j)) => i = j
<1>1. Cardinality(I) \in Nat
  BY FS_CardinalityType DEF Ordered
<1>2. ASSUME NEW i \in I
      PROVE  Cardinality(Ahead(I, R, i)) \in 0 .. Cardinality(I) - 1
  <2>1. Ahead(I, R, i) \in SUBSET I /\ Ahead(I, R, i) # I
    BY DEF Ordered, Ahead
  <2>2. /\ IsFiniteSet(Ahead(I, R, i)) /\ Cardinality(Ahead(I, R, i)) <= Cardinality(I)
        /\ Cardinality(I) # Cardinality(Ahead(I, R, i))
    BY <2>1, FS_Subset DEF Ordered
  <2>3. Cardinality(Ahead(I, R, i)) \in Nat
    BY <2>2, FS_CardinalityType
  <2> QED BY <1>1, <2>2, <2>3
<1>3. ASSUME NEW i \in I, NEW j \in I, <<i, j>> \in R
      PROVE  Cardinality(Ahead(I, R, i)) < Cardinality(Ahead(I, R, j))
  <2>1. /\ Ahead(I, R, i) \in SUBSET Ahead(I, R, j)
        /\ i \in Ahead(I, R, j) /\ i \notin Ahead(I, R, i)
        /\ Ahead(I, R, j) \in SUBSET I
    BY <1>3 DEF Ordered, Ahead
  <2>2. IsFiniteSet(Ahead(I, R, j))
    BY <2>1, FS_Subset DEF Ordered
  <2>3. /\ Cardinality(Ahead(I, R, i)) <= Cardinality(Ahead(I, R, j))
        /\ Cardinality(Ahead(I, R, i)) # Cardinality(Ahead(I, R, j))
    BY <2>1, <2>2, FS_Subset
  <2>4. Cardinality(Ahead(I, R, i)) \in Nat /\ Cardinality(Ahead(I, R, j)) \in Nat
    BY <1>2
  <2> QED BY <2>3, <2>4
<1>4. ASSUME NEW i \in I, NEW j \in I,
             Cardinality(Ahead(I, R, i)) = Cardinality(Ahead(I, R, j))
      PROVE  i = j
  <2>1. Cardinality(Ahead(I, R, i)) \in Nat
    BY <1>2
  <2>2. <<i, j>> \notin R /\ <<j, i>> \notin R
    BY <1>3, <1>4, <2>1
  <2> QED BY <2>2 DEF Ordered
<1> QED BY <1>1, <1>2, <1>3, <1>4

LEMMA InOrderIs ==
  ASSUME NEW I, NEW R, Ordered(I, R)
  PROVE  /\ Cardinality(I) \in Nat
         /\ InOrder(I, R) \in [1 .. Cardinality(I) -> I]
         /\ \A k \in 1 .. Cardinality(I) : Cardinality(Ahead(I, R, InOrder(I, R)[k])) = k - 1
         /\ \A i \in I : \E k \in 1 .. Cardinality(I) : InOrder(I, R)[k] = i
<1> DEFINE n == Cardinality(I)
           Place1(i) == Cardinality(Ahead(I, R, i)) + 1
<1>1. /\ n \in Nat
      /\ \A i \in I : Place1(i) \in 1 .. n
      /\ \A i, j \in I : Place1(i) = Place1(j) => i = j
  BY PlacesDiffer
<1>2. InOrder(I, R) = [k \in 1 .. n |-> CHOOSE i \in I : Cardinality(Ahead(I, R, i)) = k - 1]
  BY DEF InOrder, Ahead
<1>3. ASSUME NEW k \in 1 .. n PROVE \E i \in I : Place1(i) = k
  <2>1. PICK g : g = [i \in I |-> Place1(i)]
    OBVIOUS
  <2>2. g \in [I -> 1 .. n] /\ \A i, j \in I : g[i] = g[j] => i = j
    <3> HIDE DEF n, Place1
    <3> QED BY <1>1, <2>1
  <2>3. g \in Injection(I, 1 .. n)
    BY <2>2 DEF Injection, IsInjective
  <2>4. IsFiniteSet(1 .. n) /\ Cardinality(1 .. n) = n
    BY <1>1, FS_Interval
  <2>5. g \in Surjection(I, 1 .. n)
    BY <2>3, <2>4, FS_Injection
  <2> QED BY <2>1, <2>5 DEF Surjection
<1>4. ASSUME NEW k \in 1 .. n
      PROVE  InOrder(I, R)[k] \in I /\ Cardinality(Ahead(I, R, InOrder(I, R)[k])) = k - 1
  <2>1. \E i \in I : Cardinality(Ahead(I, R, i)) = k - 1
    <3>1. PICK i \in I : Place1(i) = k
      BY <1>3
    <3>2. Cardinality(Ahead(I, R, i)) \in Nat
      BY PlacesDiffer
    <3> QED BY <3>1, <3>2
  <2>2. InOrder(I, R)[k] = CHOOSE i \in I : Cardinality(Ahead(I, R, i)) = k - 1
    BY <1>2
  <2> QED BY <2>1, <2>2
<1>5. ASSUME NEW i \in I PROVE \E k \in 1 .. n : InOrder(I, R)[k] = i
  <2>1. PICK k \in 1 .. n : Place1(i) = k
    BY <1>1
  <2>2. Cardinality(Ahead(I, R, i)) \in Nat
    BY PlacesDiffer
  <2>3. InOrder(I, R)[k] \in I /\ Cardinality(Ahead(I, R, i)) = Cardinality(Ahead(I, R, InOrder(I, R)[k]))
    BY <1>4, <2>1, <2>2
  <2>4. InOrder(I, R)[k] = i
    BY <2>3, PlacesDiffer
  <2> QED BY <2>4
<1>6. InOrder(I, R) \in [1 .. n -> I]
  <2> HIDE DEF n
  <2>1. InOrder(I, R) = [k \in 1 .. n |-> InOrder(I, R)[k]]
    BY <1>2
  <2> QED BY <2>1, <1>4
<1> QED BY <1>1, <1>4, <1>5, <1>6

-----------------------------------------------------------------------------
(* The attention queue *)

\* The rows of different contributions differ by number.
Comparable(C) ==
  /\ IsFiniteSet(C)
  /\ \A c \in C : c.updated \in Nat /\ c.pr \in Nat
  /\ \A c, d \in C : c.pr = d.pr => c = d

LEMMA PriorityIsNatural ==
  ASSUME NEW c
  PROVE  Priority(c) \in Nat
<1>1. \A holds : \A n \in Nat : Points(holds, n) \in Nat
  BY DEF Points
<1>2. /\ 100 \in Nat /\ 90 \in Nat /\ 80 \in Nat /\ 60 \in Nat /\ 40 \in Nat /\ 35 \in Nat
  OBVIOUS
<1>3. /\ Points(c.workflowState = "AMBIGUOUS", 100) \in Nat
      /\ Points(c.readiness = "READY_TO_MERGE", 90) \in Nat
      /\ Points(c.nextActor = "MAINTAINER", 80) \in Nat
      /\ Points(c.readiness \in {"READY_FOR_REVIEW", "READY_FOR_REREVIEW"}, 60) \in Nat
      /\ Points(c.workflowState = "IN_REVIEW", 40) \in Nat
      /\ Points(c.nextActor = "UNKNOWN", 35) \in Nat
      /\ Points(c.readiness = "AMBIGUOUS", 35) \in Nat
  BY <1>1, <1>2, Zenon
<1> QED BY <1>3 DEF Priority

\* Precedes is an order of the rows that leaves no two of them together.
LEMMA PrecedesOrders ==
  ASSUME NEW C, Comparable(C)
  PROVE  /\ \A c \in C : ~Precedes(c, c)
         /\ \A c, d \in C : c # d => Precedes(c, d) \/ Precedes(d, c)
         /\ \A c, d \in C : Precedes(c, d) => ~Precedes(d, c)
         /\ \A c, d, e \in C : Precedes(c, d) /\ Precedes(d, e) => Precedes(c, e)
<1>1. \A c \in C : Priority(c) \in Nat /\ c.updated \in Nat /\ c.pr \in Nat
  BY PriorityIsNatural DEF Comparable
<1>2. \A c, d \in C : c # d => c.pr # d.pr
  BY DEF Comparable
<1> QED BY <1>1, <1>2 DEF Precedes

\* The set of the rows that wait and match the filters, and their order.
Waiting(C, filters) == {c \in C : Waits(c, filters)}
Preceding(C, filters) ==
  {r \in Waiting(C, filters) \X Waiting(C, filters) : Precedes(r[1], r[2])}

LEMMA WaitingOrdered ==
  ASSUME NEW C, Comparable(C), NEW filters
  PROVE  Ordered(Waiting(C, filters), Preceding(C, filters))
<1>1. Waiting(C, filters) \in SUBSET C /\ IsFiniteSet(Waiting(C, filters))
  <2>1. Waiting(C, filters) \in SUBSET C
    BY DEF Waiting
  <2> QED BY <2>1, FS_Subset DEF Comparable
<1>2. \A c, d \in Waiting(C, filters) : <<c, d>> \in Preceding(C, filters) <=> Precedes(c, d)
  BY DEF Preceding
<1> QED BY <1>1, <1>2, PrecedesOrders DEF Ordered

\* However the database gives the rows, the queue is those rows in the order
\* of Precedes: the k-th has k - 1 that precede it.
LEMMA RankedIs ==
  ASSUME NEW C, Comparable(C), NEW filters, NEW rows \in SetToSeqs(C)
  PROVE  /\ Ranked(rows, filters) \in [1 .. Cardinality(Waiting(C, filters)) -> Waiting(C, filters)]
         /\ \A k \in 1 .. Cardinality(Waiting(C, filters)) :
              Cardinality(Ahead(Waiting(C, filters), Preceding(C, filters), Ranked(rows, filters)[k])) = k - 1
         /\ \A c \in Waiting(C, filters) :
              \E k \in 1 .. Cardinality(Waiting(C, filters)) : Ranked(rows, filters)[k] = c
<1> DEFINE n == Cardinality(C)
<1>1. n \in Nat
  BY FS_CardinalityType DEF Comparable
<1>2. rows \in [1 .. n -> C] /\ \A i, j \in 1 .. n : rows[i] = rows[j] => i = j
  BY DEF SetToSeqs
<1>3. \A c \in C : \E i \in 1 .. n : rows[i] = c
  <2>1. rows \in Injection(1 .. n, C)
    BY <1>2 DEF Injection, IsInjective
  <2>2. Cardinality(1 .. n) = n
    BY <1>1, FS_Interval
  <2>3. rows \in Surjection(1 .. n, C)
    BY <2>1, <2>2, FS_Injection DEF Comparable
  <2> QED BY <2>3 DEF Surjection
<1> DEFINE I == {i \in DOMAIN rows : Waits(rows[i], filters)}
           R == {r \in I \X I : \/ Precedes(rows[r[1]], rows[r[2]])
                                \/ ~Precedes(rows[r[2]], rows[r[1]]) /\ r[1] < r[2]}
           order == InOrder(I, R)
<1>4. Ranked(rows, filters) = [k \in DOMAIN order |-> rows[order[k]]]
  BY DEF Ranked
<1>5. /\ I \in SUBSET (1 .. n)
      /\ \A i \in I : rows[i] \in Waiting(C, filters)
      /\ \A c \in Waiting(C, filters) : \E i \in I : rows[i] = c
      /\ \A i, j \in I : rows[i] = rows[j] => i = j
  BY <1>2, <1>3 DEF Waiting
<1>6. IsFiniteSet(I)
  <2>1. IsFiniteSet(1 .. n)
    BY <1>1, FS_Interval
  <2> HIDE DEF n, I
  <2> QED BY <1>5, <2>1, FS_Subset
<1>7. \A i, j \in I : <<i, j>> \in R <=> Precedes(rows[i], rows[j])
  <2>1. \A i, j \in I : <<i, j>> \in R <=>
           \/ Precedes(rows[i], rows[j])
           \/ ~Precedes(rows[j], rows[i]) /\ i < j
    OBVIOUS
  <2>2. ASSUME NEW i \in I, NEW j \in I, i < j, ~Precedes(rows[j], rows[i])
        PROVE  Precedes(rows[i], rows[j])
    <3>1. i # j /\ rows[i] \in C /\ rows[j] \in C
      BY <1>1, <1>2, <2>2
    <3>2. rows[i] # rows[j]
      BY <3>1, <1>5
    <3> QED BY <3>1, <3>2, <2>2, PrecedesOrders
  <2> QED BY <2>1, <2>2
<1> HIDE DEF n, I, R, order
<1>8. Ordered(I, R)
  <2>1. Ordered(Waiting(C, filters), Preceding(C, filters))
    BY WaitingOrdered
  <2>2. \A c, d \in Waiting(C, filters) : <<c, d>> \in Preceding(C, filters) <=> Precedes(c, d)
    BY DEF Preceding
  <2> QED BY <2>1, <2>2, <1>5, <1>6, <1>7 DEF Ordered
<1>9. /\ Cardinality(I) \in Nat
      /\ order \in [1 .. Cardinality(I) -> I]
      /\ \A k \in 1 .. Cardinality(I) : Cardinality(Ahead(I, R, order[k])) = k - 1
      /\ \A i \in I : \E k \in 1 .. Cardinality(I) : order[k] = i
  BY <1>8, InOrderIs DEF order
<1>10. Cardinality(Waiting(C, filters)) = Cardinality(I)
  BY <1>5, <1>6, SameCount
<1>11. ASSUME NEW i \in I
       PROVE  Cardinality(Ahead(Waiting(C, filters), Preceding(C, filters), rows[i])) = Cardinality(Ahead(I, R, i))
  <2>1. Ahead(I, R, i) \in SUBSET I /\ IsFiniteSet(Ahead(I, R, i))
    <3>1. Ahead(I, R, i) \in SUBSET I
      BY DEF Ahead
    <3> QED BY <3>1, <1>6, FS_Subset
  <2>2. \A j \in Ahead(I, R, i) : rows[j] \in Ahead(Waiting(C, filters), Preceding(C, filters), rows[i])
    BY <1>5, <1>7 DEF Ahead, Preceding
  <2>3. \A c \in Ahead(Waiting(C, filters), Preceding(C, filters), rows[i]) : \E j \in Ahead(I, R, i) : rows[j] = c
    BY <1>5, <1>7 DEF Ahead, Preceding
  <2>4. \A j, k \in Ahead(I, R, i) : rows[j] = rows[k] => j = k
    BY <2>1, <1>5
  <2> QED BY <2>1, <2>2, <2>3, <2>4, SameCount
<1>12. DOMAIN order = 1 .. Cardinality(I)
  BY <1>9
<1>13. PICK f : f = Ranked(rows, filters)
  OBVIOUS
<1>14. /\ f = [k \in 1 .. Cardinality(I) |-> f[k]]
       /\ \A k \in 1 .. Cardinality(I) : f[k] = rows[order[k]] /\ order[k] \in I
  BY <1>4, <1>9, <1>12, <1>13
<1>15. f \in [1 .. Cardinality(I) -> Waiting(C, filters)]
  BY <1>5, <1>14
<1>16. \A k \in 1 .. Cardinality(I) :
         Cardinality(Ahead(Waiting(C, filters), Preceding(C, filters), f[k])) = k - 1
  BY <1>9, <1>11, <1>14
<1>17. \A c \in Waiting(C, filters) : \E k \in 1 .. Cardinality(I) : f[k] = c
  <2> SUFFICES ASSUME NEW c \in Waiting(C, filters) PROVE \E k \in 1 .. Cardinality(I) : f[k] = c
    OBVIOUS
  <2>1. PICK i \in I : rows[i] = c
    BY <1>5
  <2>2. PICK k \in 1 .. Cardinality(I) : order[k] = i
    BY <1>9
  <2> QED BY <2>1, <2>2, <1>14
<1> QED BY <1>10, <1>13, <1>15, <1>16, <1>17

\* So every order of the rows gives the same queue.
LEMMA RankedSame ==
  ASSUME NEW C, Comparable(C), NEW filters, NEW first \in SetToSeqs(C), NEW second \in SetToSeqs(C)
  PROVE  Ranked(first, filters) = Ranked(second, filters)
<1>1. PICK f : f = Ranked(first, filters)
  OBVIOUS
<1>2. PICK g : g = Ranked(second, filters)
  OBVIOUS
<1>3. PICK m : m = Cardinality(Waiting(C, filters))
  OBVIOUS
<1>4. /\ f \in [1 .. m -> Waiting(C, filters)] /\ g \in [1 .. m -> Waiting(C, filters)]
      /\ \A k \in 1 .. m : Cardinality(Ahead(Waiting(C, filters), Preceding(C, filters), f[k])) = k - 1
      /\ \A k \in 1 .. m : Cardinality(Ahead(Waiting(C, filters), Preceding(C, filters), g[k])) = k - 1
  BY <1>1, <1>2, <1>3, RankedIs
<1>5. ASSUME NEW k \in 1 .. m PROVE f[k] = g[k]
  BY <1>4, WaitingOrdered, PlacesDiffer
<1>6. f = [k \in 1 .. m |-> f[k]] /\ g = [k \in 1 .. m |-> g[k]]
  BY <1>4
<1>7. f = g
  BY <1>5, <1>6
<1> QED BY <1>1, <1>2, <1>7

\* Nothing in the queue precedes what is listed before it.
LEMMA RankedRises ==
  ASSUME NEW C, Comparable(C), NEW filters, NEW rows \in SetToSeqs(C),
         NEW n, n = Cardinality(Waiting(C, filters)),
         NEW j \in 1 .. n, NEW k \in 1 .. n, j < k
  PROVE  Precedes(Ranked(rows, filters)[j], Ranked(rows, filters)[k])
<1>1. PICK W, R : W = Waiting(C, filters) /\ R = Preceding(C, filters)
  OBVIOUS
<1>2. PICK c, d : c = Ranked(rows, filters)[j] /\ d = Ranked(rows, filters)[k]
  OBVIOUS
<1>3. /\ c \in W /\ d \in W
      /\ Cardinality(Ahead(W, R, c)) = j - 1 /\ Cardinality(Ahead(W, R, d)) = k - 1
  <2>1. PICK f : f = Ranked(rows, filters)
    OBVIOUS
  <2>2. /\ f \in [1 .. n -> W]
        /\ \A m \in 1 .. n : Cardinality(Ahead(W, R, f[m])) = m - 1
    BY <1>1, <2>1, RankedIs
  <2> QED BY <1>2, <2>1, <2>2
<1>4. Ordered(W, R)
  BY <1>1, WaitingOrdered
<1>5. c # d
  BY <1>3
<1>6. <<d, c>> \notin R
  <2>1. <<d, c>> \in R => Cardinality(Ahead(W, R, d)) < Cardinality(Ahead(W, R, c))
    BY <1>3, <1>4, PlacesDiffer
  <2> QED BY <2>1, <1>3
<1>7. <<c, d>> \in R
  BY <1>3, <1>4, <1>5, <1>6 DEF Ordered
<1> QED BY <1>1, <1>2, <1>7 DEF Preceding

-----------------------------------------------------------------------------
(* The pages of the queue *)

\* t is the part of s from behind low up to high.
IsPart(t, s, low, high) ==
  /\ \A i \in DOMAIN t : i \in Nat /\ low + i \in low + 1 .. high /\ t[i] = s[low + i]
  /\ \A k \in low + 1 .. high : \E i \in DOMAIN t : s[k] = t[i]

LEMMA PageIs ==
  ASSUME NEW S, NEW s \in Seq(S), NEW low \in Nat, NEW high \in Nat, high <= Len(s),
         NEW t, t = SubSeq(s, low + 1, high)
  PROVE  IsPart(t, s, low, high)
<1>1. \A k \in low + 1 .. high : s[k] \in S
  <2>1. \A k \in 1 .. Len(s) : s[k] \in S
    BY ElementOfSeq
  <2> QED BY <2>1
<1>2. /\ t \in Seq(S)
      /\ Len(t) = IF low + 1 <= high THEN high - (low + 1) + 1 ELSE 0
      /\ \A i \in 1 .. high - (low + 1) + 1 : t[i] = s[low + 1 + i - 1]
  BY <1>1, SubSeqProperties
<1>3. DOMAIN t = 1 .. Len(t)
  BY <1>2, LenProperties
<1>4. ASSUME NEW i \in DOMAIN t
      PROVE  i \in Nat /\ low + i \in low + 1 .. high /\ t[i] = s[low + i]
  <2>1. i \in Nat /\ low + i \in low + 1 .. high /\ i \in 1 .. high - (low + 1) + 1
    BY <1>2, <1>3
  <2>2. low + 1 + i - 1 = low + i
    BY <2>1
  <2> QED BY <1>2, <2>1, <2>2
<1>5. ASSUME NEW k \in low + 1 .. high
      PROVE  \E i \in DOMAIN t : s[k] = t[i]
  <2>1. /\ k - low \in DOMAIN t /\ k - low \in 1 .. high - (low + 1) + 1
        /\ low + 1 + (k - low) - 1 = k
    BY <1>2, <1>3
  <2>2. t[k - low] = s[k]
    BY <1>2, <2>1
  <2> QED BY <2>1, <2>2
<1> QED BY <1>4, <1>5 DEF IsPart

LEMMA Times ==
  ASSUME NEW a \in Nat, NEW b \in Nat, NEW size \in Nat, a <= b
  PROVE  a * size \in Nat /\ b * size \in Nat /\ a * size <= b * size
<1>1. b - a \in Nat /\ b = a + (b - a)
  OBVIOUS
<1>2. b * size = a * size + (b - a) * size
  OBVIOUS
<1>3. a * size \in Nat /\ (b - a) * size \in Nat /\ b * size \in Nat
  BY <1>1
<1> QED BY <1>2, <1>3

\* The places of page number page end at its last, or at the end.
LastOf(n, size, page) == Min({(page - 1) * size + size, n})
PlacesOf(n, size, page) == (page - 1) * size + 1 .. LastOf(n, size, page)

Offset(size, page) == (page - 1) * size

\* These pages have all the places 1 .. n, one page after the other.
Tiled(n, size, pages) ==
  /\ pages \in 0 .. n
  /\ \A page \in 1 .. pages :
       /\ Offset(size, page) \in Nat
       /\ LastOf(n, size, page) \in Nat /\ LastOf(n, size, page) <= n
  /\ \A page, other \in 1 .. pages :
       page < other =>
         \A j \in PlacesOf(n, size, page), k \in PlacesOf(n, size, other) : j < k
  /\ \A k \in 1 .. n : \E page \in 1 .. pages : k \in PlacesOf(n, size, page)

\* Pages of equal size cover the places 1 .. n, one after the other.
LEMMA PagesCover ==
  ASSUME NEW n \in Nat, NEW size \in Nat \ {0}, NEW pages, pages = (n + size - 1) \div size
  PROVE  pages \in Nat /\ Tiled(n, size, pages)
<1>1. n + size - 1 \in Nat
  OBVIOUS
<1>2. /\ pages \in Nat /\ size * pages <= n + size - 1 /\ n + size - 1 < size * pages + size
  BY <1>1, Division
<1>3. ASSUME NEW page \in 1 .. pages
      PROVE  /\ (page - 1) * size \in Nat
             /\ LastOf(n, size, page) \in Nat /\ LastOf(n, size, page) <= n
             /\ LastOf(n, size, page) <= (page - 1) * size + size
             /\ \A k \in Nat : k <= n /\ k <= (page - 1) * size + size => k <= LastOf(n, size, page)
  <2>1. page - 1 \in Nat
    OBVIOUS
  <2>2. PICK low : low = (page - 1) * size
    OBVIOUS
  <2>3. low \in Nat
    BY <2>1, <2>2
  <2>4. LastOf(n, size, page) = IF low + size <= n THEN low + size ELSE n
    BY <2>2, <2>3, SmallerOfTwo DEF LastOf
  <2> QED BY <2>2, <2>3, <2>4
<1>4. ASSUME NEW page \in 1 .. pages, NEW other \in 1 .. pages, page < other
      PROVE  \A j \in PlacesOf(n, size, page), k \in PlacesOf(n, size, other) : j < k
  <2>1. (page - 1) * size + size = page * size
    OBVIOUS
  <2>2. page * size <= (other - 1) * size
    <3>1. page \in Nat /\ other - 1 \in Nat /\ page <= other - 1
      BY <1>4
    <3> QED BY <3>1, Times
  <2>3. PICK low, high : low = page * size /\ high = (other - 1) * size
    OBVIOUS
  <2>4. /\ LastOf(n, size, page) \in Nat /\ LastOf(n, size, other) \in Nat
        /\ LastOf(n, size, page) <= low /\ low <= high /\ low \in Nat /\ high \in Nat
    <3>1. page \in Nat /\ page * size \in Nat
      OBVIOUS
    <3> QED BY <1>3, <2>1, <2>2, <2>3, <3>1
  <2>5. PlacesOf(n, size, other) = high + 1 .. LastOf(n, size, other)
    BY <2>3 DEF PlacesOf
  <2>6. \A k \in PlacesOf(n, size, page) : k \in Int /\ k <= LastOf(n, size, page)
    <3>1. (page - 1) * size \in Nat
      BY <1>3
    <3> QED BY <3>1, <2>4 DEF PlacesOf
  <2> QED BY <2>4, <2>5, <2>6
<1>5. pages <= n
  <2>1. SUFFICES ASSUME n + 1 <= pages PROVE FALSE
    BY <1>2
  <2>2. size * pages = size * n + size * (pages - n)
    BY <1>2
  <2>3. n * 1 <= n * size /\ 1 * size <= (pages - n) * size
    <3>1. 1 \in Nat /\ 1 <= size /\ pages - n \in Nat /\ 1 <= pages - n
      BY <2>1, <1>2
    <3>2. 1 * size <= (pages - n) * size
      BY <3>1, Times
    <3>3. 1 * n <= size * n
      BY <3>1, Times
    <3> QED BY <3>2, <3>3
  <2>4. PICK a, b : a = size * n /\ b = size * (pages - n)
    OBVIOUS
  <2>5. a \in Nat /\ b \in Nat /\ n <= a /\ size <= b
    BY <2>3, <2>4, <2>1, <1>2
  <2> QED BY <2>2, <2>4, <2>5, <1>2
<1>6. ASSUME NEW k \in 1 .. n
      PROVE  \E page \in 1 .. pages : k \in PlacesOf(n, size, page)
  <2>1. PICK q : q = (k - 1) \div size
    OBVIOUS
  <2>2. k - 1 \in Nat
    OBVIOUS
  <2>3. q \in Nat /\ size * q <= k - 1 /\ k - 1 < size * q + size
    BY <2>1, <2>2, Division
  <2>4. q < pages
    <3>1. SUFFICES ASSUME pages <= q PROVE FALSE
      BY <2>3, <1>2
    <3>2. pages * size <= q * size
      BY <3>1, <2>3, <1>2, Times
    <3>3. PICK a, b : a = pages * size /\ b = q * size
      OBVIOUS
    <3>4. a \in Nat /\ b \in Nat /\ a = size * pages /\ b = size * q
      BY <3>3, <2>3, <1>2
    <3> QED BY <3>2, <3>3, <3>4, <2>3, <1>2
  <2>5. q + 1 \in 1 .. pages /\ (q + 1) - 1 = q
    BY <2>3, <2>4, <1>2
  <2>6. PICK low : low = q * size
    OBVIOUS
  <2>7. low \in Nat /\ low = size * q
    BY <2>3, <2>6
  <2>8. k \in Nat /\ k <= n /\ k <= low + size /\ low + 1 <= k
    BY <2>3, <2>7
  <2>9. k <= LastOf(n, size, q + 1)
    BY <1>3, <2>5, <2>6, <2>8
  <2>10. k \in PlacesOf(n, size, q + 1)
    <3>1. LastOf(n, size, q + 1) \in Nat
      BY <1>3, <2>5
    <3> QED BY <3>1, <2>5, <2>6, <2>7, <2>8, <2>9 DEF PlacesOf
  <2> QED BY <2>5, <2>10
<1>7. pages \in 0 .. n
  BY <1>2, <1>5
<1>8. \A page \in 1 .. pages : Offset(size, page) \in Nat
  BY <1>3 DEF Offset
<1> QED BY <1>2, <1>3, <1>4, <1>6, <1>7, <1>8 DEF Tiled

\* Of contributions that differ, what precedes the other outranks it.
LEMMA PrecedingOutranks ==
  ASSUME NEW C, Comparable(C), NEW c \in C, NEW d \in C, Precedes(c, d)
  PROVE  Outranks(c, d)
<1>1. /\ Priority(c) \in Nat /\ c.updated \in Nat /\ c.pr \in Nat
      /\ Priority(d) \in Nat /\ d.updated \in Nat /\ d.pr \in Nat
  BY PriorityIsNatural DEF Comparable
<1> QED BY <1>1 DEF Precedes, Outranks

LEMMA WaitingCount ==
  ASSUME NEW C, Comparable(C), NEW filters, NEW n, n = Cardinality(Waiting(C, filters))
  PROVE  n \in Nat /\ n <= Cardinality(C)
<1>1. n \in Nat
  BY WaitingOrdered, PlacesDiffer
<1>2. Waiting(C, filters) \in SUBSET C
  BY DEF Waiting
<1> QED BY <1>1, <1>2, FS_Subset DEF Comparable

\* Every page of the queue says that it holds n contributions.
HasLength(rows, filters, n) ==
  /\ \A page, size : QueuePage(rows, filters, page, size).total = n
  /\ \A page, size : QueuePage(rows, filters, page, size).totalPages = (n + size - 1) \div size

\* How long the queue is, and how many pages it has.
LEMMA QueueLength ==
  ASSUME NEW C, Comparable(C), NEW filters, NEW rows \in SetToSeqs(C), NEW n,
         n = Cardinality(Waiting(C, filters))
  PROVE  /\ Ranked(rows, filters) \in Seq(Waiting(C, filters)) /\ Len(Ranked(rows, filters)) = n
         /\ HasLength(rows, filters, n)
<1>1. n \in Nat
  BY WaitingCount
<1>3. PICK s : s = Ranked(rows, filters)
  OBVIOUS
<1>4. s \in [1 .. n -> Waiting(C, filters)]
  BY <1>3, RankedIs
<1>5. s \in Seq(Waiting(C, filters)) /\ Len(s) = n
  BY <1>1, <1>4
<1>6. \A page, size : QueuePage(rows, filters, page, size).total = Len(s)
  BY <1>3 DEF QueuePage
<1>7. \A page, size :
        QueuePage(rows, filters, page, size).totalPages = (Len(s) + size - 1) \div size
  BY <1>3 DEF QueuePage
<1>8. HasLength(rows, filters, n)
  BY <1>5, <1>6, <1>7 DEF HasLength
<1> QED BY <1>3, <1>5, <1>8

\* What the pages show, each with its own order of the rows.
Items(order, filters, size, pages) ==
  [page \in 1 .. pages |-> QueuePage(order[page], filters, page, size).items]

\* The pages are one list of the rows in W, in the order of Outranks.
OneList(items, pages, W) ==
  /\ \A page, other \in 1 .. pages :
       \A i \in DOMAIN items[page], j \in DOMAIN items[other] :
         page < other \/ (page = other /\ i < j) => Outranks(items[page][i], items[other][j])
  /\ UNION {ToSet(items[page]) : page \in 1 .. pages} = W

\* The pages of one queue, whatever order the rows come in for each of them.
LEMMA PagesOfQueue ==
  ASSUME NEW C, Comparable(C), NEW filters, NEW size \in Nat \ {0},
         NEW order \in [1 .. Cardinality(C) -> SetToSeqs(C)],
         NEW n, n = Cardinality(Waiting(C, filters)),
         NEW pages, Tiled(n, size, pages), NEW items, items = Items(order, filters, size, pages)
  PROVE  OneList(items, pages, Waiting(C, filters))
<1>0. items = [page \in 1 .. pages |-> QueuePage(order[page], filters, page, size).items]
  BY DEF Items
<1>1. PICK W : W = Waiting(C, filters)
  OBVIOUS
<1>2. n \in Nat /\ n <= Cardinality(C) /\ Cardinality(C) \in Nat
  BY WaitingCount, FS_CardinalityType DEF Comparable
<1>3. pages \in 0 .. n
  BY DEF Tiled
<1>4. \A page \in 1 .. pages :
        /\ Offset(size, page) \in Nat
        /\ LastOf(n, size, page) \in Nat /\ LastOf(n, size, page) <= n
  BY DEF Tiled
<1>5. /\ \A page, other \in 1 .. pages :
           page < other =>
             \A j \in PlacesOf(n, size, page), k \in PlacesOf(n, size, other) : j < k
      /\ \A k \in 1 .. n : \E page \in 1 .. pages : k \in PlacesOf(n, size, page)
  BY DEF Tiled
<1>6. \A page \in 1 .. pages : order[page] \in SetToSeqs(C)
  BY <1>2, <1>3
<1>7. CASE pages = 0
  <2>1. \A k \in 1 .. n : FALSE
    BY <1>5, <1>7
  <2>2. n = 0
    BY <1>2, <2>1
  <2>3. IsFiniteSet(W)
    BY <1>1, WaitingOrdered DEF Ordered
  <2>4. W = {}
    BY <1>1, <2>2, <2>3, FS_EmptySet
  <2> QED BY <1>1, <1>7, <2>4 DEF OneList
<1>8. CASE pages # 0
  <2>1. PICK s : s = Ranked(order[1], filters)
    OBVIOUS
  <2>2. 1 \in 1 .. pages /\ order[1] \in SetToSeqs(C)
    BY <1>3, <1>6, <1>8
  <2>3. \A page \in 1 .. pages : Ranked(order[page], filters) = s
    BY <1>6, <2>1, <2>2, RankedSame
  <2>4. s \in Seq(W) /\ Len(s) = n
    BY <1>1, <2>1, <2>2, QueueLength
  <2>5. /\ \A k \in 1 .. n : s[k] \in W
        /\ \A c \in W : \E k \in 1 .. n : s[k] = c
        /\ \A j, k \in 1 .. n : j < k => Precedes(s[j], s[k])
    <3>1. /\ s \in [1 .. n -> W]
          /\ \A c \in W : \E k \in 1 .. n : s[k] = c
      BY <1>1, <2>1, <2>2, RankedIs
    <3>2. \A j, k \in 1 .. n : j < k => Precedes(s[j], s[k])
      BY <2>1, <2>2, RankedRises
    <3> QED BY <3>1, <3>2
  <2>6. ASSUME NEW page \in 1 .. pages
        PROVE  /\ PlacesOf(n, size, page) \in SUBSET (1 .. n)
               /\ PlacesOf(n, size, page) = Offset(size, page) + 1 .. LastOf(n, size, page)
               /\ IsPart(items[page], s, Offset(size, page), LastOf(n, size, page))
    <3>1. PICK low : low = Offset(size, page)
      OBVIOUS
    <3>2. PICK high : high = LastOf(n, size, page)
      OBVIOUS
    <3>3. low \in Nat /\ high \in Nat /\ high <= n
      BY <1>4, <3>1, <3>2
    <3>4. PlacesOf(n, size, page) = low + 1 .. high
      BY <3>1, <3>2 DEF PlacesOf, Offset
    <3>5. PICK t : t = SubSeq(s, low + 1, high)
      OBVIOUS
    <3>6. items[page] = t
      <4>1. items[page] = QueuePage(order[page], filters, page, size).items
        BY <1>0
      <4>2. Ranked(order[page], filters) = s
        BY <2>3
      <4> QED BY <4>1, <4>2, <2>4, <3>1, <3>2, <3>5 DEF QueuePage, LastOf, Offset
    <3>7. IsPart(t, s, low, high)
      <4>1. high <= Len(s)
        BY <2>4, <3>3
      <4> QED BY <2>4, <3>3, <3>5, <4>1, PageIs
    <3>8. low + 1 .. high \in SUBSET (1 .. n)
      BY <1>2, <3>3
    <3> QED BY <3>1, <3>2, <3>4, <3>6, <3>7, <3>8
  <2>7. ASSUME NEW page \in 1 .. pages, NEW other \in 1 .. pages,
               NEW i \in DOMAIN items[page], NEW j \in DOMAIN items[other],
               page < other \/ (page = other /\ i < j)
        PROVE  Outranks(items[page][i], items[other][j])
    <3>1. PICK k, l : k = Offset(size, page) + i /\ l = Offset(size, other) + j
      OBVIOUS
    <3>2. /\ k \in PlacesOf(n, size, page) /\ l \in PlacesOf(n, size, other)
          /\ k \in 1 .. n /\ l \in 1 .. n
          /\ items[page][i] = s[k] /\ items[other][j] = s[l]
      BY <2>6, <3>1 DEF IsPart
    <3>3. k < l
      <4>1. CASE page < other
        BY <1>5, <3>2, <4>1
      <4>2. CASE page = other /\ i < j
        <5>1. PICK low : low = Offset(size, page)
          OBVIOUS
        <5>2. low \in Nat /\ k = low + i /\ l = low + j
          BY <1>4, <3>1, <4>2, <5>1
        <5>3. i \in Nat /\ j \in Nat
          BY <2>6, <4>2 DEF IsPart
        <5> QED BY <4>2, <5>2, <5>3
      <4> QED BY <2>7, <4>1, <4>2
    <3>4. Precedes(s[k], s[l]) /\ s[k] \in C /\ s[l] \in C
      BY <1>1, <2>5, <3>2, <3>3 DEF Waiting
    <3> QED BY <3>2, <3>4, PrecedingOutranks
  <2>8. UNION {ToSet(items[page]) : page \in 1 .. pages} = W
    <3>1. ASSUME NEW c \in W PROVE \E page \in 1 .. pages : c \in ToSet(items[page])
      <4>1. PICK k \in 1 .. n : s[k] = c
        BY <2>5
      <4>2. PICK page \in 1 .. pages : k \in PlacesOf(n, size, page)
        BY <1>5
      <4>3. PICK low, high : low = Offset(size, page) /\ high = LastOf(n, size, page)
        OBVIOUS
      <4>4. k \in low + 1 .. high /\ IsPart(items[page], s, low, high)
        BY <2>6, <4>2, <4>3
      <4>5. PICK i \in DOMAIN items[page] : s[k] = items[page][i]
        BY <4>4 DEF IsPart
      <4> QED BY <4>1, <4>5 DEF ToSet
    <3>2. ASSUME NEW page \in 1 .. pages, NEW c \in ToSet(items[page]) PROVE c \in W
      <4>1. PICK i \in DOMAIN items[page] : c = items[page][i]
        BY <3>2 DEF ToSet
      <4>2. PICK low, high : low = Offset(size, page) /\ high = LastOf(n, size, page)
        OBVIOUS
      <4>3. low + 1 .. high \in SUBSET (1 .. n) /\ IsPart(items[page], s, low, high)
        BY <2>6, <4>2
      <4>4. PICK k : k = low + i
        OBVIOUS
      <4>5. k \in low + 1 .. high /\ c = s[k]
        BY <4>1, <4>3, <4>4 DEF IsPart
      <4>6. k \in 1 .. n
        BY <4>3, <4>5
      <4> QED BY <2>5, <4>5, <4>6
    <3> QED BY <3>1, <3>2
  <2> QED BY <1>1, <2>7, <2>8 DEF OneList
<1> QED BY <1>7, <1>8

-----------------------------------------------------------------------------
(* The newest row of a table *)

\* The table is in the order of its times.
Rising(table) ==
  \A i, j \in DOMAIN table : i < j => table[i].stamp < table[j].stamp

LEMMA NewestFirst ==
  ASSUME NEW S, NEW table \in Seq(S), table # <<>>, NEW n \in Nat \ {0},
         \A e \in S : e.stamp \in Nat, Rising(table)
  PROVE  Newest(table, n) # <<>> /\ Head(Newest(table, n)) = Final(table)
<1>1. PICK m : m = Len(table)
  OBVIOUS
<1>2. m \in Nat \ {0} /\ DOMAIN table = 1 .. m
  BY <1>1, LenProperties, EmptySeq
<1>3. \A i \in 1 .. m : table[i] \in S /\ table[i].stamp \in Nat
  BY <1>1, ElementOfSeq
<1> DEFINE later == {r \in (DOMAIN table) \X (DOMAIN table) :
                       \/ table[r[1]].stamp > table[r[2]].stamp
                       \/ table[r[1]].stamp = table[r[2]].stamp /\ r[1] < r[2]}
           order == InOrder(DOMAIN table, later)
           answer == Newest(table, n)
<1>4. \A i, j \in 1 .. m : <<i, j>> \in later <=> j < i
  <2>1. \A i, j \in 1 .. m : <<i, j>> \in later <=>
           \/ table[i].stamp > table[j].stamp
           \/ table[i].stamp = table[j].stamp /\ i < j
    BY <1>2
  <2>2. \A i, j \in 1 .. m : i < j => table[i].stamp < table[j].stamp
    BY <1>2 DEF Rising
  <2> HIDE DEF later
  <2>3. ASSUME NEW i \in 1 .. m, NEW j \in 1 .. m
        PROVE  <<i, j>> \in later <=> j < i
    <3>1. CASE i < j
      <4>1. table[i].stamp < table[j].stamp /\ ~(j < i)
        BY <3>1, <2>2
      <4> QED BY <4>1, <2>1, <1>3
    <3>2. CASE j < i
      <4>1. table[j].stamp < table[i].stamp
        BY <3>2, <2>2
      <4> QED BY <4>1, <3>2, <2>1, <1>3
    <3>3. CASE i = j
      BY <3>3, <2>1, <1>3
    <3> QED BY <3>1, <3>2, <3>3
  <2> QED BY <2>3
<1>5. answer = [k \in 1 .. Min({n, m}) |-> table[order[k]]]
  BY <1>1 DEF Newest
<1> HIDE DEF later
<1>6. IsFiniteSet(1 .. m) /\ Cardinality(1 .. m) = m
  BY <1>2, FS_Interval
<1>7. Ordered(1 .. m, later)
  BY <1>2, <1>4, <1>6 DEF Ordered
<1>8. order \in [1 .. m -> 1 .. m] /\ Cardinality(Ahead(1 .. m, later, order[1])) = 0
  <2>1. /\ order \in [1 .. m -> 1 .. m]
        /\ \A k \in 1 .. m : Cardinality(Ahead(1 .. m, later, order[k])) = k - 1
    <3>1. order = InOrder(1 .. m, later)
      BY <1>2
    <3>2. /\ InOrder(1 .. m, later) \in [1 .. Cardinality(1 .. m) -> 1 .. m]
          /\ \A k \in 1 .. Cardinality(1 .. m) :
               Cardinality(Ahead(1 .. m, later, InOrder(1 .. m, later)[k])) = k - 1
      BY <1>7, InOrderIs
    <3> HIDE DEF order
    <3> QED BY <3>1, <3>2, <1>6
  <2> QED BY <2>1, <1>2
<1> HIDE DEF order
<1>9. order[1] = m
  <2>1. order[1] \in 1 .. m
    BY <1>2, <1>8
  <2>2. IsFiniteSet(Ahead(1 .. m, later, order[1]))
    <3>1. Ahead(1 .. m, later, order[1]) \in SUBSET (1 .. m)
      BY DEF Ahead
    <3> QED BY <3>1, <1>6, FS_Subset
  <2>3. Ahead(1 .. m, later, order[1]) = {}
    BY <2>2, <1>8, FS_EmptySet
  <2>4. ~(order[1] < m)
    <3>1. m \in 1 .. m /\ ~(<<m, order[1]>> \in later)
      BY <2>3, <1>2 DEF Ahead
    <3> QED BY <3>1, <2>1, <1>4
  <2> QED BY <2>1, <2>4, <1>2
<1>10. PICK k : k = Min({n, m})
  OBVIOUS
<1>11. k \in Nat \ {0} /\ k <= m
  BY <1>10, <1>2, SmallerOfTwo
<1>12. PICK a : a = answer
  OBVIOUS
<1>13. a = [j \in 1 .. k |-> table[order[j]]]
  BY <1>5, <1>10, <1>12
<1>14. a \in Seq(S) /\ Len(a) = k /\ a[1] = table[m]
  <2>1. a \in [1 .. k -> S]
    <3>1. \A j \in 1 .. k : order[j] \in 1 .. m
      BY <1>2, <1>8, <1>11
    <3>2. \A j \in 1 .. k : table[order[j]] \in S
      BY <3>1, <1>3
    <3> QED BY <1>13, <3>2
  <2>2. a[1] = table[m]
    BY <1>13, <1>11, <1>9
  <2> QED BY <2>1, <2>2, <1>11
<1>15. a # <<>> /\ Head(a) = a[1]
  BY <1>14, <1>11, EmptySeq
<1> QED BY <1>1, <1>12, <1>14, <1>15 DEF Final

-----------------------------------------------------------------------------
(* What a query reads of the tables *)

\* A chain is in the order of its times.
LEMMA ChainRises ==
  ASSUME NEW H \in Seq(HistoryRows), Chain(H)
  PROVE  Rising(H)
<1>1. PICK n : n = Len(H)
  OBVIOUS
<1>2. n \in Nat /\ DOMAIN H = 1 .. n
  BY <1>1, LenProperties
<1>3. \A i \in 1 .. n : H[i].stamp \in Nat
  <2>1. \A i \in 1 .. n : H[i] \in HistoryRows
    BY <1>1, ElementOfSeq
  <2> QED BY <2>1 DEF HistoryRows
<1>4. \A i \in 1 .. n : i > 1 => H[i - 1].stamp < H[i].stamp
  BY <1>2, <1>3 DEF Chain
<1>5. ASSUME NEW i \in 1 .. n, NEW j \in 1 .. n, i < j
      PROVE  H[i].stamp < H[j].stamp
  <2> DEFINE T == {d \in Nat : i + 1 + d <= n => H[i].stamp < H[i + 1 + d].stamp}
  <2>1. T \in SUBSET Nat
    OBVIOUS
  <2>2. 0 \in T
    <3>1. i + 1 <= n => H[(i + 1) - 1].stamp < H[i + 1].stamp
      <4>1. i + 1 <= n => i + 1 \in 1 .. n /\ i + 1 > 1
        BY <1>2
      <4> QED BY <4>1, <1>4
    <3>2. (i + 1) - 1 = i /\ i + 1 + 0 = i + 1
      OBVIOUS
    <3> QED BY <3>1, <3>2
  <2>3. ASSUME NEW d \in T PROVE d + 1 \in T
    <3>1. i + 1 + (d + 1) <= n => H[i].stamp < H[i + 1 + (d + 1)].stamp
      <4> SUFFICES ASSUME i + 1 + (d + 1) <= n PROVE H[i].stamp < H[i + 1 + (d + 1)].stamp
        OBVIOUS
      <4>1. PICK k : k = i + 1 + (d + 1)
        OBVIOUS
      <4>2. k \in 1 .. n /\ k > 1 /\ k - 1 = i + 1 + d /\ k - 1 \in 1 .. n /\ i + 1 + d <= n
        BY <4>1, <1>2
      <4>3. H[i].stamp < H[k - 1].stamp /\ H[k - 1].stamp < H[k].stamp
        BY <4>2, <1>4
      <4> QED BY <4>1, <4>2, <4>3, <1>3
    <3> QED BY <3>1
  <2> HIDE DEF T
  <2>4. T = Nat
    BY <2>1, <2>2, <2>3, Induction
  <2>5. j - i - 1 \in Nat /\ i + 1 + (j - i - 1) = j /\ j <= n
    BY <1>5, <1>2
  <2> QED BY <2>4, <2>5 DEF T
<1> QED BY <1>2, <1>5 DEF Rising

\* What belongs to a contribution that is on record.
LEMMA OnRecord ==
  ASSUME RecordInv, NEW p \in PullRequests, StoredSnapshot(p) # None
  PROVE  /\ runs[p] # <<>> /\ contribution[p].stamp = Final(runs[p]).stamp
         /\ contribution[p].stamp \in Nat /\ contribution[p].updated \in Nat
         /\ \A i \in DOMAIN runs[p] : runs[p][i].stamp <= contribution[p].stamp
         /\ LatestEvaluation(p) = Final(evaluations[p])
         /\ Final(evaluations[p]) \in EvaluationRows
         /\ Final(evaluations[p]).stamp = contribution[p].stamp
         /\ history[p] # <<>>
         /\ Final(history[p]).to = Final(evaluations[p]).verdict.workflowState
         /\ Newest(runs[p], Limit) # <<>> /\ Head(Newest(runs[p], Limit)) = Final(runs[p])
         /\ Newest(history[p], Limit) # <<>>
         /\ Head(Newest(history[p], Limit)) = Final(history[p])
<1>1. PICK R : R = runs[p]
  OBVIOUS
<1>2. PICK E : E = evaluations[p]
  OBVIOUS
<1>3. PICK H : H = history[p]
  OBVIOUS
<1>4. R \in Seq(RunRows) /\ E \in Seq(EvaluationRows) /\ H \in Seq(HistoryRows)
  BY <1>1, <1>2, <1>3 DEF RecordInv, RecordTypes
<1>5. /\ Ascending(E) /\ Evaluated(R, E) /\ R # <<>>
      /\ contribution[p].stamp = Final(R).stamp /\ Latest(E) = Final(E)
  BY <1>1, <1>2 DEF RecordInv, RecordIsWhole, StoredSnapshot
<1>6. Chain(H) /\ (H = <<>> <=> E = <<>>) /\ (H # <<>> => Final(H).to = LatestState(p))
  BY <1>2, <1>3 DEF RecordInv, HistoryIsChain
<1>7. PICK n : n = Len(R)
  OBVIOUS
<1>8. /\ n \in Nat \ {0} /\ Len(E) = n /\ DOMAIN R = 1 .. n /\ DOMAIN E = 1 .. n /\ E # <<>>
      /\ \A i \in 1 .. n : E[i].stamp = R[i].stamp
  BY <1>4, <1>5, <1>7, LenProperties, EmptySeq DEF Evaluated
<1>9. /\ \A i \in 1 .. n : R[i] \in RunRows
      /\ \A i \in 1 .. n : E[i] \in EvaluationRows
  BY <1>4, <1>7, <1>8, ElementOfSeq
<1>10. \A i \in 1 .. n : R[i].stamp \in Nat
  BY <1>9 DEF RunRows
<1>11. \A i, j \in 1 .. n : i < j => R[i].stamp < R[j].stamp
  BY <1>5, <1>8 DEF Ascending
<1>12. Rising(R) /\ Rising(H)
  BY <1>4, <1>6, <1>8, <1>11, ChainRises DEF Rising
<1>13. Final(R) = R[n] /\ Final(E) = E[n] /\ n \in 1 .. n
  BY <1>7, <1>8 DEF Final
<1>14. ASSUME NEW i \in 1 .. n PROVE R[i].stamp <= R[n].stamp
  <2>1. i < n \/ i = n
    BY <1>8
  <2> QED BY <2>1, <1>10, <1>11, <1>13
<1>15. contribution[p].stamp \in Nat /\ contribution[p].updated \in Nat
  BY DEF RecordInv, RecordTypes
<1>16. H # <<>> /\ Final(H).to = Final(E).verdict.workflowState
  BY <1>2, <1>5, <1>6, <1>8 DEF LatestState
<1>17. Limit \in Nat \ {0}
  BY QueriesAssumption DEF QueriesAssumption
<1>18. Newest(R, Limit) # <<>> /\ Head(Newest(R, Limit)) = Final(R)
  <2>1. \A e \in RunRows : e.stamp \in Nat
    BY DEF RunRows
  <2> QED BY <2>1, <1>4, <1>5, <1>12, <1>17, NewestFirst
<1>19. Newest(H, Limit) # <<>> /\ Head(Newest(H, Limit)) = Final(H)
  <2>1. \A e \in HistoryRows : e.stamp \in Nat
    BY DEF HistoryRows
  <2> QED BY <2>1, <1>4, <1>12, <1>16, <1>17, NewestFirst
<1>20. LatestEvaluation(p) = Final(E)
  BY <1>2, <1>5, <1>8 DEF LatestEvaluation
<1>21. Final(E) \in EvaluationRows /\ Final(E).stamp = contribution[p].stamp
  BY <1>5, <1>8, <1>9, <1>13
<1>22. \A i \in DOMAIN R : R[i].stamp <= contribution[p].stamp
  BY <1>5, <1>8, <1>13, <1>14
<1> QED BY <1>1, <1>2, <1>3, <1>5, <1>15, <1>16, <1>18, <1>19, <1>20, <1>21, <1>22

\* A reconciliation that goes on record adds a run and is later than what it adds to.
LEMMA RecordGrows ==
  ASSUME RecordInv, RecordNext
  PROVE  /\ commits \in Nat /\ commits' = commits + 1
         /\ \A p \in PullRequests :
              /\ \A i \in DOMAIN runs[p] : i \in DOMAIN runs'[p] /\ runs'[p][i] = runs[p][i]
              /\ \A i \in DOMAIN runs'[p] :
                   i \in DOMAIN runs[p] \/ runs'[p][i].commit = commits + 1
              /\ runs[p] # <<>> =>
                   /\ runs'[p] # <<>>
                   /\ Final(runs[p]).stamp \in Nat /\ Final(runs'[p]).stamp \in Nat
                   /\ Final(runs[p]).stamp <= Final(runs'[p]).stamp
<1>1. PICK p \in PullRequests, s \in Snapshots, refs \in EvidenceLists,
           stamp \in Stamps, updated \in Stamps : Record(p, s, refs, stamp, updated)
  BY DEF RecordNext
<1>2. RecordTypes /\ Ascending(evaluations[p])
  BY DEF RecordInv
<1>3. Written(p, s, refs, stamp)
  BY <1>1, <1>2, RowsWritten
<1>4. /\ commits' = commits + 1 /\ stamp \in Nat
      /\ \A q \in PullRequests \ {p} : runs'[q] = runs[q]
      /\ \A i \in 1 .. Len(evaluations[p]) : evaluations[p][i].stamp < stamp
  BY <1>3, Zenon DEF Written
<1>5. PICK r \in RunRows : runs'[p] = Append(runs[p], r) /\ r.stamp = stamp /\ r.commit = commits + 1
  BY <1>3, Zenon DEF Written
<1>6. \A q \in PullRequests : runs[q] \in Seq(RunRows)
  BY <1>2 DEF RecordTypes
<1>7. \A q \in PullRequests : runs[q] # <<>> => Final(runs[q]).stamp \in Nat
  <2> SUFFICES ASSUME NEW q \in PullRequests, runs[q] # <<>> PROVE Final(runs[q]).stamp \in Nat
    OBVIOUS
  <2>1. runs[q] \in Seq(RunRows) /\ Len(runs[q]) \in 1 .. Len(runs[q])
    BY <1>6, EmptySeq
  <2>2. Final(runs[q]) \in RunRows
    BY <2>1, ElementOfSeq DEF Final
  <2> QED BY <2>2 DEF RunRows
<1>8. PICK R : R = runs[p]
  OBVIOUS
<1>9. PICK n : n = Len(R)
  OBVIOUS
<1>10. /\ n \in Nat /\ DOMAIN R = 1 .. n /\ DOMAIN runs'[p] = 1 .. n + 1
       /\ runs'[p] # <<>> /\ Len(runs'[p]) = n + 1
       /\ \A i \in 1 .. n : runs'[p][i] = R[i]
       /\ runs'[p][n + 1] = r
  BY <1>5, <1>6, <1>8, <1>9, RowAdded
<1>11. Final(runs'[p]) = r
  BY <1>10 DEF Final
<1>12. R # <<>> => Final(R).stamp < stamp
  <2> SUFFICES ASSUME R # <<>> PROVE Final(R).stamp < stamp
    OBVIOUS
  <2>1. n \in 1 .. n
    BY <1>6, <1>8, <1>9, <1>10, EmptySeq
  <2>2. Evaluated(R, evaluations[p])
    BY <1>8 DEF RecordInv, RecordIsWhole
  <2>3. Len(evaluations[p]) = n /\ evaluations[p][n].stamp = R[n].stamp
    BY <2>1, <2>2, <1>9, <1>10 DEF Evaluated
  <2> QED BY <2>1, <2>3, <1>4, <1>9 DEF Final
<1>13. ASSUME NEW q \in PullRequests
       PROVE  /\ \A i \in DOMAIN runs[q] : i \in DOMAIN runs'[q] /\ runs'[q][i] = runs[q][i]
              /\ \A i \in DOMAIN runs'[q] :
                   i \in DOMAIN runs[q] \/ runs'[q][i].commit = commits + 1
              /\ runs[q] # <<>> =>
                   /\ runs'[q] # <<>>
                   /\ Final(runs[q]).stamp \in Nat /\ Final(runs'[q]).stamp \in Nat
                   /\ Final(runs[q]).stamp <= Final(runs'[q]).stamp
  <2>1. CASE q = p
    <3>1. \A i \in DOMAIN R : i \in DOMAIN runs'[p] /\ runs'[p][i] = R[i]
      BY <1>10
    <3>2. \A i \in DOMAIN runs'[p] : i \in DOMAIN R \/ runs'[p][i].commit = commits + 1
      BY <1>5, <1>10
    <3>3. R # <<>> => /\ Final(R).stamp \in Nat /\ Final(runs'[p]).stamp \in Nat
                      /\ Final(R).stamp <= Final(runs'[p]).stamp
      BY <1>4, <1>5, <1>7, <1>8, <1>11, <1>12
    <3> QED BY <2>1, <3>1, <3>2, <3>3, <1>8, <1>10
  <2>2. CASE q # p
    <3>1. runs'[q] = runs[q]
      BY <2>2, <1>4
    <3> QED BY <3>1, <1>7 DEF Final
  <2> QED BY <2>1, <2>2
<1>14. commits \in Nat
  BY <1>2 DEF RecordTypes
<1> QED BY <1>4, <1>13, <1>14

-----------------------------------------------------------------------------
(* The requests of ProductQueries *)

AboutOne == {"detail", "trail"}
TrailLists == {"history", "evidence", "runs"}

\* A question of the n commits there were, about one pull request or about all.
Posed(q, n) ==
  /\ q = [at |-> q.at, kind |-> q.kind, pr |-> q.pr, asked |-> q.asked,
          rows |-> q.rows, left |-> q.left, found |-> q.found]
  /\ q.asked \in Nat /\ q.asked <= n
  /\ q.kind \in AboutOne => q.pr \in PullRequests
  /\ q.kind \notin AboutOne => q.pr = None
  /\ q.at # "reading" => q.found = <<>>

\* The rows a query has read: none that was on record when it was asked is missing or
\* has become older, and none is newer than the last run.
Listing(q, R) ==
  /\ \A p \in DOMAIN q.rows :
       /\ p \in PullRequests /\ q.pr \in {None, p} /\ R[p] # <<>>
       /\ q.rows[p].stamp \in Nat /\ q.rows[p].updated \in Nat
       /\ q.rows[p].stamp <= Final(R[p]).stamp
  /\ q.kind \in AboutOne => q.pr \in DOMAIN q.rows
  /\ \A p \in PullRequests : \A i \in DOMAIN R[p] :
       R[p][i].commit <= q.asked /\ q.pr \in {None, p} =>
         p \in DOMAIN q.rows /\ R[p][i].stamp <= q.rows[p].stamp

\* What it has read since is not older than the rows.
Belonging(q) ==
  /\ q.kind = "trail" =>
       /\ q.left \subseteq TrailLists /\ DOMAIN q.found = TrailLists \ q.left
       /\ "runs" \notin q.left =>
            q.found["runs"] # <<>> /\ q.rows[q.pr].stamp <= Head(q.found["runs"]).stamp
  /\ q.kind # "trail" =>
       /\ q.left \subseteq DOMAIN q.rows /\ DOMAIN q.found = (DOMAIN q.rows) \ q.left
       /\ \A p \in DOMAIN q.found :
            q.found[p] \in EvaluationRows /\ q.rows[p].stamp <= q.found[p].stamp

\* All it has read is what is on record.
AsOnRecord(q, C, R, E, H) ==
  /\ DOMAIN q.rows = {p \in PullRequests : C[p].snapshot # None /\ q.pr \in {None, p}}
  /\ \A p \in DOMAIN q.rows : q.rows[p] = C[p]
  /\ q.kind = "trail" /\ "history" \notin q.left =>
       q.found["history"] # <<>> /\ Head(q.found["history"]) = Final(H[q.pr])
  /\ q.kind = "trail" /\ "runs" \notin q.left =>
       q.found["runs"] # <<>> /\ Head(q.found["runs"]) = Final(R[q.pr])
  /\ q.kind # "trail" => \A p \in DOMAIN q.found : q.found[p] = Final(E[p])

Faithful(q, C, R, E, H, n) ==
  /\ Posed(q, n)
  /\ q.at = "reading" =>
       /\ Listing(q, R) /\ Belonging(q)
       /\ q.asked = n => AsOnRecord(q, C, R, E, H)

QueriesInv ==
  /\ request = [r \in Requests |-> request[r]]
  /\ \A r \in Requests : Faithful(request[r], contribution, runs, evaluations, history, commits)

LEMMA UnusedFaithful ==
  ASSUME NEW C, NEW R, NEW E, NEW H, NEW n \in Nat
  PROVE  Faithful(Unused, C, R, E, H, n)
BY DEF Faithful, Posed, Unused, AboutOne

LEMMA QuestionFaithful ==
  ASSUME commits \in Nat, NEW kind, NEW pr,
         kind \in AboutOne => pr \in PullRequests, kind \notin AboutOne => pr = None
  PROVE  Faithful(Question(kind, pr), contribution, runs, evaluations, history, commits)
<1>1. PICK to : to = Question(kind, pr)
  OBVIOUS
<1>2. to = [at |-> "asked", kind |-> kind, pr |-> pr, asked |-> commits,
            rows |-> <<>>, left |-> {}, found |-> <<>>]
  BY <1>1 DEF Question, Unused
<1>3. Faithful(to, contribution, runs, evaluations, history, commits)
  BY <1>2 DEF Faithful, Posed
<1> QED BY <1>1, <1>3

LEMMA FindKeeps ==
  ASSUME RecordInv, NEW r \in Requests, QueriesInv, FindContributions(r)
  PROVE  Faithful(request'[r], contribution, runs, evaluations, history, commits)
<1> USE RecordAssumption DEF RecordAssumption
<1>1. PICK q : q = request[r]
  OBVIOUS
<1>2. Posed(q, commits) /\ q.at = "asked" /\ commits \in Nat
  BY <1>1 DEF QueriesInv, Faithful, FindContributions, RecordInv, RecordTypes
<1> DEFINE listed == Listed(q.pr)
           left == IF q.kind = "trail" /\ listed # {} THEN TrailLists ELSE listed
           at == IF q.pr # None /\ listed = {} THEN "not found" ELSE "reading"
           rows == [p \in listed |-> contribution[p]]
<1>3. PICK to : to = request'[r]
  OBVIOUS
<1>4. to = [q EXCEPT !.at = at, !.rows = rows, !.left = left]
  BY <1>1, <1>3 DEF FindContributions, QueriesInv, TrailLists
<1>5. /\ to.at = at /\ to.rows = rows /\ to.left = left
      /\ to.kind = q.kind /\ to.pr = q.pr /\ to.asked = q.asked /\ to.found = q.found
      /\ to = [at |-> to.at, kind |-> to.kind, pr |-> to.pr, asked |-> to.asked,
               rows |-> to.rows, left |-> to.left, found |-> to.found]
  <2> HIDE DEF at, rows, left
  <2> QED BY <1>2, <1>4 DEF Posed
<1> SUFFICES ASSUME to.at = "reading"
             PROVE  Listing(to, runs) /\ Belonging(to)
                    /\ AsOnRecord(to, contribution, runs, evaluations, history)
  <2>1. Posed(to, commits)
    <3> HIDE DEF at, rows, left
    <3> QED BY <1>2, <1>5 DEF Posed
  <2> QED BY <2>1, <1>3 DEF Faithful
<1>6. \A p \in listed :
         /\ p \in PullRequests /\ q.pr \in {None, p} /\ StoredSnapshot(p) # None
         /\ rows[p] = contribution[p]
  BY DEF Listed
<1>7. DOMAIN rows = listed
  OBVIOUS
<1>8. q.found = <<>> /\ (q.pr # None => listed # {})
  BY <1>2, <1>5 DEF Posed
<1>9. q.kind \in AboutOne => q.pr \in listed
  <2> SUFFICES ASSUME q.kind \in AboutOne PROVE q.pr \in listed
    OBVIOUS
  <2>1. q.pr \in PullRequests /\ q.pr # None
    BY <1>2 DEF Posed
  <2>2. PICK p \in listed : TRUE
    BY <1>8, <2>1
  <2>3. q.pr \in {None, p}
    BY <1>6
  <2> HIDE DEF listed
  <2> QED BY <2>1, <2>2, <2>3
<1>10. to.asked = q.asked /\ q.asked <= commits
  BY <1>2, <1>5 DEF Posed
<1>11. Listing(to, runs)
  <2>1. ASSUME NEW p \in listed
        PROVE  /\ runs[p] # <<>> /\ rows[p].stamp \in Nat /\ rows[p].updated \in Nat
               /\ rows[p].stamp <= Final(runs[p]).stamp
    <3>1. StoredSnapshot(p) # None /\ p \in PullRequests /\ rows[p] = contribution[p]
      BY <1>6
    <3>2. /\ runs[p] # <<>> /\ contribution[p].stamp = Final(runs[p]).stamp
          /\ contribution[p].stamp \in Nat /\ contribution[p].updated \in Nat
      BY <3>1, OnRecord
    <3> HIDE DEF rows
    <3> QED BY <3>1, <3>2
  <2>2. ASSUME NEW p \in PullRequests, NEW i \in DOMAIN runs[p], q.pr \in {None, p}
        PROVE  p \in listed /\ runs[p][i].stamp <= rows[p].stamp
    <3>1. runs[p] # <<>>
      OBVIOUS
    <3>2. StoredSnapshot(p) # None
      BY <3>1 DEF RecordInv, RecordIsWhole, StoredSnapshot
    <3>3. p \in listed
      BY <3>2, <2>2 DEF Listed
    <3>4. runs[p][i].stamp <= contribution[p].stamp
      BY <3>2, OnRecord
    <3> QED BY <3>3, <3>4
  <2> HIDE DEF rows, listed
  <2> QED BY <2>1, <2>2, <1>5, <1>6, <1>7, <1>9 DEF Listing
<1>12. Belonging(to)
  <2>1. DOMAIN to.found = {}
    <3>1. to.found = <<>>
      <4> HIDE DEF at, rows, left, listed
      <4> QED BY <1>5, <1>8
    <3> HIDE DEF at, rows, left, listed
    <3> QED BY <3>1
  <2>2. to.kind = "trail" => to.left = TrailLists
    <3>1. "trail" \in AboutOne
      BY DEF AboutOne
    <3>2. q.kind = "trail" => listed # {}
      BY <3>1, <1>9
    <3> QED BY <3>2, <1>5
  <2>3. to.kind # "trail" => to.left = DOMAIN to.rows
    BY <1>5
  <2> HIDE DEF rows, listed, left
  <2> QED BY <2>1, <2>2, <2>3 DEF Belonging, TrailLists
<1>13. AsOnRecord(to, contribution, runs, evaluations, history)
  <2>1. to.kind = "trail" => to.left = TrailLists
    <3>1. "trail" \in AboutOne
      BY DEF AboutOne
    <3>2. q.kind = "trail" => listed # {}
      BY <3>1, <1>9
    <3> QED BY <3>2, <1>5
  <2>2. DOMAIN to.found = {}
    <3>1. to.found = <<>>
      <4> HIDE DEF at, rows, left, listed
      <4> QED BY <1>5, <1>8
    <3> HIDE DEF at, rows, left, listed
    <3> QED BY <3>1
  <2>3. DOMAIN to.rows = {p \in PullRequests : contribution[p].snapshot # None /\ to.pr \in {None, p}}
    BY <1>5, <1>7 DEF Listed, StoredSnapshot
  <2>4. \A p \in DOMAIN to.rows : to.rows[p] = contribution[p]
    BY <1>5
  <2> HIDE DEF rows, listed, left
  <2> QED BY <2>1, <2>2, <2>3, <2>4 DEF AsOnRecord, TrailLists
<1> QED BY <1>11, <1>12, <1>13

LEMMA SelectKeeps ==
  ASSUME RecordInv, NEW r \in Requests, QueriesInv,
         NEW left \in request[r].left, Select(r, left)
  PROVE  Faithful(request'[r], contribution, runs, evaluations, history, commits)
<1> USE RecordAssumption DEF RecordAssumption
<1>1. PICK q : q = request[r]
  OBVIOUS
<1>2. /\ Posed(q, commits) /\ q.at = "reading" /\ commits \in Nat
      /\ Listing(q, runs) /\ Belonging(q)
      /\ q.asked = commits => AsOnRecord(q, contribution, runs, evaluations, history)
      /\ left \in q.left
  BY <1>1 DEF QueriesInv, Faithful, Select, RecordInv, RecordTypes
<1>3. PICK value : value = Selected(q, left)
  OBVIOUS
<1>4. PICK found : found = With(q.found, left, value)
  OBVIOUS
<1>5. PICK to : to = request'[r]
  OBVIOUS
<1>6. to = [q EXCEPT !.left = @ \ {left}, !.found = found]
  BY <1>1, <1>3, <1>4, <1>5 DEF Select, QueriesInv
<1>7. /\ to.at = q.at /\ to.rows = q.rows /\ to.left = q.left \ {left}
      /\ to.kind = q.kind /\ to.pr = q.pr /\ to.asked = q.asked /\ to.found = found
      /\ to = [at |-> to.at, kind |-> to.kind, pr |-> to.pr, asked |-> to.asked,
               rows |-> to.rows, left |-> to.left, found |-> to.found]
  BY <1>2, <1>6 DEF Posed
<1>8. Posed(to, commits) /\ Listing(to, runs)
  BY <1>2, <1>7 DEF Posed, Listing
<1>9. /\ DOMAIN found = (DOMAIN q.found) \union {left}
      /\ found[left] = value
      /\ \A x \in DOMAIN q.found : x # left => found[x] = q.found[x]
  BY <1>4 DEF With
<1>10. \A p \in DOMAIN q.rows : p \in PullRequests /\ StoredSnapshot(p) # None
  BY <1>2 DEF Listing, RecordInv, RecordIsWhole, StoredSnapshot
<1>11. CASE q.kind = "trail"
  <2>1. q.pr \in DOMAIN q.rows
    BY <1>2, <1>11 DEF Listing, AboutOne
  <2>2. q.pr \in PullRequests /\ StoredSnapshot(q.pr) # None
    BY <2>1, <1>10
  <2>3. value = TrailList(q.pr, left)
    BY <1>3, <1>11 DEF Selected
  <2>4. left = "runs" => /\ value # <<>> /\ Head(value) = Final(runs[q.pr])
                         /\ q.rows[q.pr].stamp <= Head(value).stamp
    <3>1. left = "runs" => value = Newest(runs[q.pr], Limit)
      BY <2>3 DEF TrailList
    <3>2. /\ Newest(runs[q.pr], Limit) # <<>>
          /\ Head(Newest(runs[q.pr], Limit)) = Final(runs[q.pr])
      BY <2>2, OnRecord
    <3>3. q.rows[q.pr].stamp <= Final(runs[q.pr]).stamp
      BY <2>1, <1>2 DEF Listing
    <3> QED BY <3>1, <3>2, <3>3
  <2>5. left = "history" => value # <<>> /\ Head(value) = Final(history[q.pr])
    <3>1. left = "history" => value = Newest(history[q.pr], Limit)
      BY <2>3 DEF TrailList
    <3>2. /\ Newest(history[q.pr], Limit) # <<>>
          /\ Head(Newest(history[q.pr], Limit)) = Final(history[q.pr])
      BY <2>2, OnRecord
    <3> QED BY <3>1, <3>2
  <2>6. /\ q.left \subseteq TrailLists /\ DOMAIN q.found = TrailLists \ q.left
        /\ "runs" \notin q.left =>
             q.found["runs"] # <<>> /\ q.rows[q.pr].stamp <= Head(q.found["runs"]).stamp
    BY <1>2, <1>11 DEF Belonging
  <2>7. "runs" \in TrailLists /\ "history" \in TrailLists
    BY DEF TrailLists
  <2>8. left \in TrailLists /\ left \notin DOMAIN q.found
    BY <2>6, <1>2
  <2>9. DOMAIN found = TrailLists \ to.left /\ to.left \subseteq TrailLists
    BY <2>6, <2>8, <1>7, <1>9, <1>2
  <2>10. "runs" \notin to.left =>
           found["runs"] # <<>> /\ q.rows[q.pr].stamp <= Head(found["runs"]).stamp
    <3>1. CASE left = "runs"
      BY <3>1, <2>4, <1>9
    <3>2. CASE left # "runs"
      <4>1. "runs" \notin to.left => "runs" \notin q.left /\ found["runs"] = q.found["runs"]
        BY <3>2, <2>6, <2>7, <1>7, <1>9
      <4> QED BY <4>1, <2>6
    <3> QED BY <3>1, <3>2
  <2>11. Belonging(to)
    BY <2>9, <2>10, <1>7, <1>11 DEF Belonging
  <2>12. ASSUME q.asked = commits
         PROVE  AsOnRecord(to, contribution, runs, evaluations, history)
    <3>1. AsOnRecord(q, contribution, runs, evaluations, history)
      BY <2>12, <1>2
    <3>2. "runs" \notin to.left => found["runs"] # <<>> /\ Head(found["runs"]) = Final(runs[q.pr])
      <4>1. CASE left = "runs"
        BY <4>1, <2>4, <1>9
      <4>2. CASE left # "runs"
        <5>1. "runs" \notin to.left => "runs" \notin q.left /\ found["runs"] = q.found["runs"]
          BY <4>2, <2>6, <2>7, <1>7, <1>9
        <5> QED BY <5>1, <3>1, <1>11 DEF AsOnRecord
      <4> QED BY <4>1, <4>2
    <3>3. "history" \notin to.left =>
            found["history"] # <<>> /\ Head(found["history"]) = Final(history[q.pr])
      <4>1. CASE left = "history"
        BY <4>1, <2>5, <1>9
      <4>2. CASE left # "history"
        <5>1. "history" \notin to.left =>
                "history" \notin q.left /\ found["history"] = q.found["history"]
          BY <4>2, <2>6, <2>7, <1>7, <1>9
        <5> QED BY <5>1, <3>1, <1>11 DEF AsOnRecord
      <4> QED BY <4>1, <4>2
    <3> QED BY <3>1, <3>2, <3>3, <1>7, <1>11 DEF AsOnRecord
  <2> QED BY <2>11, <2>12, <1>2, <1>5, <1>7, <1>8 DEF Faithful
<1>12. CASE q.kind # "trail"
  <2>1. /\ q.left \subseteq DOMAIN q.rows /\ DOMAIN q.found = (DOMAIN q.rows) \ q.left
        /\ \A p \in DOMAIN q.found :
             q.found[p] \in EvaluationRows /\ q.rows[p].stamp <= q.found[p].stamp
    BY <1>2, <1>12 DEF Belonging
  <2>2. left \in DOMAIN q.rows /\ left \notin DOMAIN q.found
    BY <2>1, <1>2
  <2>3. left \in PullRequests /\ StoredSnapshot(left) # None
    BY <2>2, <1>10
  <2>4. /\ value = Final(evaluations[left]) /\ value \in EvaluationRows
        /\ q.rows[left].stamp <= value.stamp
    <3>1. value = LatestEvaluation(left)
      BY <1>3, <1>12 DEF Selected
    <3>2. /\ LatestEvaluation(left) = Final(evaluations[left])
          /\ Final(evaluations[left]) \in EvaluationRows
          /\ Final(evaluations[left]).stamp = contribution[left].stamp
          /\ contribution[left].stamp = Final(runs[left]).stamp
      BY <2>3, OnRecord
    <3>3. q.rows[left].stamp <= Final(runs[left]).stamp
      BY <2>2, <1>2 DEF Listing
    <3> QED BY <3>1, <3>2, <3>3
  <2>5. DOMAIN found = (DOMAIN q.rows) \ to.left /\ to.left \subseteq DOMAIN q.rows
    BY <2>1, <2>2, <1>7, <1>9, <1>2
  <2>6. \A p \in DOMAIN found : found[p] \in EvaluationRows /\ q.rows[p].stamp <= found[p].stamp
    <3> SUFFICES ASSUME NEW p \in DOMAIN found
                 PROVE  found[p] \in EvaluationRows /\ q.rows[p].stamp <= found[p].stamp
      OBVIOUS
    <3>1. CASE p = left
      BY <3>1, <2>4, <1>9
    <3>2. CASE p # left
      BY <3>2, <2>1, <1>9
    <3> QED BY <3>1, <3>2
  <2>7. Belonging(to)
    BY <2>5, <2>6, <1>7, <1>12 DEF Belonging
  <2>8. ASSUME q.asked = commits
        PROVE  AsOnRecord(to, contribution, runs, evaluations, history)
    <3>1. AsOnRecord(q, contribution, runs, evaluations, history)
      BY <2>8, <1>2
    <3>2. \A p \in DOMAIN found : found[p] = Final(evaluations[p])
      <4> SUFFICES ASSUME NEW p \in DOMAIN found PROVE found[p] = Final(evaluations[p])
        OBVIOUS
      <4>1. CASE p = left
        BY <4>1, <2>4, <1>9
      <4>2. CASE p # left
        BY <4>2, <3>1, <1>9, <1>12 DEF AsOnRecord
      <4> QED BY <4>1, <4>2
    <3> QED BY <3>1, <3>2, <1>7, <1>12 DEF AsOnRecord
  <2> QED BY <2>7, <2>8, <1>2, <1>5, <1>7, <1>8 DEF Faithful
<1> QED BY <1>11, <1>12

\* The requests stay faithful while a reconciliation goes on record.
LEMMA GrowthKeeps ==
  ASSUME RecordInv, RecordNext, QueriesInv, request' = request
  PROVE  QueriesInv'
<1> SUFFICES ASSUME NEW r \in Requests, NEW q, q = request[r]
             PROVE  Faithful(q, contribution', runs', evaluations', history', commits')
  BY DEF QueriesInv
<1>1. /\ Posed(q, commits)
      /\ q.at = "reading" => Listing(q, runs) /\ Belonging(q)
  BY DEF QueriesInv, Faithful
<1>2. commits \in Nat /\ commits' = commits + 1
  BY RecordGrows
<1>3. Posed(q, commits') /\ q.asked # commits' /\ q.asked <= commits /\ q.asked \in Nat
  BY <1>1, <1>2 DEF Posed
<1>4. ASSUME Listing(q, runs) PROVE Listing(q, runs')
  <2>1. ASSUME NEW p \in DOMAIN q.rows
        PROVE  /\ p \in PullRequests /\ q.pr \in {None, p} /\ runs'[p] # <<>>
               /\ q.rows[p].stamp \in Nat /\ q.rows[p].updated \in Nat
               /\ q.rows[p].stamp <= Final(runs'[p]).stamp
    <3>1. /\ p \in PullRequests /\ q.pr \in {None, p} /\ runs[p] # <<>>
          /\ q.rows[p].stamp \in Nat /\ q.rows[p].updated \in Nat
          /\ q.rows[p].stamp <= Final(runs[p]).stamp
      BY <1>4 DEF Listing
    <3>2. /\ runs'[p] # <<>>
          /\ Final(runs[p]).stamp \in Nat /\ Final(runs'[p]).stamp \in Nat
          /\ Final(runs[p]).stamp <= Final(runs'[p]).stamp
      BY <3>1, RecordGrows
    <3> QED BY <3>1, <3>2
  <2>2. ASSUME NEW p \in PullRequests, NEW i \in DOMAIN runs'[p],
               runs'[p][i].commit <= q.asked, q.pr \in {None, p}
        PROVE  p \in DOMAIN q.rows /\ runs'[p][i].stamp <= q.rows[p].stamp
    <3>1. i \in DOMAIN runs[p]
      BY <2>2, <1>2, <1>3, RecordGrows
    <3>2. runs'[p][i] = runs[p][i]
      BY <3>1, RecordGrows
    <3> QED BY <3>1, <3>2, <2>2, <1>4 DEF Listing
  <2>3. q.kind \in AboutOne => q.pr \in DOMAIN q.rows
    BY <1>4 DEF Listing
  <2> QED BY <2>1, <2>2, <2>3 DEF Listing
<1> QED BY <1>1, <1>3, <1>4 DEF Faithful

\* What becomes of the requests while nothing goes on record.
LEMMA RequestsKeep ==
  ASSUME UNCHANGED tables, request' = [r \in Requests |-> request'[r]],
         \A r \in Requests :
           Faithful(request'[r], contribution, runs, evaluations, history, commits)
  PROVE  QueriesInv'
<1>1. /\ contribution' = contribution /\ runs' = runs /\ evaluations' = evaluations
      /\ history' = history /\ commits' = commits
  BY DEF tables
<1> QED BY <1>1 DEF QueriesInv

LEMMA StillAskedKeeps ==
  ASSUME RecordInv, QueriesInv, NEW fetches, NEW r \in Requests
  PROVE  Faithful(StillAsked(fetches)[r], contribution, runs, evaluations, history, commits)
<1>1. commits \in Nat
  BY DEF RecordInv, RecordTypes
<1>2. Faithful(Unused, contribution, runs, evaluations, history, commits)
  BY <1>1, UnusedFaithful
<1>3. Faithful(request[r], contribution, runs, evaluations, history, commits)
  BY DEF QueriesInv
<1>4. StillAsked(fetches)[r] = Unused \/ StillAsked(fetches)[r] = request[r]
  BY DEF StillAsked
<1> QED BY <1>2, <1>3, <1>4

LEMMA UnmountKeeps ==
  ASSUME RecordInv, QueriesInv, Unmount, UNCHANGED tables
  PROVE  QueriesInv'
<1>1. request' = StillAsked(Cleanup(fetch))
  BY DEF Unmount
<1>2. request' = [r \in Requests |-> request'[r]]
  BY <1>1 DEF StillAsked
<1>3. \A r \in Requests :
        Faithful(request'[r], contribution, runs, evaluations, history, commits)
  BY <1>1, StillAskedKeeps
<1> QED BY <1>2, <1>3, RequestsKeep

LEMMA SettleReads ==
  ASSUME RecordInv, QueriesInv, NEW g, NEW to, Settle(g, to)
  PROVE  QueriesInv'
<1>1. /\ request' = [r \in Requests |-> IF r[1] = g THEN Unused ELSE request[r]]
      /\ UNCHANGED tables
  BY DEF Settle
<1>2. commits \in Nat
  BY DEF RecordInv, RecordTypes
<1>3. request' = [r \in Requests |-> request'[r]]
  BY <1>1
<1>4. \A r \in Requests :
        Faithful(request'[r], contribution, runs, evaluations, history, commits)
  BY <1>1, <1>2, UnusedFaithful DEF QueriesInv
<1> QED BY <1>1, <1>3, <1>4, RequestsKeep

\* A tab is at a pull request of the repository, or at none.
PlaceInv == tab.place.page = "contribution" => tab.place.pr \in PullRequests

LEMMA QuestionsFaithful ==
  ASSUME RecordInv, PlaceInv, NEW i \in DOMAIN Questions(tab.place)
  PROVE  Faithful(Questions(tab.place)[i], contribution, runs, evaluations, history, commits)
<1>1. commits \in Nat
  BY DEF RecordInv, RecordTypes
<1>2. /\ Faithful(Question("overview", None), contribution, runs, evaluations, history, commits)
      /\ Faithful(Question("dashboard", None), contribution, runs, evaluations, history, commits)
      /\ Faithful(Question("attention", None), contribution, runs, evaluations, history, commits)
  BY <1>1, QuestionFaithful DEF AboutOne
<1>3. CASE tab.place.page = "contribution"
  <2>1. /\ Faithful(Question("detail", tab.place.pr), contribution, runs, evaluations, history, commits)
        /\ Faithful(Question("trail", tab.place.pr), contribution, runs, evaluations, history, commits)
    BY <1>1, <1>3, QuestionFaithful DEF AboutOne, PlaceInv
  <2>2. Questions(tab.place) = <<Question("detail", tab.place.pr), Question("trail", tab.place.pr)>>
    BY <1>3 DEF Questions
  <2> QED BY <2>1, <2>2
<1>4. CASE tab.place.page = "repository"
  <2>1. Questions(tab.place) = <<Question("overview", None), Question("dashboard", None)>>
    BY <1>4 DEF Questions
  <2> QED BY <2>1, <1>2
<1>5. CASE tab.place.page = "attention"
  <2>1. Questions(tab.place) = <<Question("attention", None)>>
    BY <1>5 DEF Questions
  <2> QED BY <2>1, <1>2
<1>6. CASE tab.place.page \notin {"contribution", "repository", "attention"}
  <2>1. Questions(tab.place) = <<>>
    BY <1>6 DEF Questions
  <2> QED BY <2>1
<1> QED BY <1>3, <1>4, <1>5, <1>6

LEMMA EffectReads ==
  ASSUME RecordInv, QueriesInv, PlaceInv, Effect
  PROVE  QueriesInv'
<1>1. UNCHANGED tables
  BY DEF Effect
<1> DEFINE going == Cleanup(fetch)
           questions == Questions(tab.place)
<1>2. \/ request' = StillAsked(going)
      \/ \E g \in Rounds :
           request' = [r \in Requests |->
             IF r[1] = g /\ r[2] \in DOMAIN questions THEN questions[r[2]]
             ELSE StillAsked(going)[r]]
  BY Zenon DEF Effect
<1>3. CASE request' = StillAsked(going)
  <2>1. request' = [r \in Requests |-> request'[r]]
    BY <1>3 DEF StillAsked
  <2>2. \A r \in Requests :
          Faithful(request'[r], contribution, runs, evaluations, history, commits)
    BY <1>3, StillAskedKeeps
  <2> QED BY <1>1, <2>1, <2>2, RequestsKeep
<1>4. ASSUME NEW g \in Rounds,
             request' = [r \in Requests |->
               IF r[1] = g /\ r[2] \in DOMAIN questions THEN questions[r[2]]
               ELSE StillAsked(going)[r]]
      PROVE  QueriesInv'
  <2> HIDE DEF going, questions
  <2>1. request' = [r \in Requests |-> request'[r]]
    BY <1>4
  <2>2. ASSUME NEW r \in Requests
        PROVE  Faithful(request'[r], contribution, runs, evaluations, history, commits)
    <3>1. CASE r[1] = g /\ r[2] \in DOMAIN questions
      <4>1. request'[r] = questions[r[2]]
        BY <3>1, <1>4
      <4> QED BY <4>1, <3>1, QuestionsFaithful DEF questions
    <3>2. CASE ~(r[1] = g /\ r[2] \in DOMAIN questions)
      <4>1. request'[r] = StillAsked(going)[r]
        BY <3>2, <1>4
      <4> QED BY <4>1, StillAskedKeeps
    <3> QED BY <3>1, <3>2
  <2> QED BY <1>1, <2>1, <2>2, RequestsKeep
<1> QED BY <1>2, <1>3, <1>4

LEMMA ServeReads ==
  ASSUME RecordInv, QueriesInv, NEW r \in Requests, Serve(r)
  PROVE  QueriesInv'
<1>1. QueryStep(r) /\ UNCHANGED tables
  BY DEF Serve
<1>2. \A s \in Requests : Faithful(request[s], contribution, runs, evaluations, history, commits)
  BY DEF QueriesInv
<1>3. Faithful(request'[r], contribution, runs, evaluations, history, commits)
  BY <1>1, FindKeeps, SelectKeeps DEF QueryStep
<1>4. /\ request' = [s \in Requests |-> request'[s]]
      /\ \A s \in Requests \ {r} : request'[s] = request[s]
  BY <1>1 DEF QueryStep, FindContributions, Select, QueriesInv
<1>5. \A s \in Requests : Faithful(request'[s], contribution, runs, evaluations, history, commits)
  BY <1>2, <1>3, <1>4
<1> QED BY <1>1, <1>4, <1>5, RequestsKeep

\* What a tab and its requests rely on.
AnswersInv == PagesInv /\ RecordInv /\ PlaceInv /\ QueriesInv

LEMMA AnswersInit == Init => AnswersInv
<1> SUFFICES ASSUME Init PROVE AnswersInv
  OBVIOUS
<1>1. RecordInit /\ QueriesInit /\ tab = Mounted(Home)
  BY DEF Init
<1>2. PagesInv /\ RecordInv
  BY <1>1, PagesInit, InitRecord
<1>3. PlaceInv
  BY <1>1 DEF PlaceInv, Mounted, Home, Place
<1>4. commits \in Nat
  BY <1>2 DEF RecordInv, RecordTypes
<1>5. QueriesInv
  BY <1>1, <1>4, UnusedFaithful DEF QueriesInit, QueriesInv
<1> QED BY <1>2, <1>3, <1>5 DEF AnswersInv

\* The place of a tab: it is kept, an address, or another page of the queue.
LEMMA PlaceKeeps ==
  ASSUME PagesInv, PlaceInv, [Next]_vars
  PROVE  PlaceInv'
<1> DEFINE Placed(place) == place.page = "contribution" => place.pr \in PullRequests
<1>1. ASSUME NEW place \in Addresses PROVE Placed(place)
  <2>1. \/ \E p \in PullRequests : place = Place("contribution", p, 1, "")
        \/ place \in {Place("home", None, 1, ""), Place("repository", None, 1, ""),
                     Place("attention", None, 1, ""), Place("invalid", None, 1, "")}
    BY DEF Addresses, Home
  <2>2. ASSUME NEW page, NEW pr, page = "contribution" => pr \in PullRequests,
               place = Place(page, pr, 1, "")
        PROVE  Placed(place)
    BY <2>2 DEF Place
  <2>3. ASSUME NEW page \in {"home", "repository", "attention", "invalid"},
               place = Place(page, None, 1, "")
        PROVE  Placed(place)
    BY <2>3, <2>2
  <2> HIDE DEF Placed
  <2> QED BY <2>1, <2>2, <2>3
<1>2. \A place : Mounted(place).place = place
  BY DEF Mounted
<1>3. ASSUME NEW place \in Addresses, Navigate(place) PROVE PlaceInv'
  <2>1. tab'.place = place
    <3>1. CASE tab' = [tab EXCEPT !.place = place]
      BY <3>1 DEF PagesInv, Shapes
    <3>2. CASE tab' = Mounted(place)
      BY <3>2, <1>2
    <3> QED BY <3>1, <3>2, <1>3 DEF Navigate
  <2> QED BY <2>1, <1>1 DEF PlaceInv
<1>4. ASSUME NEW place, Turn(place), place.page = tab.place.page PROVE PlaceInv'
  <2>1. tab' = [tab EXCEPT !.place = place] /\ tab.place.page = "attention"
    BY <1>4 DEF Turn
  <2>2. tab'.place = place
    BY <2>1 DEF PagesInv, Shapes
  <2> QED BY <2>1, <2>2, <1>4 DEF PlaceInv
<1>5. ASSUME tab'.place = tab.place PROVE PlaceInv'
  BY <1>5 DEF PlaceInv
<1>6. ASSUME tab'.place = Home PROVE PlaceInv'
  <2>1. Home.page # "contribution"
    BY DEF Home, Place
  <2> QED BY <2>1, <1>6 DEF PlaceInv
<1>7. CASE Effect
  <2>1. \/ tab' = [tab EXCEPT !.ran = tab.place, !.loading = FALSE, !.error = TRUE]
        \/ tab' = [tab EXCEPT !.ran = tab.place, !.loading = TRUE, !.error = FALSE]
    BY <1>7, Zenon DEF Effect
  <2>2. tab'.place = tab.place
    BY <2>1 DEF PagesInv, Shapes
  <2> QED BY <2>2, <1>5
<1>8. CASE \E g \in Rounds : Succeed(g)
  <2>1. PICK g \in Rounds : Succeed(g)
    BY <1>8
  <2>2. PICK total : total = TotalPages(fetch[g], <<g, 1>>)
    OBVIOUS
  <2>3. tab' = [tab EXCEPT !.shown = fetch[g], !.loading = FALSE, !.totalPages = total]
    BY <2>1, <2>2 DEF Succeed, Settle
  <2>4. tab'.place = tab.place
    BY <2>3 DEF PagesInv, Shapes
  <2> QED BY <2>4, <1>5
<1>9. CASE \E g \in Rounds : Fail(g)
  <2>1. tab' = [tab EXCEPT !.error = TRUE, !.loading = FALSE]
    BY <1>9 DEF Fail, Settle
  <2>2. tab'.place = tab.place
    BY <2>1 DEF PagesInv, Shapes
  <2> QED BY <2>2, <1>5
<1>10. CASE \E r \in Requests : Serve(r)
  BY <1>10, <1>5 DEF Serve, parts
<1>11. CASE \E actor \in {"", "MAINTAINER"} : Filter(actor)
  <2>1. PICK actor \in {"", "MAINTAINER"} : Filter(actor)
    BY <1>11
  <2>2. PICK place : place = [tab.place EXCEPT !.actor = actor, !.number = 1]
    OBVIOUS
  <2>3. Turn(place) /\ place.page = tab.place.page
    BY <2>1, <2>2 DEF Filter, PagesInv, Shapes
  <2> QED BY <2>3, <1>4
<1>12. CASE NextPage
  <2>1. PICK place : place = [tab.place EXCEPT !.number = @ + 1]
    OBVIOUS
  <2>2. Turn(place) /\ place.page = tab.place.page
    BY <1>12, <2>1 DEF NextPage, PagesInv, Shapes
  <2> QED BY <2>2, <1>4
<1>13. CASE PreviousPage
  <2>1. PICK number : number = Max({1, tab.place.number - 1})
    OBVIOUS
  <2>2. PICK place : place = [tab.place EXCEPT !.number = number]
    OBVIOUS
  <2>3. Turn(place)
    BY <1>13, <2>1, <2>2 DEF PreviousPage
  <2>4. place.page = tab.place.page
    BY <2>2 DEF PagesInv, Shapes
  <2> QED BY <2>3, <2>4, <1>4
<1>14. CASE SignOut
  BY <1>14, <1>2, <1>5 DEF SignOut
<1>15. CASE Load
  BY <1>15, <1>2, <1>5, <1>6 DEF Load
<1>16. CASE Refreshed
  BY <1>16, <1>5 DEF Refreshed
<1>17. CASE SessionExpires
  BY <1>17, <1>5 DEF SessionExpires
<1>18. CASE GoesOnRecord
  BY <1>18, <1>5 DEF GoesOnRecord, parts
<1>19. CASE UNCHANGED vars
  BY <1>19, <1>5 DEF vars, parts
<1> QED
  BY <1>3, <1>7, <1>8, <1>9, <1>10, <1>11, <1>12, <1>13, <1>14, <1>15, <1>16, <1>17, <1>18, <1>19
  DEF Next, Progress, TabStep, UserStep, Answer

LEMMA RecordSame ==
  ASSUME RecordInv, UNCHANGED tables
  PROVE  RecordInv'
BY DEF tables, RecordInv, RecordTypes, RecordIsWhole, HistoryIsChain, DriftIsAgainstRecord,
   EvidenceIsNewest, LatestState

LEMMA QueriesStep ==
  ASSUME RecordInv, PlaceInv, QueriesInv, [Next]_vars
  PROVE  RecordInv' /\ QueriesInv'
<1>1. ASSUME UNCHANGED tables, request' = request PROVE RecordInv' /\ QueriesInv'
  <2>1. RecordInv'
    BY <1>1, RecordSame
  <2>2. /\ contribution' = contribution /\ runs' = runs /\ evaluations' = evaluations
        /\ history' = history /\ commits' = commits
    BY <1>1 DEF tables
  <2> QED BY <2>1, <2>2, <1>1 DEF QueriesInv
<1>2. ASSUME UNCHANGED tables, QueriesInv' PROVE RecordInv' /\ QueriesInv'
  BY <1>2, RecordSame
<1>3. CASE Effect
  <2>1. UNCHANGED tables /\ QueriesInv'
    BY <1>3, EffectReads DEF Effect
  <2> QED BY <2>1, <1>2
<1>4. CASE \E g \in Rounds : Succeed(g) \/ Fail(g)
  <2>1. PICK g \in Rounds : Succeed(g) \/ Fail(g)
    BY <1>4
  <2>2. PICK to : Settle(g, to)
    BY <2>1 DEF Succeed, Fail
  <2>3. UNCHANGED tables /\ QueriesInv'
    BY <2>2, SettleReads DEF Settle
  <2> QED BY <2>3, <1>2
<1>5. CASE \E r \in Requests : Serve(r)
  <2>1. UNCHANGED tables /\ QueriesInv'
    BY <1>5, ServeReads DEF Serve
  <2> QED BY <2>1, <1>2
<1>6. ASSUME Unmount, UNCHANGED tables PROVE RecordInv' /\ QueriesInv'
  BY <1>6, <1>2, UnmountKeeps
<1>7. CASE \E place \in Addresses : Navigate(place)
  BY <1>7, <1>1, <1>6 DEF Navigate
<1>8. ASSUME NEW place, Turn(place) PROVE RecordInv' /\ QueriesInv'
  BY <1>8, <1>1 DEF Turn
<1>9. CASE (\E actor \in {"", "MAINTAINER"} : Filter(actor)) \/ NextPage \/ PreviousPage
  BY <1>9, <1>8 DEF Filter, NextPage, PreviousPage
<1>10. CASE SignOut
  BY <1>10, <1>1, <1>6 DEF SignOut
<1>11. CASE Load
  BY <1>11, <1>6 DEF Load
<1>12. CASE Refreshed \/ SessionExpires
  BY <1>12, <1>1 DEF Refreshed, SessionExpires
<1>13. CASE GoesOnRecord
  <2>1. RecordNext /\ request' = request
    BY <1>13 DEF GoesOnRecord, RecordNext
  <2> QED BY <2>1, RecordStep, GrowthKeeps
<1>14. CASE UNCHANGED vars
  BY <1>14, <1>1 DEF vars
<1> QED
  BY <1>3, <1>4, <1>5, <1>7, <1>9, <1>10, <1>11, <1>12, <1>13, <1>14
  DEF Next, Progress, TabStep, UserStep, Answer

\* Whatever a request reads is read of the record, and the record only grows.
THEOREM AnswersInvariant == Spec => []AnswersInv
<1>1. Init => AnswersInv
  BY AnswersInit
<1>2. AnswersInv /\ [Next]_vars => AnswersInv'
  <2> SUFFICES ASSUME AnswersInv, [Next]_vars PROVE AnswersInv'
    OBVIOUS
  <2>1. PagesInv'
    BY PagesNext DEF AnswersInv
  <2>2. PlaceInv'
    BY PlaceKeeps DEF AnswersInv
  <2>3. RecordInv' /\ QueriesInv'
    BY QueriesStep DEF AnswersInv
  <2> QED BY <2>1, <2>2, <2>3 DEF AnswersInv
<1> QED BY <1>1, <1>2, PTL DEF Spec

\* An answered request, for the theorems.
LEMMA AnsweredIs ==
  ASSUME AnswersInv, NEW r \in Requests, Answered(r), NEW q, q = request[r]
  PROVE  /\ Posed(q, commits) /\ Listing(q, runs) /\ Belonging(q) /\ q.left = {}
         /\ q.asked = commits => AsOnRecord(q, contribution, runs, evaluations, history)
         /\ \A p \in DOMAIN q.rows : p \in PullRequests /\ StoredSnapshot(p) # None
         /\ q.kind = "trail" => DOMAIN q.found = TrailLists
         /\ q.kind # "trail" => DOMAIN q.found = DOMAIN q.rows
<1>1. /\ Posed(q, commits) /\ Listing(q, runs) /\ Belonging(q) /\ q.left = {}
      /\ q.asked = commits => AsOnRecord(q, contribution, runs, evaluations, history)
  BY DEF Answered, AnswersInv, QueriesInv, Faithful
<1>2. \A p \in DOMAIN q.rows : p \in PullRequests /\ StoredSnapshot(p) # None
  BY <1>1 DEF Listing, AnswersInv, RecordInv, RecordIsWhole, StoredSnapshot
<1> QED BY <1>1, <1>2 DEF Belonging

\* Nothing a request shows together is of an earlier reconciliation than the row shown
\* with it, however reconciliations go on record between its statements, and nothing
\* that was on record when it was asked is missing.
THEOREM AnswersStayCurrent == Spec => []AnswersAreCurrent
<1>1. ASSUME AnswersInv PROVE AnswersAreCurrent
  <2> USE RecordAssumption DEF RecordAssumption
  <2> SUFFICES ASSUME NEW r \in Requests, Answered(r), NEW q, q = request[r]
               PROVE  /\ \A p \in DOMAIN q.rows :
                           IF q.kind = "trail"
                           THEN /\ q.found["runs"] # <<>>
                                /\ q.rows[p].stamp <= Head(q.found["runs"]).stamp
                           ELSE q.found[p] # None /\ q.rows[p].stamp <= q.found[p].stamp
                      /\ \A p \in PullRequests : \A i \in DOMAIN runs[p] :
                           runs[p][i].commit <= q.asked /\ q.pr \in {None, p} =>
                             p \in DOMAIN q.rows /\ runs[p][i].stamp <= q.rows[p].stamp
    BY DEF AnswersAreCurrent
  <2>1. /\ Posed(q, commits) /\ Listing(q, runs) /\ Belonging(q) /\ q.left = {}
        /\ q.kind # "trail" => DOMAIN q.found = DOMAIN q.rows
    BY <1>1, AnsweredIs
  <2>2. ASSUME NEW p \in DOMAIN q.rows, q.kind = "trail"
        PROVE  q.found["runs"] # <<>> /\ q.rows[p].stamp <= Head(q.found["runs"]).stamp
    <3>1. q.pr \in PullRequests /\ q.pr \in {None, p}
      BY <2>1, <2>2 DEF Posed, Listing, AboutOne
    <3>2. q.pr = p
      BY <3>1
    <3> QED BY <3>2, <2>1, <2>2 DEF Belonging
  <2>3. ASSUME NEW p \in DOMAIN q.rows, q.kind # "trail"
        PROVE  q.found[p] # None /\ q.rows[p].stamp <= q.found[p].stamp
    <3>1. q.found[p] \in EvaluationRows /\ q.rows[p].stamp <= q.found[p].stamp
      BY <2>1, <2>3 DEF Belonging
    <3>2. None \notin EvaluationRows
      BY QueriesAssumption DEF QueriesAssumption, EvaluationRows, Verdicts
    <3> QED BY <3>1, <3>2
  <2>4. \A p \in PullRequests : \A i \in DOMAIN runs[p] :
          runs[p][i].commit <= q.asked /\ q.pr \in {None, p} =>
            p \in DOMAIN q.rows /\ runs[p][i].stamp <= q.rows[p].stamp
    BY <2>1 DEF Listing
  <2> QED BY <2>2, <2>3, <2>4
<1> QED BY <1>1, AnswersInvariant, PTL

\* The rows an answered request shows can be put in order.
LEMMA ShownComparable ==
  ASSUME AnswersInv, NEW r \in Requests, Answered(r)
  PROVE  Comparable(ShownRows(request[r]))
<1>1. PICK q : q = request[r]
  OBVIOUS
<1>2. PICK D : D = DOMAIN q.rows
  OBVIOUS
<1>3. Listing(q, runs)
  BY <1>1, AnsweredIs
<1>4. D \in SUBSET PullRequests /\ IsFiniteSet(D)
  <2>1. D \in SUBSET PullRequests
    BY <1>2, <1>3 DEF Listing
  <2> QED BY <2>1, FS_Subset, QueriesAssumption DEF QueriesAssumption
<1>5. \A p \in D : Shown(q, p).pr = p /\ Shown(q, p).updated = q.rows[p].updated
  BY DEF Shown
<1>6. PICK f : f = [p \in D |-> Shown(q, p)]
  OBVIOUS
<1>7. ShownRows(q) = {f[p] : p \in D}
  BY <1>2, <1>6 DEF ShownRows
<1>8. \A p \in D : f[p].pr = p /\ f[p].updated = q.rows[p].updated
  BY <1>5, <1>6
<1>9. IsFiniteSet(ShownRows(q))
  <2>1. \A c \in ShownRows(q) : \E p \in D : f[p] = c
    BY <1>7
  <2>2. \A p \in D : f[p] \in ShownRows(q)
    BY <1>7
  <2>3. \A x, y \in D : f[x] = f[y] => x = y
    BY <1>8
  <2> QED BY <1>4, <2>1, <2>2, <2>3, SameCount
<1>10. \A p \in D : p \in Nat /\ q.rows[p].updated \in Nat
  BY <1>2, <1>3, <1>4, QueriesAssumption DEF Listing, QueriesAssumption
<1>11. \A c \in ShownRows(q) : c.updated \in Nat /\ c.pr \in Nat
  BY <1>7, <1>8, <1>10
<1>12. \A c, d \in ShownRows(q) : c.pr = d.pr => c = d
  BY <1>7, <1>8
<1> QED BY <1>1, <1>9, <1>11, <1>12 DEF Comparable

\* Page by page the attention queue is one list, in the order of urgency, age and
\* number, of the contributions that wait and match the filters, each once: for any
\* number of contributions, the filters they can match and any size of the pages, in
\* whatever order the database gives the rows for each page.
THEOREM PagesShowTheQueue == Spec => []PagesPartitionQueue
<1>1. ASSUME AnswersInv PROVE PagesPartitionQueue
  <2> SUFFICES ASSUME NEW r \in Requests, Answered(r), NEW rows, rows = ShownRows(request[r]),
                      NEW filters \in FiltersOver(rows), NEW size \in 1 .. Cardinality(rows),
                      NEW order \in [1 .. Cardinality(rows) -> SetToSeqs(rows)]
               PROVE  LET pages == QueuePage(order[1], filters, 1, size).totalPages
                          items == [page \in 1 .. pages |->
                                      QueuePage(order[page], filters, page, size).items]
                      IN  /\ \A page \in 1 .. pages : \A other \in page .. pages :
                               LET here == items[page]
                                   there == items[other]
                               IN  \A i \in DOMAIN here, j \in DOMAIN there :
                                     page < other \/ i < j => Outranks(here[i], there[j])
                          /\ UNION {ToSet(items[page]) : page \in 1 .. pages}
                               = {c \in rows : /\ c.workflowState \notin TerminalStates
                                               /\ \A f \in Filters : filters[f] \in {"", c[f]}}
    BY DEF PagesPartitionQueue
  <2> DEFINE pages == QueuePage(order[1], filters, 1, size).totalPages
             items == [page \in 1 .. pages |-> QueuePage(order[page], filters, page, size).items]
  <2>1. Comparable(rows)
    BY <1>1, ShownComparable
  <2>2. Cardinality(rows) \in Nat /\ size \in Nat \ {0} /\ order[1] \in SetToSeqs(rows)
    <3>1. Cardinality(rows) \in Nat
      BY <2>1, FS_CardinalityType DEF Comparable
    <3> QED BY <3>1
  <2>3. Waiting(rows, filters) = {c \in rows : /\ c.workflowState \notin TerminalStates
                                               /\ \A f \in Filters : filters[f] \in {"", c[f]}}
    <3>1. \A c \in rows : Waits(c, filters) <=> /\ c.workflowState \notin TerminalStates
                                                /\ \A f \in Filters : filters[f] \in {"", c[f]}
      BY Zenon DEF Waits, MatchesFilters
    <3> QED BY <3>1, Zenon DEF Waiting
  <2>4. PICK n : n = Cardinality(Waiting(rows, filters))
    OBVIOUS
  <2>5. n \in Nat /\ pages = (n + size - 1) \div size
    <3>1. PICK first \in SetToSeqs(rows) : first = order[1]
      BY <2>2
    <3>2. HasLength(first, filters, n)
      BY <2>1, <2>4, QueueLength
    <3>3. n \in Nat
      BY <2>1, <2>4, WaitingCount
    <3> QED BY <3>1, <3>2, <3>3 DEF HasLength
  <2>6. items = Items(order, filters, size, pages)
    BY DEF Items
  <2> HIDE DEF pages, items
  <2>7. pages \in Nat /\ Tiled(n, size, pages)
    BY <2>2, <2>5, PagesCover
  <2>8. OneList(items, pages, Waiting(rows, filters))
    BY <2>1, <2>2, <2>4, <2>6, <2>7, PagesOfQueue
  <2>9. ASSUME NEW page \in 1 .. pages, NEW other \in page .. pages,
               NEW i \in DOMAIN items[page], NEW j \in DOMAIN items[other],
               page < other \/ i < j
        PROVE  Outranks(items[page][i], items[other][j])
    <3>1. other \in 1 .. pages /\ (page < other \/ (page = other /\ i < j))
      BY <2>7, <2>9
    <3> QED BY <2>8, <3>1 DEF OneList
  <2>10. UNION {ToSet(items[page]) : page \in 1 .. pages}
           = {c \in rows : /\ c.workflowState \notin TerminalStates
                           /\ \A f \in Filters : filters[f] \in {"", c[f]}}
    BY <2>3, <2>8 DEF OneList
  <2> QED BY <2>9, <2>10 DEF pages, items
<1> QED BY <1>1, AnswersInvariant, PTL

-----------------------------------------------------------------------------
(* The dashboard *)

\* Who acts next tells which contributions are over; a verdict that is ambiguous in its
\* readiness is ambiguous in its state.
LEMMA TurnsAre ==
  ASSUME NEW v \in Verdicts
  PROVE  /\ v.workflowState \in TerminalStates => v.nextActor = "NONE"
         /\ v.workflowState \notin TerminalStates =>
              v.nextActor \in {"MAINTAINER", "AUTHOR", "CI", "UNKNOWN"}
         /\ v.readiness = "AMBIGUOUS" => v.workflowState = "AMBIGUOUS"
<1>1. v \in KnownVerdicts
  BY VerdictsAreKnown, RecordAssumption DEF Verdicts, RecordAssumption
<1> QED BY <1>1 DEF KnownVerdicts, Verdict, AuthorsTurn, Ambiguous, TerminalStates

LEMMA TwoParts ==
  ASSUME NEW S, IsFiniteSet(S), NEW A, NEW B,
         A \union B = S, A \intersect B = {}
  PROVE  /\ IsFiniteSet(A) /\ IsFiniteSet(B)
         /\ Cardinality(A) \in Nat /\ Cardinality(B) \in Nat
         /\ Cardinality(A) + Cardinality(B) = Cardinality(S)
<1>1. A \in SUBSET S /\ B \in SUBSET S
  OBVIOUS
<1>2. IsFiniteSet(A) /\ IsFiniteSet(B)
  BY <1>1, FS_Subset
<1>3. Cardinality(A \union B) = Cardinality(A) + Cardinality(B) - Cardinality(A \intersect B)
  BY <1>2, FS_Union
<1>4. Cardinality({}) = 0
  BY FS_EmptySet
<1>5. Cardinality(A) \in Nat /\ Cardinality(B) \in Nat
  BY <1>2, FS_CardinalityType
<1>6. Cardinality(A \intersect B) = 0 /\ Cardinality(A \union B) = Cardinality(S)
  BY <1>4
<1> QED BY <1>2, <1>3, <1>5, <1>6

\* The rows have the turns of verdicts.
Judged(C) ==
  \A c \in C : /\ c.workflowState \in TerminalStates => c.nextActor = "NONE"
               /\ c.workflowState \notin TerminalStates =>
                    c.nextActor \in {"MAINTAINER", "AUTHOR", "CI", "UNKNOWN"}
               /\ c.readiness = "AMBIGUOUS" => c.workflowState = "AMBIGUOUS"

\* The counts of the dashboard over such rows.
LEMMA CountsAgree ==
  ASSUME NEW C, IsFiniteSet(C), Judged(C), NEW counts, counts = Dashboard(C)
  PROVE  /\ counts.contributions = Cardinality(C)
         /\ counts.active + counts.terminal = counts.contributions
         /\ counts.maintainerAction + counts.authorAction + counts.ciAction
              + counts.unknownAction = counts.active
         /\ counts.ambiguous <= counts.blocked
<1> DEFINE Active == {c \in C : c.workflowState \notin TerminalStates}
           Over == {c \in C : c.workflowState \in TerminalStates}
           Maintainers == {c \in C : c.nextActor = "MAINTAINER"}
           Authors == {c \in C : c.nextActor = "AUTHOR"}
           Checks == {c \in C : c.nextActor = "CI"}
           Unknown == {c \in C : c.nextActor \notin KnownActors}
           Unclear == {c \in C : "AMBIGUOUS" \in {c.workflowState, c.readiness}}
           Blocked == {c \in C : IsBlocked(c)}
<1>1. /\ counts.contributions = Cardinality(C)
      /\ counts.active = Cardinality(Active) /\ counts.terminal = Cardinality(Over)
      /\ counts.maintainerAction = Cardinality(Maintainers)
      /\ counts.authorAction = Cardinality(Authors) /\ counts.ciAction = Cardinality(Checks)
      /\ counts.unknownAction = Cardinality(Unknown)
      /\ counts.ambiguous = Cardinality(Unclear) /\ counts.blocked = Cardinality(Blocked)
  BY DEF Dashboard
<1>2. Active \union Over = C /\ Active \intersect Over = {}
  OBVIOUS
<1>3. PICK M, A, K, U : M = Maintainers /\ A = Authors /\ K = Checks /\ U = Unknown
  OBVIOUS
<1>4. PICK Y : Y = K \union U
  OBVIOUS
<1>5. PICK X : X = A \union Y
  OBVIOUS
<1>6. /\ M \union X = Active /\ M \intersect X = {}
      /\ A \union Y = X /\ A \intersect Y = {}
      /\ K \union U = Y /\ K \intersect U = {}
  BY <1>3, <1>4, <1>5 DEF Judged, KnownActors, TerminalStates
<1>7. Unclear \in SUBSET Blocked
  BY DEF Judged, IsBlocked, BlockedStates
<1>8. Blocked \in SUBSET C
  OBVIOUS
<1> HIDE DEF Active, Over, Maintainers, Authors, Checks, Unknown, Unclear, Blocked
<1>9. /\ IsFiniteSet(Active)
      /\ Cardinality(Active) + Cardinality(Over) = Cardinality(C)
  BY <1>2, TwoParts
<1>10. /\ IsFiniteSet(X) /\ Cardinality(M) \in Nat /\ Cardinality(X) \in Nat
      /\ Cardinality(M) + Cardinality(X) = Cardinality(Active)
  BY <1>6, <1>9, TwoParts
<1>11. /\ IsFiniteSet(Y) /\ Cardinality(A) \in Nat /\ Cardinality(Y) \in Nat
      /\ Cardinality(A) + Cardinality(Y) = Cardinality(X)
  BY <1>6, <1>10, TwoParts
<1>12. /\ Cardinality(K) \in Nat /\ Cardinality(U) \in Nat
       /\ Cardinality(K) + Cardinality(U) = Cardinality(Y)
  BY <1>6, <1>11, TwoParts
<1>13. Cardinality(M) + Cardinality(A) + Cardinality(K) + Cardinality(U) = Cardinality(Active)
  BY <1>10, <1>11, <1>12
<1>14. Cardinality(Unclear) <= Cardinality(Blocked)
  <2>1. IsFiniteSet(Blocked)
    BY <1>8, FS_Subset
  <2> QED BY <2>1, <1>7, FS_Subset
<1> QED BY <1>1, <1>3, <1>9, <1>13, <1>14

\* What an answered request shows of a contribution is a verdict.
LEMMA ShownIs ==
  ASSUME AnswersInv, NEW r \in Requests, Answered(r), NEW q, q = request[r],
         q.kind # "trail", NEW p \in DOMAIN q.rows
  PROVE  /\ q.found[p].verdict \in Verdicts
         /\ Shown(q, p).pr = p /\ Shown(q, p).reconciled = q.rows[p].stamp
         /\ Shown(q, p).workflowState = q.found[p].verdict.workflowState
         /\ Shown(q, p).nextActor = q.found[p].verdict.nextActor
         /\ Shown(q, p).readiness = q.found[p].verdict.readiness
<1>1. q.found[p] \in EvaluationRows
  BY AnsweredIs DEF Belonging
<1>2. q.found[p] # None
  BY <1>1, QueriesAssumption DEF QueriesAssumption, EvaluationRows, Verdicts
<1>3. q.found[p].verdict \in Verdicts
  BY <1>1 DEF EvaluationRows
<1> QED BY <1>2, <1>3 DEF Shown

\* What is on record shows itself in a quiet answer.
LEMMA ShownOnRecord ==
  ASSUME AnswersInv, NEW r \in Requests, Quiet(r), NEW q, q = request[r],
         q.kind # "trail", NEW p \in DOMAIN q.rows
  PROVE  p \in DOMAIN AtOnce.rows /\ Shown(q, p) = Shown(AtOnce, p)
<1>1. Answered(r) /\ q.asked = commits
  BY DEF Quiet
<1>2. p \in PullRequests /\ StoredSnapshot(p) # None
  BY <1>1, AnsweredIs
<1>3. AsOnRecord(q, contribution, runs, evaluations, history) /\ DOMAIN q.found = DOMAIN q.rows
  BY <1>1, AnsweredIs
<1>4. q.rows[p] = contribution[p] /\ q.found[p] = Final(evaluations[p])
  BY <1>3 DEF AsOnRecord
<1>5. LatestEvaluation(p) = Final(evaluations[p])
  BY <1>2, OnRecord DEF AnswersInv
<1>6. p \in Listed(None)
  BY <1>2 DEF Listed
<1>7. /\ p \in DOMAIN AtOnce.rows
      /\ AtOnce.rows[p] = contribution[p] /\ AtOnce.found[p] = LatestEvaluation(p)
  BY <1>6 DEF AtOnce
<1> QED BY <1>4, <1>5, <1>7 DEF Shown

\* A quiet answer about all contributions shows the rows on record.
LEMMA RowsOnRecord ==
  ASSUME AnswersInv, NEW r \in Requests, Quiet(r), NEW q, q = request[r],
         q.kind \notin AboutOne
  PROVE  ShownRows(q) = ShownRows(AtOnce)
<1>1. Answered(r) /\ q.asked = commits /\ q.kind # "trail"
  BY DEF Quiet, AboutOne
<1>2. q.pr = None /\ AsOnRecord(q, contribution, runs, evaluations, history)
  BY <1>1, AnsweredIs DEF Posed
<1>3. DOMAIN q.rows = {p \in PullRequests : StoredSnapshot(p) # None}
  BY <1>2 DEF AsOnRecord, StoredSnapshot
<1>4. DOMAIN AtOnce.rows = {p \in PullRequests : StoredSnapshot(p) # None}
  BY DEF AtOnce, Listed
<1>5. \A p \in DOMAIN q.rows : Shown(q, p) = Shown(AtOnce, p)
  BY <1>1, ShownOnRecord
<1> QED BY <1>3, <1>4, <1>5 DEF ShownRows

LEMMA ShownJudged ==
  ASSUME AnswersInv, NEW r \in Requests, Answered(r), NEW q, q = request[r], q.kind # "trail"
  PROVE  Judged(ShownRows(q)) /\ IsFiniteSet(ShownRows(q))
<1>1. ASSUME NEW p \in DOMAIN q.rows, NEW c, c = Shown(q, p)
      PROVE  /\ c.workflowState \in TerminalStates => c.nextActor = "NONE"
             /\ c.workflowState \notin TerminalStates =>
                  c.nextActor \in {"MAINTAINER", "AUTHOR", "CI", "UNKNOWN"}
             /\ c.readiness = "AMBIGUOUS" => c.workflowState = "AMBIGUOUS"
  <2>1. PICK v \in Verdicts : v = q.found[p].verdict
    BY ShownIs
  <2>2. /\ c.workflowState = v.workflowState /\ c.nextActor = v.nextActor
        /\ c.readiness = v.readiness
    BY <2>1, <1>1, ShownIs
  <2> QED BY <2>2, TurnsAre
<1>2. Judged(ShownRows(q))
  BY <1>1 DEF Judged, ShownRows
<1> QED BY <1>2, ShownComparable DEF Comparable

\* The queue filtered for an actor lists the contributions that wait for it; without a
\* filter, all that are not over.
WaitingFor(C, actor) ==
  {c \in C : /\ c.workflowState \notin TerminalStates
             /\ actor = "" \/ c.nextActor = actor}

LEMMA TurnsAreWaiting ==
  ASSUME NEW C, Comparable(C), NEW order \in SetToSeqs(C), NEW actor
  PROVE  Turns(order, actor) = Cardinality(WaitingFor(C, actor))
<1>1. PICK filters : filters = [NoFilter EXCEPT !["nextActor"] = actor]
  OBVIOUS
<1>2. PICK n : n = Cardinality(Waiting(C, filters))
  OBVIOUS
<1>3. Turns(order, actor) = n
  <2>1. HasLength(order, filters, n)
    BY <1>2, QueueLength
  <2> QED BY <1>1, <2>1 DEF HasLength, Turns
<1>4. /\ filters["workflowState"] = "" /\ filters["readiness"] = ""
      /\ filters["nextActor"] = actor
  BY <1>1 DEF NoFilter, Filters
<1>5. \A c \in C : Waits(c, filters) <=> /\ c.workflowState \notin TerminalStates
                                         /\ actor = "" \/ c.nextActor = actor
  BY <1>4 DEF Waits, MatchesFilters, Filters
<1>6. Waiting(C, filters) = WaitingFor(C, actor)
  BY <1>5 DEF Waiting, WaitingFor
<1> QED BY <1>2, <1>3, <1>6

\* Answers that nothing went on record during show the same, whichever page asked, for
\* any number of contributions and rows: the overview, the dashboard and the attention
\* queue show the rows on record and the detail one of them; a trail ends in the state
\* and the reconciliation of its row; the dashboard's counts of the actors add up to
\* the active contributions, and the queue, whole or filtered for an actor, is as long
\* as the dashboard counts.
THEOREM PagesAlwaysAgree == Spec => []PagesAgree
<1>1. ASSUME AnswersInv PROVE PagesAgree
  <2> SUFFICES ASSUME NEW r \in Requests, Quiet(r), NEW q, q = request[r],
                      NEW rows, rows = ShownRows(AtOnce),
                      NEW counts, counts = Dashboard(rows)
               PROVE  Agrees(q, rows, counts)
    BY DEF PagesAgree
  <2>1. Answered(r) /\ q.asked = commits
    BY DEF Quiet
  <2>2. ASSUME q.kind \in {"overview", "dashboard", "attention"}
        PROVE  ShownRows(q) = rows
    <3>1. q.kind \notin AboutOne
      BY <2>2 DEF AboutOne
    <3> QED BY <1>1, <3>1, RowsOnRecord
  <2>3. ASSUME q.kind = "detail" PROVE Shown(q, q.pr) \in rows
    <3>1. q.pr \in DOMAIN q.rows
      BY <1>1, <2>1, <2>3, AnsweredIs DEF Listing, AboutOne
    <3>2. q.pr \in DOMAIN AtOnce.rows /\ Shown(q, q.pr) = Shown(AtOnce, q.pr)
      BY <1>1, <2>3, <3>1, ShownOnRecord
    <3> QED BY <3>2 DEF ShownRows
  <2>4. ASSUME q.kind = "trail"
        PROVE  /\ q.found["history"] # <<>> /\ q.found["runs"] # <<>>
               /\ \E c \in rows : /\ c.pr = q.pr
                                  /\ Head(q.found["history"]).to = c.workflowState
                                  /\ Head(q.found["runs"]).stamp = c.reconciled
    <3>1. PICK p : p = q.pr
      OBVIOUS
    <3>2. p \in DOMAIN q.rows /\ p \in PullRequests /\ StoredSnapshot(p) # None
      <4>1. p \in DOMAIN q.rows
        BY <1>1, <2>1, <2>4, <3>1, AnsweredIs DEF Listing, AboutOne
      <4> QED BY <4>1, <1>1, <2>1, AnsweredIs
    <3>3. AsOnRecord(q, contribution, runs, evaluations, history) /\ q.left = {}
      BY <1>1, <2>1, AnsweredIs
    <3>4. /\ q.found["history"] # <<>> /\ Head(q.found["history"]) = Final(history[p])
          /\ q.found["runs"] # <<>> /\ Head(q.found["runs"]) = Final(runs[p])
      BY <2>4, <3>1, <3>3 DEF AsOnRecord
    <3>5. PICK e : e = Final(evaluations[p])
      OBVIOUS
    <3>6. /\ contribution[p].stamp = Final(runs[p]).stamp
          /\ Final(history[p]).to = e.verdict.workflowState
          /\ LatestEvaluation(p) = e /\ e \in EvaluationRows
      BY <1>1, <3>2, <3>5, OnRecord DEF AnswersInv
    <3>7. e # None
      BY <3>6, QueriesAssumption DEF QueriesAssumption, EvaluationRows, Verdicts
    <3>8. PICK c : c = Shown(AtOnce, p)
      OBVIOUS
    <3>9. /\ p \in DOMAIN AtOnce.rows
          /\ AtOnce.rows[p] = contribution[p] /\ AtOnce.found[p] = e
      <4>1. p \in Listed(None)
        BY <3>2 DEF Listed
      <4> QED BY <4>1, <3>6 DEF AtOnce
    <3>10. /\ c.pr = p /\ c.workflowState = e.verdict.workflowState
           /\ c.reconciled = contribution[p].stamp
      BY <3>7, <3>8, <3>9 DEF Shown
    <3>11. c \in rows
      BY <3>8, <3>9 DEF ShownRows
    <3> QED BY <3>1, <3>4, <3>6, <3>10, <3>11
  <2>5. ASSUME q.kind = "dashboard"
        PROVE  /\ counts.active + counts.terminal = Cardinality(rows)
               /\ counts.maintainerAction + counts.authorAction + counts.ciAction
                    + counts.unknownAction = counts.active
               /\ counts.ambiguous <= counts.blocked
    <3>1. Judged(rows) /\ IsFiniteSet(rows)
      BY <1>1, <2>1, <2>2, <2>5, ShownJudged
    <3> QED BY <3>1, CountsAgree
  <2>6. ASSUME q.kind = "attention", NEW order \in SetToSeqs(ShownRows(q))
        PROVE  /\ Turns(order, "") = counts.active
               /\ Turns(order, "MAINTAINER") = counts.maintainerAction
               /\ Turns(order, "AUTHOR") = counts.authorAction
               /\ Turns(order, "CI") = counts.ciAction
    <3>1. ShownRows(q) = rows
      BY <2>2, <2>6
    <3>2. Comparable(rows) /\ Judged(rows) /\ order \in SetToSeqs(rows)
      BY <1>1, <2>1, <2>6, <3>1, ShownComparable, ShownJudged
    <3>3. /\ counts.active = Cardinality({c \in rows : c.workflowState \notin TerminalStates})
          /\ counts.maintainerAction = Cardinality({c \in rows : c.nextActor = "MAINTAINER"})
          /\ counts.authorAction = Cardinality({c \in rows : c.nextActor = "AUTHOR"})
          /\ counts.ciAction = Cardinality({c \in rows : c.nextActor = "CI"})
      BY DEF Dashboard
    <3>4. Turns(order, "") = Cardinality({c \in rows : c.workflowState \notin TerminalStates})
      <4>1. WaitingFor(rows, "") = {c \in rows : c.workflowState \notin TerminalStates}
        BY DEF WaitingFor
      <4> QED BY <3>2, <4>1, TurnsAreWaiting
    <3>5. ASSUME NEW actor, actor # "", actor # "NONE"
          PROVE  Turns(order, actor) = Cardinality({c \in rows : c.nextActor = actor})
      <4>1. WaitingFor(rows, actor) = {c \in rows : c.nextActor = actor}
        BY <3>2, <3>5 DEF Judged, WaitingFor
      <4>2. Turns(order, actor) = Cardinality(WaitingFor(rows, actor))
        BY <3>2, TurnsAreWaiting
      <4> QED BY <4>1, <4>2
    <3>6. /\ Turns(order, "MAINTAINER") = Cardinality({c \in rows : c.nextActor = "MAINTAINER"})
          /\ Turns(order, "AUTHOR") = Cardinality({c \in rows : c.nextActor = "AUTHOR"})
          /\ Turns(order, "CI") = Cardinality({c \in rows : c.nextActor = "CI"})
      BY <3>5
    <3> QED BY <3>3, <3>4, <3>6
  <2> QED BY <2>2, <2>3, <2>4, <2>5, <2>6, Zenon DEF Agrees
<1> QED BY <1>1, AnswersInvariant, PTL
=============================================================================
