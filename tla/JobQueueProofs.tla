--------------------------- MODULE JobQueueProofs ---------------------------
(***************************************************************************)
(* What TLAPS proves of JobQueue, for any number of jobs, keys, workers,    *)
(* attempts and faults.                                                     *)
(***************************************************************************)
EXTENDS JobQueue, FiniteSetTheorems, TLAPS

\* A power of two is the number of subsets of an interval, hence a natural
\* number; the provers know nothing of exponentiation itself.
LEMMA PowerOfTwo == \A k \in Nat : 2 ^ k \in Nat
<1> SUFFICES ASSUME NEW k \in Nat
             PROVE  2 ^ k \in Nat
  OBVIOUS
<1>1. IsFiniteSet(1 .. k) /\ Cardinality(1 .. k) = k
  BY FS_Interval
<1>2. IsFiniteSet(SUBSET (1 .. k)) /\ Cardinality(SUBSET (1 .. k)) = 2 ^ Cardinality(1 .. k)
  BY <1>1, FS_SUBSET
<1>3. Cardinality(SUBSET (1 .. k)) \in Nat
  BY <1>2, FS_CardinalityType
<1>4. QED
  BY <1>1, <1>2, <1>3

\* The backoff is a length of time, whatever the policy.
LEMMA DelayIsNat == \A n \in Nat : n >= 1 => Delay(n) \in Nat
<1> SUFFICES ASSUME NEW n \in Nat, n >= 1
             PROVE  Delay(n) \in Nat
  OBVIOUS
<1>1. n - 1 \in Nat
  OBVIOUS
<1>2. 2 ^ (n - 1) \in Nat
  BY <1>1, PowerOfTwo
<1>3. BaseDelay * 2 ^ (n - 1) \in Nat
  <2> DEFINE p == 2 ^ (n - 1)
  <2>1. p \in Nat
    BY <1>2
  <2> HIDE DEF p
  <2>2. BaseDelay * p \in Nat
    BY <2>1, QueueAssumption
  <2>3. QED
    BY <2>2 DEF p
<1>4. QED
  BY <1>3, QueueAssumption DEF Delay

\* The statements of the repository leave a well-formed row behind.
LEMMA StatementsKeepRows ==
  ASSUME NEW r \in Row
  PROVE  /\ Claimed(r) \in Row
         /\ Completed(r) \in Row
         /\ Dead(r) \in Row
         /\ Aged(r) \in Row
         /\ \A n \in 0 .. MaxAttempts - 1, d \in Int : Requeued(r, n, d) \in Row
<1>1. Claimed(r) \in Row
  <2>1. \A s \in Statuses, d \in Int : [r EXCEPT !.status = s, !.due = d] \in Row
    BY DEF Row
  <2>2. "CLAIMED" \in Statuses /\ 0 \in Int
    BY DEF Statuses
  <2>3. QED
    BY <2>1, <2>2 DEF Claimed
<1>2. Completed(r) \in Row /\ Dead(r) \in Row
  BY DEF Row, Completed, Dead, Statuses
<1>3. Aged(r) \in Row
  <2> DEFINE due == IF r.status = "QUEUED" /\ r.due > -Overdue THEN r.due - 1 ELSE r.due
  <2>1. due \in Int
    BY QueueAssumption DEF Row
  <2>2. Aged(r) = [r EXCEPT !.due = due]
    BY DEF Aged
  <2> HIDE DEF due
  <2>3. QED
    BY <2>1, <2>2 DEF Row
<1>4. \A n \in 0 .. MaxAttempts - 1, d \in Int : Requeued(r, n, d) \in Row
  BY DEF Row, Requeued, Statuses
<1>5. QED
  BY <1>1, <1>2, <1>3, <1>4

\* What a runner writes in its catch block is a well-formed row.
LEMMA FailureRowIsRow ==
  ASSUME TypeOK, NEW w \in Workers, runner[w].job \in Jobs
  PROVE  FailureRow(w) \in Row
<1>1. runner[w].attempt \in 0 .. MaxAttempts - 1 /\ row[runner[w].job] \in Row
  BY DEF TypeOK, Runner
<1>2. CASE Exhausted(w)
  BY <1>1, <1>2, StatementsKeepRows DEF FailureRow
<1>3. CASE ~Exhausted(w)
  <2>1. runner[w].attempt + 1 \in 0 .. MaxAttempts - 1
    BY <1>1, <1>3, QueueAssumption DEF Exhausted
  <2>2. Delay(runner[w].attempt + 1) \in Int
    BY <1>1, DelayIsNat
  <2>3. QED
    BY <1>1, <1>3, <2>1, <2>2, StatementsKeepRows DEF FailureRow
<1>4. QED
  BY <1>2, <1>3

-----------------------------------------------------------------------------
(* Type correctness *)

LEMMA TypeInit == Init => TypeOK
BY QueueAssumption DEF Init, TypeOK, Row, Runner, NoRow, Polling, Statuses, Positions,
   Working, Failing

LEMMA TypeStep == TypeOK /\ [Next]_vars => TypeOK'
<1> SUFFICES ASSUME TypeOK, [Next]_vars
             PROVE  TypeOK'
  OBVIOUS
<1>1. /\ Polling \in Runner /\ Down \in Runner
      /\ Polling.at \notin Working /\ Down.at \notin Working
  BY QueueAssumption DEF Polling, Down, Runner, Positions, Working, Failing
<1>2. \A f \in FaultKinds : Fault(f) => faults' \in 0 .. MaxFaults
  BY QueueAssumption DEF Fault, TypeOK
<1>3. ASSUME NEW j \in Jobs, NEW k \in Keys, Enqueue(j, k)
      PROVE  TypeOK'
  <2>1. [NoRow EXCEPT !.key = k, !.status = "QUEUED"] \in Row
    <3>1. NoRow \in Row
      BY QueueAssumption DEF NoRow, Row, Statuses
    <3>2. QED
      BY <3>1 DEF Row, Statuses
  <2>2. QED
    BY <1>3, <2>1 DEF Enqueue, TypeOK
<1>4. ASSUME NEW w \in Workers, NEW j \in Jobs, ClaimNext(w, j)
      PROVE  TypeOK'
  <2>1. Claimed(row[j]) \in Row
    BY StatementsKeepRows DEF TypeOK
  <2>2. [at |-> "handling", job |-> j, attempt |-> row[j].attempt] \in Runner
    BY DEF TypeOK, Row, Runner, Positions, Working
  <2>3. QED
    BY <1>4, <2>1, <2>2 DEF ClaimNext, TypeOK
<1>5. ASSUME NEW w \in Workers, ClaimNextFails(w)
      PROVE  TypeOK'
  <2>1. row' \in [Jobs -> Row]
    <3>1. \A j \in Jobs : Claimed(row[j]) \in Row
      BY StatementsKeepRows DEF TypeOK
    <3>2. QED
      BY <1>5, <3>1 DEF ClaimNextFails, TypeOK
  <2>2. faults' \in 0 .. MaxFaults
    BY <1>5, <1>2 DEF ClaimNextFails, FaultKinds
  <2>3. QED
    BY <1>1, <1>5, <2>1, <2>2 DEF ClaimNextFails, TypeOK
<1>6. ASSUME NEW w \in Workers, HandleSucceeds(w)
      PROVE  TypeOK'
  BY <1>6 DEF HandleSucceeds, TypeOK, Runner, Positions, Working
<1>7. ASSUME NEW w \in Workers, NEW outcome \in Failing, HandleFails(w, outcome)
      PROVE  TypeOK'
  BY <1>7 DEF HandleFails, TypeOK, Runner, Positions, Working
<1>8. ASSUME NEW w \in Workers, MarkCompleted(w)
      PROVE  TypeOK'
  <2>1. runner[w].job \in Jobs
    BY <1>8 DEF MarkCompleted, TypeOK, Working
  <2>2. Completed(row[runner[w].job]) \in Row
    BY <2>1, StatementsKeepRows DEF TypeOK
  <2>3. QED
    BY <1>1, <1>8, <2>2 DEF MarkCompleted, TypeOK
<1>9. ASSUME NEW w \in Workers, MarkCompletedFails(w)
      PROVE  TypeOK'
  <2>1. runner[w].job \in Jobs
    BY <1>9 DEF MarkCompletedFails, TypeOK, Working
  <2>2. Completed(row[runner[w].job]) \in Row
    BY <2>1, StatementsKeepRows DEF TypeOK
  <2>3. faults' \in 0 .. MaxFaults
    BY <1>9, <1>2 DEF MarkCompletedFails, FaultKinds
  <2>4. row' \in [Jobs -> Row]
    BY <1>9, <2>2 DEF MarkCompletedFails, TypeOK
  <2>5. QED
    BY <1>9, <2>1, <2>3, <2>4 DEF MarkCompletedFails, TypeOK, Runner, Positions, Working,
       Failing
<1>10. ASSUME NEW w \in Workers, RecordFailure(w)
       PROVE  TypeOK'
  <2>1. runner[w].job \in Jobs
    BY <1>10 DEF RecordFailure, TypeOK, Working
  <2>2. FailureRow(w) \in Row
    BY <2>1, FailureRowIsRow
  <2>3. QED
    BY <1>1, <1>10, <2>2 DEF RecordFailure, TypeOK
<1>11. ASSUME NEW w \in Workers, RecordFailureFails(w)
       PROVE  TypeOK'
  <2>1. runner[w].job \in Jobs
    BY <1>11 DEF RecordFailureFails, TypeOK, Working
  <2>2. FailureRow(w) \in Row
    BY <2>1, FailureRowIsRow
  <2>3. faults' \in 0 .. MaxFaults
    BY <1>11, <1>2 DEF RecordFailureFails, FaultKinds, TypeOK
  <2>4. row' \in [Jobs -> Row]
    BY <1>11, <2>2 DEF RecordFailureFails, TypeOK
  <2>5. QED
    BY <1>1, <1>11, <2>3, <2>4 DEF RecordFailureFails, TypeOK
<1>12. ASSUME NEW w \in Workers, Crash(w) \/ Restart(w)
       PROVE  TypeOK'
  <2>1. faults' \in 0 .. MaxFaults
    BY <1>12, <1>2 DEF Crash, Restart, FaultKinds, TypeOK
  <2>2. QED
    BY <1>1, <1>12, <2>1 DEF Crash, Restart, TypeOK
<1>13. CASE RecoverStaleClaims
  <2>1. \A j \in Jobs : Requeued(row[j], row[j].attempt, 0) \in Row
    <3>1. \A j \in Jobs : row[j] \in Row /\ row[j].attempt \in 0 .. MaxAttempts - 1
      BY DEF TypeOK, Row
    <3>2. 0 \in Int
      OBVIOUS
    <3>3. QED
      BY <3>1, <3>2, StatementsKeepRows
  <2>2. \A j \in Jobs : row[j].attempt \in Nat
    BY DEF TypeOK, Row
  <2>3. PICK J \in SUBSET StaleClaims :
          /\ row' = [j \in Jobs |-> IF j \in J THEN Requeued(row[j], row[j].attempt, 0) ELSE row[j]]
          /\ runs' = [j \in Jobs |-> IF j \in J THEN row[j].attempt ELSE runs[j]]
    BY <1>13 DEF RecoverStaleClaims
  <2>4. UNCHANGED <<runner, faults>>
    BY <1>13 DEF RecoverStaleClaims
  <2>5. QED
    BY <2>1, <2>2, <2>3, <2>4 DEF TypeOK
<1>14. CASE Tick
  <2>1. \A j \in Jobs : Aged(row[j]) \in Row
    BY StatementsKeepRows DEF TypeOK
  <2>2. QED
    BY <1>14, <2>1 DEF Tick, TypeOK
<1>15. CASE UNCHANGED vars
  BY <1>15 DEF vars, TypeOK
<1>16. QED
  BY <1>3, <1>4, <1>5, <1>6, <1>7, <1>8, <1>9, <1>10, <1>11, <1>12, <1>13, <1>14, <1>15
     DEF Next, Work

\* Every variable keeps its type, with or without recovery and with every kind
\* of fault; in particular the attempt counter stays below maxAttempts and a
\* worker that is at work holds a row.
THEOREM TypeCorrect == Spec => []TypeOK
<1>1. QED
  BY TypeInit, TypeStep, PTL DEF Spec

-----------------------------------------------------------------------------
(* The claim protocol: nobody recovers stale claims, or handlers are timely *)

\* What each statement does to the columns the invariant speaks of.
LEMMA StatementFields ==
  ASSUME NEW r \in Row
  PROVE  /\ Claimed(r).key = r.key /\ Claimed(r).attempt = r.attempt
         /\ Claimed(r).status = "CLAIMED"
         /\ Completed(r).key = r.key /\ Completed(r).attempt = r.attempt
         /\ Completed(r).status = "COMPLETED"
         /\ Dead(r).key = r.key /\ Dead(r).attempt = r.attempt
         /\ Dead(r).status = "DEAD"
         /\ Aged(r).key = r.key /\ Aged(r).attempt = r.attempt
         /\ Aged(r).status = r.status
         /\ \A n, d : /\ Requeued(r, n, d).key = r.key
                      /\ Requeued(r, n, d).attempt = n
                      /\ Requeued(r, n, d).status = "QUEUED"
BY DEF Row, Claimed, Completed, Dead, Aged, Requeued

\* The outcome of a catch block, by case.
LEMMA FailureRowFields ==
  ASSUME TypeOK, NEW w \in Workers, runner[w].job \in Jobs
  PROVE  LET r == row[runner[w].job]
             n == runner[w].attempt + 1
         IN  /\ FailureRow(w).key = r.key
             /\ Exhausted(w) => /\ FailureRow(w).status = "DEAD"
                                /\ FailureRow(w).attempt = r.attempt
             /\ ~Exhausted(w) => /\ FailureRow(w).status = "QUEUED"
                                 /\ FailureRow(w).attempt = n
BY StatementFields DEF FailureRow, TypeOK

LEMMA InvInit == Init => QueueInv
BY TypeInit DEF Init, QueueInv, ClaimStaysMine, OneRunnerPerRow, OneActiveRowPerKey,
   RunsAccounted, KeysKnown, WorksOn, NoRow, Polling, Working, Failing, Active, Terminal

LEMMA InvStep == SafeRecovery /\ QueueInv /\ [Next]_vars => QueueInv'
<1> SUFFICES ASSUME SafeRecovery, QueueInv, [Next]_vars
             PROVE  QueueInv'
  OBVIOUS
<1> USE DEF Active, Terminal, Working, Failing, WorksOn
<1>0. /\ TypeOK /\ TypeOK'
      /\ ClaimStaysMine /\ OneRunnerPerRow /\ OneActiveRowPerKey /\ KeysKnown
      /\ RunsAccounted
  BY TypeStep DEF QueueInv
<1>1. /\ Polling.at \notin Working /\ Down.at \notin Working
  BY DEF Polling, Down
<1>2. \A j \in Jobs : row[j] \in Row /\ row[j].attempt \in Nat /\ runs[j] \in Nat
  BY <1>0 DEF TypeOK, Row
<1>3. ASSUME NEW j \in Jobs, NEW k \in Keys, Enqueue(j, k)
      PROVE  QueueInv'
  <2>1. /\ row'[j].key = k /\ row'[j].status = "QUEUED" /\ row'[j].attempt = 0
        /\ row[j].status = "absent"
        /\ \A i \in Jobs : i # j => row'[i] = row[i]
        /\ UNCHANGED <<runner, runs>>
    BY <1>0, <1>3 DEF Enqueue, NoRow, TypeOK
  <2>2. \A w \in Workers : ~WorksOn(w, j)
    BY <1>0, <2>1 DEF ClaimStaysMine
  <2>3. ClaimStaysMine' /\ OneRunnerPerRow'
    BY <1>0, <2>1, <2>2 DEF ClaimStaysMine, OneRunnerPerRow, TypeOK
  <2>4. OneActiveRowPerKey'
    BY <1>0, <1>3, <2>1 DEF OneActiveRowPerKey, Enqueue, KeyTaken
  <2>5. RunsAccounted' /\ KeysKnown'
    BY <1>0, <2>1, <2>2 DEF RunsAccounted, KeysKnown
  <2>6. QED
    BY <1>0, <2>3, <2>4, <2>5 DEF QueueInv
<1>4. ASSUME NEW w \in Workers, NEW j \in Jobs, ClaimNext(w, j)
      PROVE  QueueInv'
  <2>1. /\ row'[j].key = row[j].key /\ row'[j].status = "CLAIMED"
        /\ row'[j].attempt = row[j].attempt /\ row[j].status = "QUEUED"
        /\ \A i \in Jobs : i # j => row'[i] = row[i] /\ runs'[i] = runs[i]
        /\ runs'[j] = runs[j] + 1
    BY <1>0, <1>2, <1>4, StatementFields DEF ClaimNext, IsNext, TypeOK
  <2>2. /\ runner'[w].at = "handling" /\ runner'[w].job = j
        /\ runner'[w].attempt = row[j].attempt
        /\ \A v \in Workers : v # w => runner'[v] = runner[v]
    BY <1>0, <1>4 DEF ClaimNext, TypeOK
  <2>3. \A v \in Workers : ~WorksOn(v, j)
    BY <1>0, <2>1 DEF ClaimStaysMine
  <2>4. ClaimStaysMine'
    BY <1>0, <2>1, <2>2, <2>3, QueueAssumption DEF ClaimStaysMine, TypeOK
  <2>5. OneRunnerPerRow'
    BY <1>0, <2>2, <2>3 DEF OneRunnerPerRow
  <2>6. OneActiveRowPerKey'
    BY <1>0, <2>1 DEF OneActiveRowPerKey
  <2>7. RunsAccounted' /\ KeysKnown'
    BY <1>0, <1>2, <2>1, <2>2 DEF RunsAccounted, KeysKnown
  <2>8. QED
    BY <1>0, <2>4, <2>5, <2>6, <2>7 DEF QueueInv
<1>5. ASSUME NEW w \in Workers, ClaimNextFails(w)
      PROVE  QueueInv'
  <2>1. /\ runner'[w].at \notin Working /\ runner[w].at \notin Working
        /\ \A v \in Workers : v # w => runner'[v] = runner[v]
        /\ runs' = runs
    BY <1>0, <1>1, <1>5 DEF ClaimNextFails, TypeOK
  <2>2. CASE row' = row
    BY <1>0, <2>1, <2>2 DEF QueueInv, ClaimStaysMine, OneRunnerPerRow, OneActiveRowPerKey,
       RunsAccounted, KeysKnown, TypeOK
  <2>3. ASSUME NEW j \in Jobs, IsNext(j), row' = [row EXCEPT ![j] = Claimed(@)]
        PROVE  QueueInv'
    <3>1. /\ row'[j].key = row[j].key /\ row'[j].status = "CLAIMED"
          /\ row'[j].attempt = row[j].attempt /\ row[j].status = "QUEUED"
          /\ \A i \in Jobs : i # j => row'[i] = row[i]
      BY <1>0, <1>2, <2>3, StatementFields DEF IsNext, TypeOK
    <3>2. \A v \in Workers : ~WorksOn(v, j)
      BY <1>0, <3>1 DEF ClaimStaysMine
    <3>3. ClaimStaysMine' /\ OneRunnerPerRow'
      BY <1>0, <2>1, <3>1, <3>2 DEF ClaimStaysMine, OneRunnerPerRow, TypeOK
    <3>4. OneActiveRowPerKey' /\ RunsAccounted' /\ KeysKnown'
      BY <1>0, <2>1, <3>1, <3>2 DEF OneActiveRowPerKey, RunsAccounted, KeysKnown
    <3>5. QED
      BY <1>0, <3>3, <3>4 DEF QueueInv
  <2>4. QED
    BY <1>5, <2>2, <2>3 DEF ClaimNextFails
<1>6. ASSUME NEW w \in Workers, NEW outcome \in Failing \union {"succeeded"},
             runner[w].at = "handling", runner' = [runner EXCEPT ![w].at = outcome],
             UNCHANGED <<row, runs, faults>>
      PROVE  QueueInv'
  <2>1. /\ runner'[w].job = runner[w].job /\ runner'[w].attempt = runner[w].attempt
        /\ runner'[w].at \in Working
        /\ \A v \in Workers : v # w => runner'[v] = runner[v]
    BY <1>0, <1>6 DEF TypeOK, Runner
  <2>2. ClaimStaysMine'
    BY <1>0, <1>6, <2>1 DEF ClaimStaysMine
  <2>3. OneRunnerPerRow' /\ OneActiveRowPerKey' /\ RunsAccounted' /\ KeysKnown'
    BY <1>0, <1>6, <2>1 DEF OneRunnerPerRow, OneActiveRowPerKey, RunsAccounted, KeysKnown
  <2>4. QED
    BY <1>0, <2>2, <2>3 DEF QueueInv
<1>7. ASSUME NEW w \in Workers, MarkCompleted(w)
      PROVE  QueueInv'
  <2> DEFINE j == runner[w].job
  <2>1. j \in Jobs /\ WorksOn(w, j) /\ row[j].status = "CLAIMED"
    BY <1>0, <1>7 DEF MarkCompleted, TypeOK, ClaimStaysMine
  <2>2. /\ row'[j].key = row[j].key /\ row'[j].status = "COMPLETED"
        /\ row'[j].attempt = row[j].attempt
        /\ \A i \in Jobs : i # j => row'[i] = row[i]
        /\ runner'[w].at \notin Working
        /\ \A v \in Workers : v # w => runner'[v] = runner[v]
        /\ runs' = runs
    BY <1>0, <1>1, <1>2, <1>7, <2>1, StatementFields DEF MarkCompleted, TypeOK
  <2>3. \A v \in Workers : v # w => ~WorksOn(v, j)
    BY <1>0, <2>1 DEF OneRunnerPerRow
  <2>4. ClaimStaysMine' /\ OneRunnerPerRow'
    BY <1>0, <2>2, <2>3 DEF ClaimStaysMine, OneRunnerPerRow, TypeOK
  <2>5. OneActiveRowPerKey' /\ RunsAccounted' /\ KeysKnown'
    BY <1>0, <2>1, <2>2, <2>3 DEF OneActiveRowPerKey, RunsAccounted, KeysKnown
  <2>6. QED
    BY <1>0, <2>4, <2>5 DEF QueueInv
<1>8. ASSUME NEW w \in Workers, MarkCompletedFails(w)
      PROVE  QueueInv'
  <2> DEFINE j == runner[w].job
  <2>1. j \in Jobs /\ WorksOn(w, j) /\ row[j].status = "CLAIMED"
    BY <1>0, <1>8 DEF MarkCompletedFails, TypeOK, ClaimStaysMine
  <2>2. /\ runner'[w].job = j /\ runner'[w].attempt = runner[w].attempt
        /\ runner'[w].at = "failedRetryable" /\ runner[w].at = "succeeded"
        /\ \A v \in Workers : v # w => runner'[v] = runner[v]
        /\ runs' = runs
    BY <1>0, <1>8 DEF MarkCompletedFails, TypeOK, Runner
  <2>3. CASE row' = row
    BY <1>0, <2>1, <2>2, <2>3 DEF QueueInv, ClaimStaysMine, OneRunnerPerRow,
       OneActiveRowPerKey, RunsAccounted, KeysKnown
  <2>4. CASE Fault("lostAck") /\ row' = [row EXCEPT ![j] = Completed(@)]
    <3>1. /\ row'[j].key = row[j].key /\ row'[j].status = "COMPLETED"
          /\ row'[j].attempt = row[j].attempt
          /\ \A i \in Jobs : i # j => row'[i] = row[i]
          /\ ~NoLostAck
      BY <1>0, <1>2, <2>1, <2>4, StatementFields DEF TypeOK, Fault, NoLostAck
    <3>2. \A v \in Workers : v # w => ~WorksOn(v, j)
      BY <1>0, <2>1 DEF OneRunnerPerRow
    <3>3. ClaimStaysMine'
      BY <1>0, <2>1, <2>2, <3>1, <3>2, QueueAssumption
         DEF ClaimStaysMine, TypeOK, NoLostAck
    <3>4. OneRunnerPerRow' /\ OneActiveRowPerKey' /\ RunsAccounted' /\ KeysKnown'
      BY <1>0, <2>1, <2>2, <3>1, <3>2 DEF OneRunnerPerRow, OneActiveRowPerKey, RunsAccounted, KeysKnown
    <3>5. QED
      BY <1>0, <3>3, <3>4 DEF QueueInv
  <2>5. QED
    BY <1>8, <2>3, <2>4 DEF MarkCompletedFails
<1>9. ASSUME NEW w \in Workers, runner[w].at \in Failing, ~Conflicts(w), runs' = runs,
             row' = [row EXCEPT ![runner[w].job] = FailureRow(w)],
             runner' = [runner EXCEPT ![w] = Polling] \/ runner' = [runner EXCEPT ![w] = Down]
      PROVE  QueueInv'
  <2> DEFINE j == runner[w].job
  <2>1. /\ j \in Jobs /\ WorksOn(w, j)
        /\ row[j].status \in {"CLAIMED", "COMPLETED"} /\ row[j].attempt = runner[w].attempt
    BY <1>0, <1>9 DEF TypeOK, ClaimStaysMine
  <2>2. /\ \A i \in Jobs : i # j => row'[i] = row[i]
        /\ row'[j] = FailureRow(w)
        /\ runner'[w].at \notin Working
        /\ \A v \in Workers : v # w => runner'[v] = runner[v]
    BY <1>0, <1>1, <1>9, <2>1 DEF TypeOK
  <2>3. /\ row'[j].key = row[j].key
        /\ Exhausted(w) => row'[j].status = "DEAD" /\ row'[j].attempt = row[j].attempt
        /\ ~Exhausted(w) => row'[j].status = "QUEUED" /\ row'[j].attempt = row[j].attempt + 1
    BY <1>0, <2>1, <2>2, FailureRowFields
  <2>4. \A v \in Workers : v # w => ~WorksOn(v, j)
    BY <1>0, <2>1 DEF OneRunnerPerRow
  <2>5. runs[j] = row[j].attempt + 1
    BY <1>0, <2>1 DEF RunsAccounted, KeysKnown
  <2>6. ClaimStaysMine' /\ OneRunnerPerRow'
    BY <1>0, <2>2, <2>4 DEF ClaimStaysMine, OneRunnerPerRow, TypeOK
  <2>7. RunsAccounted' /\ KeysKnown'
    BY <1>0, <1>9, <2>1, <2>2, <2>3, <2>4, <2>5 DEF RunsAccounted, KeysKnown
  <2>8. OneActiveRowPerKey'
    <3>1. ~Exhausted(w) => \A i \in Jobs : i # j => ~(row[i].key = row[j].key /\ row[i].status \in Active)
      BY <1>9 DEF Conflicts, KeyTaken
    <3>2. QED
      BY <1>0, <2>2, <2>3, <3>1 DEF OneActiveRowPerKey
  <2>9. QED
    BY <1>0, <2>6, <2>7, <2>8 DEF QueueInv
<1>10. ASSUME NEW w \in Workers, UNCHANGED <<row, runs>>,
              runner' = [runner EXCEPT ![w] = Polling] \/ runner' = [runner EXCEPT ![w] = Down]
       PROVE  QueueInv'
  <2>1. /\ runner'[w].at \notin Working
        /\ \A v \in Workers : v # w => runner'[v] = runner[v]
    BY <1>0, <1>1, <1>10 DEF TypeOK
  <2>2. QED
    BY <1>0, <1>10, <2>1 DEF QueueInv, ClaimStaysMine, OneRunnerPerRow, OneActiveRowPerKey,
       RunsAccounted, KeysKnown
<1>11. CASE Tick
  <2>1. \A j \in Jobs : /\ row'[j].key = row[j].key /\ row'[j].status = row[j].status
                        /\ row'[j].attempt = row[j].attempt
    BY <1>0, <1>2, <1>11, StatementFields DEF Tick, TypeOK
  <2>2. UNCHANGED <<runner, runs>>
    BY <1>11 DEF Tick
  <2>3. ClaimStaysMine'
    BY <1>0, <2>1, <2>2 DEF ClaimStaysMine, TypeOK
  <2>5. OneRunnerPerRow' /\ OneActiveRowPerKey' /\ RunsAccounted' /\ KeysKnown'
    BY <1>0, <2>1, <2>2 DEF OneRunnerPerRow, OneActiveRowPerKey, RunsAccounted, KeysKnown
  <2>6. QED
    BY <1>0, <2>3, <2>5 DEF QueueInv
<1>12. CASE UNCHANGED vars
  BY <1>0, <1>12 DEF vars, QueueInv, ClaimStaysMine, OneRunnerPerRow, OneActiveRowPerKey,
     RunsAccounted, KeysKnown
<1>13. \A w \in Workers : Work(w) => QueueInv'
  <2> SUFFICES ASSUME NEW w \in Workers, Work(w)
               PROVE  QueueInv'
    OBVIOUS
  <2>1. CASE HandleSucceeds(w)
    BY <1>6, <2>1 DEF HandleSucceeds
  <2>2. ASSUME NEW outcome \in Failing, HandleFails(w, outcome)
        PROVE  QueueInv'
    BY <1>6, <2>2 DEF HandleFails
  <2>3. CASE RecordFailure(w)
    BY <1>9, <2>3 DEF RecordFailure
  <2>4. CASE RecordFailureFails(w)
    BY <1>9, <1>10, <2>4 DEF RecordFailureFails
  <2>5. QED
    BY <1>4, <1>7, <1>8, <2>1, <2>2, <2>3, <2>4 DEF Work
<1>14. \A w \in Workers : Crash(w) \/ Restart(w) => QueueInv'
  BY <1>10 DEF Crash, Restart
\* Recovery takes no claim back from a worker that is at work on it.
<1>15. CASE RecoverStaleClaims
  <2>1. RecoveryWired /\ TimelyHandlers /\ runner' = runner
    BY <1>15 DEF RecoverStaleClaims, SafeRecovery
  <2>2. PICK J \in SUBSET StaleClaims :
          /\ row' = [j \in Jobs |-> IF j \in J THEN Requeued(row[j], row[j].attempt, 0) ELSE row[j]]
          /\ runs' = [j \in Jobs |-> IF j \in J THEN row[j].attempt ELSE runs[j]]
    BY <1>15 DEF RecoverStaleClaims
  <2>3. \A j \in J : /\ j \in Jobs /\ row[j].status = "CLAIMED"
                     /\ \A w \in Workers : ~WorksOn(w, j)
    BY <2>1 DEF StaleClaims, Abandoned
  <2>4. \A j \in J : /\ row'[j].key = row[j].key /\ row'[j].attempt = row[j].attempt
                     /\ row'[j].status = "QUEUED" /\ runs'[j] = row[j].attempt
    BY <1>2, <2>2, <2>3, StatementFields
  <2>5. \A j \in Jobs \ J : row'[j] = row[j] /\ runs'[j] = runs[j]
    BY <2>2
  <2>6. ASSUME NEW w \in Workers, runner[w].at \in Working
        PROVE  row'[runner[w].job] = row[runner[w].job]
    BY <1>0, <2>3, <2>5, <2>6 DEF TypeOK
  <2>7. ClaimStaysMine'
    BY <1>0, <2>1, <2>6 DEF ClaimStaysMine
  <2>8. OneRunnerPerRow' /\ OneActiveRowPerKey' /\ KeysKnown'
    BY <1>0, <2>1, <2>3, <2>4, <2>5 DEF OneRunnerPerRow, OneActiveRowPerKey, KeysKnown
  <2>9. RunsAccounted'
    BY <1>0, <2>1, <2>3, <2>4, <2>5 DEF RunsAccounted
  <2> QED BY <1>0, <2>7, <2>8, <2>9 DEF QueueInv
<1>16. QED
  BY <1>3, <1>5, <1>11, <1>12, <1>13, <1>14, <1>15 DEF Next

\* The inductive invariant: claims are exclusive and stay with the worker that
\* made them, keys have one active row, and every run of a handler is charged.
THEOREM ClaimProtocol == ASSUME SafeRecovery PROVE Spec => []QueueInv
BY InvInit, InvStep, PTL DEF Spec

\* Two workers never reconcile one pull request at the same time, whatever
\* crashes and whichever statement fails, as long as no claim is recovered (nobody
\* does in src/) or only claims of workers that are gone are.
THEOREM Exclusion == ASSUME SafeRecovery PROVE Spec => []OneRunnerPerKey
<1>1. QueueInv => OneRunnerPerKey
  <2> SUFFICES ASSUME QueueInv, NEW v \in Workers, NEW w \in Workers, v # w,
                      runner[v].at = "handling", runner[w].at = "handling"
               PROVE  row[runner[v].job].key # row[runner[w].job].key
    BY DEF OneRunnerPerKey
  <2>1. /\ runner[v].job \in Jobs /\ runner[w].job \in Jobs
        /\ WorksOn(v, runner[v].job) /\ WorksOn(w, runner[w].job)
    BY DEF QueueInv, TypeOK, WorksOn, Working
  <2>2. /\ row[runner[v].job].status = "CLAIMED"
        /\ row[runner[w].job].status = "CLAIMED"
    BY DEF QueueInv, ClaimStaysMine, Working
  <2>3. runner[v].job # runner[w].job
    BY <2>1 DEF QueueInv, OneRunnerPerRow
  <2>4. QED
    BY <2>1, <2>2, <2>3 DEF QueueInv, OneActiveRowPerKey, Active
<1>2. QED
  BY <1>1, ClaimProtocol, PTL

\* No job is handed to a handler more than maxAttempts times, also when a
\* finished run could not be recorded and counts as a failure (a run whose claim
\* recovery took back is not counted).
THEOREM Budget == ASSUME SafeRecovery PROVE Spec => []RunsWithinBudget
<1>1. QueueInv => RunsWithinBudget
  <2> SUFFICES ASSUME QueueInv, NEW j \in Jobs
               PROVE  runs[j] <= MaxAttempts
    BY DEF RunsWithinBudget
  <2>1. /\ row[j].attempt \in Nat /\ row[j].attempt + 1 <= MaxAttempts
        /\ row[j].status \in Statuses
    BY QueueAssumption DEF QueueInv, TypeOK, Row
  <2>2. runs[j] \in {0, row[j].attempt, row[j].attempt + 1}
    BY <2>1 DEF QueueInv, RunsAccounted, Statuses, Terminal
  <2>3. QED
    BY <2>1, <2>2, QueueAssumption
<1>2. QED
  BY <1>1, ClaimProtocol, PTL

\* A job is given up only with its budget of handler runs spent, or by the worker
\* whose handler failed for good; a failing or unacknowledged statement kills no job.
THEOREM DeathIsDeserved == ASSUME SafeRecovery PROVE Spec => DeadOnlyWhenSpent
<1> DEFINE Deserved ==
      \A j \in Jobs : row[j].status # "DEAD" /\ row'[j].status = "DEAD" =>
        \/ runs[j] = MaxAttempts
        \/ \E w \in Workers : WorksOn(w, j) /\ runner[w].at = "failedFatal"
<1>1. QueueInv /\ [Next]_vars => [Deserved]_vars
  <2> SUFFICES ASSUME QueueInv, Next, NEW j \in Jobs,
                      row[j].status # "DEAD", row'[j].status = "DEAD"
               PROVE  \/ runs[j] = MaxAttempts
                      \/ \E w \in Workers : WorksOn(w, j) /\ runner[w].at = "failedFatal"
    OBVIOUS
  <2>0. row \in [Jobs -> Row] /\ row[j] \in Row
    BY DEF QueueInv, TypeOK
  <2>1. PICK w \in Workers :
          runner[w].at \in Failing /\ row' = [row EXCEPT ![runner[w].job] = FailureRow(w)]
    <3>1. ASSUME NEW i \in Jobs, NEW k \in Keys, Enqueue(i, k) PROVE FALSE
      BY <2>0, <3>1 DEF Enqueue, NoRow
    <3>2. ASSUME NEW i \in Jobs, row' = [row EXCEPT ![i] = Claimed(row[i])]
          PROVE  FALSE
      BY <2>0, <3>2, StatementFields
    <3>3. ASSUME NEW w \in Workers, runner[w].at \in Working,
                 row' = [row EXCEPT ![runner[w].job] = Completed(row[runner[w].job])]
          PROVE  FALSE
      <4>1. runner[w].job \in Jobs
        BY <3>3 DEF QueueInv, TypeOK
      <4> QED BY <2>0, <3>3, <4>1, StatementFields
    <3>4. row' # row
      OBVIOUS
    <3>5. ~Tick /\ ~RecoverStaleClaims
      BY <2>0, StatementFields DEF Tick, RecoverStaleClaims
    <3>6. \A w \in Workers : ClaimNextFails(w) \/ Crash(w) \/ Restart(w) => FALSE
      BY <3>2, <3>4 DEF ClaimNextFails, Crash, Restart
    <3>7. PICK w \in Workers : Work(w)
      BY <3>1, <3>5, <3>6 DEF Next
    <3>8. RecordFailure(w) \/ RecordFailureFails(w)
      BY <3>2, <3>3, <3>4, <3>7 DEF Work, ClaimNext, HandleSucceeds, HandleFails,
         MarkCompleted, MarkCompletedFails, Working
    <3> QED BY <3>4, <3>8 DEF RecordFailure, RecordFailureFails
  <2>2. runner[w].job \in Jobs /\ runner[w].job = j
    BY <2>0, <2>1 DEF QueueInv, TypeOK, Working
  <2>3. WorksOn(w, j) /\ Exhausted(w)
    BY <2>0, <2>1, <2>2, FailureRowFields DEF WorksOn, Working, QueueInv
  <2>4. runs[j] = row[j].attempt + 1 /\ row[j].attempt = runner[w].attempt
    BY <2>2, <2>3 DEF QueueInv, RunsAccounted, ClaimStaysMine, WorksOn
  <2>5. row[j].attempt \in 0 .. MaxAttempts - 1 /\ MaxAttempts \in Nat
    BY <2>0, QueueAssumption DEF Row
  <2>6. CASE runner[w].attempt + 1 >= MaxAttempts
    BY <2>4, <2>5, <2>6
  <2> QED BY <2>3, <2>6 DEF Exhausted
<1>2. QED
  BY <1>1, ClaimProtocol, PTL DEF Spec, DeadOnlyWhenSpent

\* A row that does not belong to a runner at work is changed by no outcome.
LEMMA OutcomesHitClaims ==
  ASSUME NoLostAck, QueueInv, NEW w \in Workers, runner[w].at \in Working
  PROVE  runner[w].job \in Jobs /\ row[runner[w].job].status = "CLAIMED"
BY DEF QueueInv, TypeOK, ClaimStaysMine

\* A completed or dead job is never written again, unless a completion was
\* committed without the worker learning of it.
THEOREM Finality ==
  ASSUME SafeRecovery, NoLostAck
  PROVE  Spec => TerminalIsFinal
<1> DEFINE Final == \A j \in Jobs : row[j].status \in Terminal => row'[j] = row[j]
<1>1. QueueInv /\ [Next]_vars => [Final]_vars
  <2> SUFFICES ASSUME QueueInv, Next, NEW j \in Jobs, row[j].status \in Terminal
               PROVE  row'[j] = row[j]
    OBVIOUS
  <2> USE DEF Terminal
  <2>0. row \in [Jobs -> Row] /\ row[j] \in Row
    BY DEF QueueInv, TypeOK
  <2>1. ASSUME NEW w \in Workers, runner[w].at \in Working
        PROVE  runner[w].job # j /\ runner[w].job \in Jobs
    BY <2>1, OutcomesHitClaims
  <2>2. ASSUME NEW i \in Jobs, NEW k \in Keys, Enqueue(i, k)
        PROVE  row'[j] = row[j]
    BY <2>0, <2>2 DEF Enqueue
  <2>3. ASSUME NEW w \in Workers, Work(w) \/ ClaimNextFails(w) \/ Crash(w) \/ Restart(w)
        PROVE  row'[j] = row[j]
    <3>1. ASSUME NEW i \in Jobs, ClaimNext(w, i)
          PROVE  row'[j] = row[j]
      BY <2>0, <3>1 DEF ClaimNext, IsNext
    <3>2. CASE ClaimNextFails(w)
      BY <2>0, <3>2 DEF ClaimNextFails, IsNext
    <3>3. CASE MarkCompleted(w) \/ MarkCompletedFails(w)
      BY <2>0, <2>1, <3>3 DEF MarkCompleted, MarkCompletedFails, Working
    <3>4. CASE RecordFailure(w) \/ RecordFailureFails(w)
      BY <2>0, <2>1, <3>4 DEF RecordFailure, RecordFailureFails, Working
    <3>5. QED
      BY <2>3, <3>1, <3>2, <3>3, <3>4 DEF Work, HandleSucceeds, HandleFails, Crash, Restart
  <2>4. CASE Tick
    <3>1. [row[j] EXCEPT !.due = row[j].due] = row[j]
      BY <2>0 DEF Row
    <3>2. Aged(row[j]) = row[j]
      BY <2>0, <3>1 DEF Aged
    <3>3. QED
      BY <2>0, <2>4, <3>2 DEF Tick
  <2>5. CASE RecoverStaleClaims
    BY <2>5 DEF RecoverStaleClaims, StaleClaims
  <2>6. QED
    BY <2>2, <2>3, <2>4, <2>5 DEF Next
<1>2. QED
  BY <1>1, ClaimProtocol, PTL DEF Spec, TerminalIsFinal

-----------------------------------------------------------------------------
(* The queue implements the board *)

\* The task of a key with an active row can be read off that row.
ActiveTasks ==
  \A j \in Jobs : row[j].status \in Active =>
    TaskOf(row[j].key) = [state |-> StateOf(j), failures |-> row[j].attempt]

LEMMA TaskOfActive == QueueInv => ActiveTasks
<1> SUFFICES ASSUME QueueInv, NEW j \in Jobs, row[j].status \in Active
             PROVE  TaskOf(row[j].key) = [state |-> StateOf(j), failures |-> row[j].attempt]
  BY DEF ActiveTasks
<1>1. KeyTaken(row[j].key, Jobs)
  BY DEF KeyTaken
<1>2. ActiveRow(row[j].key) = j
  <2>1. \A i \in Jobs : row[i].key = row[j].key /\ row[i].status \in Active => i = j
    BY DEF QueueInv, OneActiveRowPerKey
  <2>2. QED
    BY <2>1 DEF ActiveRow
<1>3. QED
  BY <1>1, <1>2 DEF TaskOf

\* A row of which a step tells nobody anything new.
RowKept(i) ==
  /\ row[i].status \in Active =>
       /\ row'[i].key = row[i].key /\ row'[i].attempt = row[i].attempt
       /\ StateOf(i)' = StateOf(i)
  /\ row'[i].status \in Active => row[i].status \in Active
  /\ row[i].status \in Active => row'[i].status \in Active

\* A key whose active rows are kept keeps its task.
LEMMA TaskKept ==
  ASSUME ActiveTasks, ActiveTasks', NEW k \in Keys,
         \A i \in Jobs : (\/ row[i].key = k /\ row[i].status \in Active
                          \/ row'[i].key = k /\ row'[i].status \in Active)
                            => RowKept(i)
  PROVE  TaskOf(k)' = TaskOf(k)
<1>1. CASE KeyTaken(k, Jobs)
  <2>1. PICK i \in Jobs : row[i].key = k /\ row[i].status \in Active
    BY <1>1 DEF KeyTaken
  <2>2. /\ row'[i].key = k /\ row'[i].attempt = row[i].attempt /\ row'[i].status \in Active
        /\ StateOf(i)' = StateOf(i)
    <3>1. RowKept(i)
      BY <2>1
    <3> QED BY <2>1, <3>1 DEF RowKept
  <2>3. TaskOf(row[i].key) = [state |-> StateOf(i), failures |-> row[i].attempt]
    BY <2>1 DEF ActiveTasks
  <2>4. TaskOf(row[i].key)' = [state |-> StateOf(i)', failures |-> row'[i].attempt]
    BY <2>1, <2>2 DEF ActiveTasks
  <2>5. TaskOf(k) = TaskOf(row[i].key) /\ TaskOf(k)' = TaskOf(row[i].key)'
    BY <2>1, <2>2
  <2>6. QED
    BY <2>2, <2>3, <2>4, <2>5
<1>2. CASE ~KeyTaken(k, Jobs)
  <2>1. ~KeyTaken(k, Jobs)'
    <3> SUFFICES ASSUME NEW i \in Jobs, row'[i].key = k, row'[i].status \in Active
                 PROVE  FALSE
      BY DEF KeyTaken
    <3>1. row[i].status \in Active /\ row[i].key = k
      BY DEF RowKept
    <3> QED BY <1>2, <3>1 DEF KeyTaken
  <2>2. QED
    BY <1>2, <2>1 DEF TaskOf
<1>3. QED
  BY <1>1, <1>2

\* A worker that leaves row i alone does not change what it stands for.
LEMMA StateKept ==
  ASSUME NEW w \in Workers, \A v \in Workers : v # w => runner'[v] = runner[v],
         NEW i \in Jobs, row'[i] = row[i], WorksOn(w, i)' <=> WorksOn(w, i)
  PROVE  RowKept(i)
<1>1. \A v \in Workers : WorksOn(v, i)' <=> WorksOn(v, i)
  BY DEF WorksOn
<1>2. Abandoned(i)' <=> Abandoned(i)
  BY <1>1 DEF Abandoned
<1>3. StateOf(i)' = StateOf(i)
  BY <1>2 DEF StateOf
<1>4. QED
  BY <1>3 DEF RowKept

LEMMA BoardInit == Init => Board!Init
BY DEF Init, Board!Init, Board!NoTask, TaskMap, TaskOf, KeyTaken, NoRow, Active

\* A step that keeps all rows but j changes the board at the key of j only.
LEMMA OneTask ==
  ASSUME ActiveTasks, ActiveTasks', NEW j \in Jobs, NEW k \in Keys,
         \A i \in Jobs : i # j => RowKept(i),
         row[j].status = "absent" \/ row[j].key = k, row'[j].key = k
  PROVE  TaskMap' = [TaskMap EXCEPT ![k] = TaskOf(k)']
<1>1. ASSUME NEW c \in Keys, c # k
      PROVE  TaskOf(c)' = TaskOf(c)
  <2>1. \A i \in Jobs : i # j => RowKept(i)
    OBVIOUS
  <2>2. \A i \in Jobs : (\/ row[i].key = c /\ row[i].status \in Active
                         \/ row'[i].key = c /\ row'[i].status \in Active)
                           => i # j
    BY <1>1 DEF Active
  <2> QED BY <2>1, <2>2, TaskKept
<1>2. QED
  BY <1>1 DEF TaskMap

LEMMA BoardStep ==
  ASSUME SafeRecovery, QueueInv, QueueInv', ActiveTasks, ActiveTasks', [Next]_vars
  PROVE  [Board!Next]_TaskMap
<1> USE DEF Active
<1>0. /\ TypeOK /\ row \in [Jobs -> Row] /\ runner \in [Workers -> Runner]
      /\ ClaimStaysMine /\ OneRunnerPerRow /\ OneActiveRowPerKey /\ KeysKnown
  BY DEF QueueInv, TypeOK
<1>1. \A k \in Keys : TaskMap[k] = TaskOf(k) /\ TaskMap'[k] = TaskOf(k)'
  BY DEF TaskMap
\* A step that keeps every row leaves the board alone.
<1>2. ASSUME \A i \in Jobs : RowKept(i)
      PROVE  TaskMap' = TaskMap
  <2>1. \A k \in Keys : TaskOf(k)' = TaskOf(k)
    BY <1>2, TaskKept
  <2> QED BY <2>1 DEF TaskMap
<1>3. ASSUME NEW j \in Jobs, NEW k \in Keys, Enqueue(j, k)
      PROVE  [Board!Next]_TaskMap
  <2>1. /\ row'[j].key = k /\ row'[j].status = "QUEUED" /\ row'[j].attempt = 0
        /\ row[j].status = "absent" /\ ~KeyTaken(k, Jobs)
        /\ \A i \in Jobs : i # j => row'[i] = row[i]
        /\ runner' = runner
    BY <1>0, <1>3 DEF Enqueue, NoRow
  <2>2. \A i \in Jobs : i # j => RowKept(i)
    BY <2>1 DEF RowKept, StateOf, Abandoned, WorksOn
  <2>3. TaskMap' = [TaskMap EXCEPT ![k] = TaskOf(k)']
    BY <2>1, <2>2, OneTask
  <2>4. TaskOf(k)' = [state |-> "pending", failures |-> 0]
    BY <2>1 DEF ActiveTasks, StateOf
  <2>5. TaskMap[k].state = "idle"
    <3>1. TaskOf(k).state = "idle"
      BY <2>1 DEF TaskOf
    <3> QED BY <1>1, <3>1
  <2>6. Board!Request(k)
    BY <2>3, <2>4, <2>5 DEF Board!Request
  <2> QED BY <2>6 DEF Board!Next
\* A row is claimed, by a worker that learns of it or by one that does not.
<1>4. ASSUME NEW w \in Workers, NEW j \in Jobs, runner[w].at = "polling", IsNext(j),
             row' = [row EXCEPT ![j] = Claimed(row[j])],
             \A v \in Workers : v # w => runner'[v] = runner[v],
             \A i \in Jobs : i # j => ~WorksOn(w, i)'
      PROVE  [Board!Next]_TaskMap
  <2>1. /\ row'[j].key = row[j].key /\ row'[j].status = "CLAIMED"
        /\ row'[j].attempt = row[j].attempt /\ row[j].status = "QUEUED"
        /\ \A i \in Jobs : i # j => row'[i] = row[i]
    BY <1>0, <1>4, StatementFields DEF IsNext
  <2>2. PICK k \in Keys : k = row[j].key
    BY <1>0, <2>1 DEF KeysKnown
  <2>3. \A i \in Jobs : ~WorksOn(w, i)
    BY <1>4 DEF WorksOn, Working, Failing
  <2>4. \A i \in Jobs : i # j => RowKept(i)
    BY <1>4, <2>1, <2>3, StateKept
  <2>5. TaskMap' = [TaskMap EXCEPT ![k] = TaskOf(k)']
    BY <2>1, <2>2, <2>4, OneTask
  <2>6. TaskMap[k] = [state |-> "pending", failures |-> row[j].attempt]
    BY <1>1, <2>1, <2>2 DEF ActiveTasks, StateOf
  <2>7. PICK s \in {"running", "stranded"} : TaskOf(k)' = [state |-> s, failures |-> row[j].attempt]
    BY <2>1, <2>2 DEF ActiveTasks, StateOf
  <2>8. TaskMap' = [TaskMap EXCEPT ![k] = [TaskMap[k] EXCEPT !.state = s]]
    <3>1. [TaskMap[k] EXCEPT !.state = s] = TaskOf(k)'
      BY <2>6, <2>7
    <3> QED BY <2>5, <3>1
  <2>9. CASE s = "running"
    <3>1. Board!Start(k)
      BY <2>6, <2>8, <2>9 DEF Board!Start
    <3> QED BY <3>1 DEF Board!Next
  <2>10. CASE s = "stranded"
    <3>1. Board!Strand(k)
      BY <2>6, <2>8, <2>10 DEF Board!Strand
    <3> QED BY <3>1 DEF Board!Next
  <2> QED BY <2>9, <2>10
\* The outcome a worker writes into the row it is at work on: the row becomes
\* terminal, or it is queued with one more attempt and no other row of its key active.
<1>5. ASSUME NEW w \in Workers, runner[w].at \in Working,
             NEW r, row' = [row EXCEPT ![runner[w].job] = r],
             r.key = row[runner[w].job].key,
             \A v \in Workers : v # w => runner'[v] = runner[v],
             \A i \in Jobs : i # runner[w].job => ~WorksOn(w, i)',
             \/ r.status \in Terminal
             \/ /\ r.status = "QUEUED" /\ r.attempt = runner[w].attempt + 1
                /\ runner[w].attempt + 1 < MaxAttempts
                /\ ~Conflicts(w) /\ ~Exhausted(w)
      PROVE  [Board!Next]_TaskMap
  <2>0. PICK j \in Jobs : j = runner[w].job
    BY <1>0, <1>5 DEF TypeOK
  <2>1. /\ row[j].attempt = runner[w].attempt /\ row[j].attempt \in Nat
        /\ \/ row[j].status = "CLAIMED"
           \/ row[j].status = "COMPLETED" /\ ~NoLostAck
    BY <1>0, <1>5, <2>0 DEF ClaimStaysMine, Row
  <2>2. PICK k \in Keys : k = row[j].key
    BY <1>0, <2>1 DEF KeysKnown
  <2>3. /\ row'[j] = r /\ row'[j].key = k
        /\ \A i \in Jobs : i # j => row'[i] = row[i] /\ ~WorksOn(w, i)' /\ ~WorksOn(w, i)
    BY <1>0, <1>5, <2>0, <2>2 DEF WorksOn
  <2>4. \A i \in Jobs : i # j => RowKept(i)
    BY <1>5, <2>3, StateKept
  <2>5. TaskMap' = [TaskMap EXCEPT ![k] = TaskOf(k)']
    BY <2>2, <2>3, <2>4, OneTask
  <2>6. r.status = "QUEUED" => TaskOf(k)' = [state |-> "pending", failures |-> row[j].attempt + 1]
    BY <1>5, <2>1, <2>3 DEF ActiveTasks, StateOf, Terminal
  <2>7. CASE row[j].status = "CLAIMED"
    <3>1. WorksOn(w, j)
      BY <1>5, <2>0 DEF WorksOn
    <3>2. StateOf(j) = "running"
      BY <2>7, <3>1 DEF StateOf, Abandoned
    <3>3. TaskMap[k] = [state |-> "running", failures |-> row[j].attempt]
      BY <1>1, <2>2, <2>7, <3>2 DEF ActiveTasks
    <3>4. CASE r.status \in Terminal
      <4>1. ~KeyTaken(k, Jobs)'
        BY <1>0, <2>2, <2>3, <2>7, <3>4 DEF KeyTaken, OneActiveRowPerKey, Terminal
      <4>2. TaskOf(k)' = Board!NoTask
        BY <4>1 DEF TaskOf, Board!NoTask
      <4>3. Board!Finish(k)
        BY <2>5, <3>3, <4>2 DEF Board!Finish
      <4> QED BY <4>3 DEF Board!Next
    <3>5. CASE r.status = "QUEUED"
      <4>1. TaskMap[k].state = "running" /\ TaskMap[k].failures = row[j].attempt
        BY <3>3
      <4>2. row[j].attempt + 1 < MaxAttempts
        BY <1>5, <2>1, <3>5 DEF Terminal
      <4>3. TaskMap' = [TaskMap EXCEPT
               ![k] = [state |-> "pending", failures |-> TaskMap[k].failures + 1]]
        BY <2>5, <2>6, <3>5, <4>1
      <4>4. Board!Retry(k)
        BY <4>1, <4>2, <4>3 DEF Board!Retry
      <4> QED BY <4>4 DEF Board!Next
    <3> QED BY <1>5, <3>4, <3>5
  <2>8. CASE row[j].status = "COMPLETED" /\ ~NoLostAck
    <3>1. CASE r.status \in Terminal
      <4>1. RowKept(j)
        BY <2>3, <2>8, <3>1 DEF RowKept, Terminal
      <4> QED BY <1>2, <2>4, <4>1
    <3>2. CASE r.status = "QUEUED"
      <4>1. ~KeyTaken(k, Jobs \ {j})
        BY <1>5, <2>0, <2>2, <3>2 DEF Conflicts, Terminal
      <4>2. TaskMap[k].state = "idle"
        <5>1. ~KeyTaken(k, Jobs)
          BY <2>8, <4>1 DEF KeyTaken
        <5>2. TaskOf(k).state = "idle"
          BY <5>1 DEF TaskOf
        <5> QED BY <1>1, <5>2
      <4>3. PICK n \in 1 .. MaxAttempts - 1 : n = row[j].attempt + 1
        BY <1>5, <2>1, <3>2, QueueAssumption DEF Terminal
      <4>4. Board!Reopen(k)
        BY <2>5, <2>6, <2>8, <3>2, <4>2, <4>3 DEF Board!Reopen
      <4> QED BY <4>4 DEF Board!Next
    <3> QED BY <1>5, <3>1, <3>2
  <2> QED BY <2>1, <2>7, <2>8
\* A worker gives its row up, if it has one, and writes nothing.
<1>6. ASSUME NEW w \in Workers, row' = row, \A v \in Workers : v # w => runner'[v] = runner[v],
             runner'[w].at \notin Working
      PROVE  [Board!Next]_TaskMap
  <2>1. \A i \in Jobs : ~WorksOn(w, i)'
    BY <1>6 DEF WorksOn
  <2>2. CASE \A i \in Jobs : WorksOn(w, i) => row[i].status # "CLAIMED"
    <3>1. ASSUME NEW i \in Jobs PROVE RowKept(i)
      <4>1. CASE WorksOn(w, i)
        <5>1. row[i].status \notin Active
          BY <1>0, <2>2, <4>1 DEF ClaimStaysMine, WorksOn
        <5> QED BY <1>6, <5>1 DEF RowKept
      <4>2. CASE ~WorksOn(w, i)
        BY <1>6, <2>1, <4>2, StateKept
      <4> QED BY <4>1, <4>2
    <3> QED BY <1>2, <3>1
  <2>3. ASSUME NEW j \in Jobs, WorksOn(w, j), row[j].status = "CLAIMED"
        PROVE  [Board!Next]_TaskMap
    <3>1. PICK k \in Keys : k = row[j].key
      BY <1>0, <2>3 DEF KeysKnown
    <3>2. \A i \in Jobs : i # j => ~WorksOn(w, i)
      BY <2>3 DEF WorksOn
    <3>3. \A i \in Jobs : i # j => RowKept(i)
      BY <1>6, <2>1, <3>2, StateKept
    <3>4. TaskMap' = [TaskMap EXCEPT ![k] = TaskOf(k)']
      BY <1>6, <3>1, <3>3, OneTask
    <3>5. TaskMap[k] = [state |-> "running", failures |-> row[j].attempt]
      BY <1>1, <2>3, <3>1 DEF ActiveTasks, StateOf, Abandoned
    <3>6. \A v \in Workers : ~WorksOn(v, j)'
      <4>1. \A v \in Workers : v # w => ~WorksOn(v, j)
        BY <1>0, <2>3 DEF OneRunnerPerRow
      <4> QED BY <1>6, <2>1, <4>1 DEF WorksOn
    <3>7. TaskOf(k)' = [state |-> "stranded", failures |-> row[j].attempt]
      <4>1. StateOf(j)' = "stranded"
        BY <1>6, <2>3, <3>6 DEF StateOf, Abandoned
      <4> QED BY <1>6, <2>3, <3>1, <4>1 DEF ActiveTasks
    <3>8. Board!Strand(k)
      <4>1. [TaskMap[k] EXCEPT !.state = "stranded"] = TaskOf(k)'
        BY <3>5, <3>7
      <4>2. TaskMap' = [TaskMap EXCEPT ![k] = [TaskMap[k] EXCEPT !.state = "stranded"]]
        BY <3>4, <4>1
      <4> QED BY <3>5, <4>2 DEF Board!Strand
    <3> QED BY <3>8 DEF Board!Next
  <2> QED BY <2>2, <2>3
\* A worker goes on with its row and writes nothing.
<1>7. ASSUME NEW w \in Workers, row' = row, runner[w].at \in Working,
             NEW at \in Working, runner' = [runner EXCEPT ![w].at = at]
      PROVE  TaskMap' = TaskMap
  <2>1. /\ runner'[w].at = at /\ runner'[w].job = runner[w].job
        /\ \A v \in Workers : v # w => runner'[v] = runner[v]
    BY <1>0, <1>7 DEF Runner
  <2>2. \A i \in Jobs : WorksOn(w, i)' <=> WorksOn(w, i)
    BY <1>7, <2>1 DEF WorksOn
  <2>3. \A i \in Jobs : RowKept(i)
    BY <1>7, <2>1, <2>2, StateKept
  <2> QED BY <1>2, <2>3
<1>8. /\ Polling.at \notin Working /\ Down.at \notin Working
  BY DEF Polling, Down, Working, Failing
<1>9. ASSUME NEW w \in Workers, NEW j \in Jobs, ClaimNext(w, j)
      PROVE  [Board!Next]_TaskMap
  <2>1. /\ \A v \in Workers : v # w => runner'[v] = runner[v]
        /\ runner'[w].job = j
    BY <1>0, <1>9 DEF ClaimNext
  <2>2. \A i \in Jobs : i # j => ~WorksOn(w, i)'
    BY <2>1 DEF WorksOn
  <2> QED BY <1>4, <1>9, <2>1, <2>2 DEF ClaimNext
<1>10. ASSUME NEW w \in Workers, ClaimNextFails(w)
       PROVE  [Board!Next]_TaskMap
  <2>1. /\ \A v \in Workers : v # w => runner'[v] = runner[v]
        /\ runner'[w].at \notin Working
    BY <1>0, <1>8, <1>10 DEF ClaimNextFails
  <2>2. \A i \in Jobs : ~WorksOn(w, i)'
    BY <2>1 DEF WorksOn
  <2>3. CASE row' = row
    BY <1>6, <2>1, <2>3
  <2>4. ASSUME NEW j \in Jobs, IsNext(j), row' = [row EXCEPT ![j] = Claimed(row[j])]
        PROVE  [Board!Next]_TaskMap
    BY <1>4, <1>10, <2>1, <2>2, <2>4 DEF ClaimNextFails
  <2> QED BY <1>10, <2>3, <2>4 DEF ClaimNextFails
<1>11. ASSUME NEW w \in Workers, MarkCompleted(w) \/ MarkCompletedFails(w)
       PROVE  [Board!Next]_TaskMap
  <2>1. PICK j \in Jobs : j = runner[w].job
    BY <1>0, <1>11 DEF MarkCompleted, MarkCompletedFails, TypeOK, Working
  <2>2. /\ runner[w].at \in Working
        /\ \A v \in Workers : v # w => runner'[v] = runner[v]
        /\ \A i \in Jobs : i # j => ~WorksOn(w, i)'
    BY <1>0, <1>8, <1>11, <2>1 DEF MarkCompleted, MarkCompletedFails, WorksOn, Working, Runner
  <2>3. CASE row' = [row EXCEPT ![runner[w].job] = Completed(row[runner[w].job])]
    <3>1. /\ Completed(row[runner[w].job]).key = row[runner[w].job].key
          /\ Completed(row[runner[w].job]).status \in Terminal
      BY <1>0, <2>1, StatementFields DEF Terminal
    <3> QED BY <1>5, <2>1, <2>2, <2>3, <3>1
  <2>4. CASE row' = row /\ runner' = [runner EXCEPT ![w].at = "failedRetryable"]
    <3>1. "failedRetryable" \in Working
      BY DEF Working, Failing
    <3> QED BY <1>7, <2>2, <2>4, <3>1
  <2> QED BY <1>11, <2>3, <2>4 DEF MarkCompleted, MarkCompletedFails
<1>12. ASSUME NEW w \in Workers, RecordFailure(w) \/ RecordFailureFails(w)
       PROVE  [Board!Next]_TaskMap
  <2>1. PICK j \in Jobs : j = runner[w].job
    BY <1>0, <1>12 DEF RecordFailure, RecordFailureFails, TypeOK, Working
  <2>2. /\ runner[w].at \in Working /\ runner[w].attempt \in Nat
        /\ \A v \in Workers : v # w => runner'[v] = runner[v]
        /\ runner'[w].at \notin Working
    BY <1>0, <1>8, <1>12 DEF RecordFailure, RecordFailureFails, Working, Runner
  <2>3. \A i \in Jobs : ~WorksOn(w, i)'
    BY <2>2 DEF WorksOn
  <2>4. CASE row' = [row EXCEPT ![runner[w].job] = FailureRow(w)] /\ ~Conflicts(w)
    <3>1. /\ FailureRow(w).key = row[runner[w].job].key
          /\ Exhausted(w) => FailureRow(w).status = "DEAD"
          /\ ~Exhausted(w) => /\ FailureRow(w).status = "QUEUED"
                              /\ FailureRow(w).attempt = runner[w].attempt + 1
      BY <1>0, <2>1, FailureRowFields
    <3>2. ~Exhausted(w) => runner[w].attempt + 1 < MaxAttempts
      BY <2>2, QueueAssumption DEF Exhausted
    <3> QED BY <1>5, <2>2, <2>3, <2>4, <3>1, <3>2 DEF Terminal
  <2>5. CASE row' = row
    BY <1>6, <2>2, <2>5
  <2> QED BY <1>12, <2>4, <2>5 DEF RecordFailure, RecordFailureFails
<1>13. ASSUME NEW w \in Workers, Work(w)
       PROVE  [Board!Next]_TaskMap
  <2>1. CASE HandleSucceeds(w)
    BY <1>7, <2>1 DEF HandleSucceeds, Working
  <2>2. ASSUME NEW outcome \in Failing, HandleFails(w, outcome)
        PROVE  [Board!Next]_TaskMap
    BY <1>7, <2>2 DEF HandleFails, Working
  <2> QED BY <1>9, <1>11, <1>12, <1>13, <2>1, <2>2 DEF Work
<1>14. ASSUME NEW w \in Workers, Crash(w) \/ Restart(w)
       PROVE  [Board!Next]_TaskMap
  BY <1>0, <1>6, <1>8, <1>14 DEF Crash, Restart
<1>15. CASE Tick
  <2>1. \A j \in Jobs : /\ row'[j].key = row[j].key /\ row'[j].status = row[j].status
                        /\ row'[j].attempt = row[j].attempt
    BY <1>0, <1>15, StatementFields DEF Tick
  <2>2. runner' = runner
    BY <1>15 DEF Tick
  <2>3. \A j \in Jobs : RowKept(j)
    BY <2>1, <2>2 DEF RowKept, StateOf, Abandoned, WorksOn
  <2> QED BY <1>2, <2>3
\* The keys whose claim was stale have their work returned, uncharged.
<1>16. CASE RecoverStaleClaims
  <2>1. RecoveryWired /\ TimelyHandlers /\ runner' = runner
    BY <1>16 DEF RecoverStaleClaims, SafeRecovery
  <2>2. PICK J \in SUBSET StaleClaims :
          row' = [j \in Jobs |-> IF j \in J THEN Requeued(row[j], row[j].attempt, 0) ELSE row[j]]
    BY <1>16 DEF RecoverStaleClaims
  <2>3. \A j \in J : j \in Jobs /\ row[j].status = "CLAIMED" /\ Abandoned(j)
    BY <2>1 DEF StaleClaims
  <2>4. \A j \in J : /\ row'[j].key = row[j].key /\ row'[j].attempt = row[j].attempt
                     /\ row'[j].status = "QUEUED"
    BY <1>0, <2>2, <2>3, StatementFields
  <2>5. \A j \in Jobs \ J : RowKept(j)
    BY <2>1, <2>2 DEF RowKept, StateOf, Abandoned, WorksOn
  <2> DEFINE K == {k \in Keys : \E j \in J : row[j].key = k}
  <2>6. ASSUME NEW k \in Keys, k \notin K
        PROVE  TaskOf(k)' = TaskOf(k)
    <3>1. \A i \in Jobs : row[i].key = k \/ row'[i].key = k => i \notin J
      BY <2>4, <2>6
    <3> QED BY <2>5, <3>1, TaskKept
  <2>7. ASSUME NEW k \in K
        PROVE  TaskMap[k].state = "stranded" /\ TaskOf(k)' = [TaskMap[k] EXCEPT !.state = "pending"]
    <3>1. PICK j \in J : row[j].key = k
      OBVIOUS
    <3>2. TaskMap[k] = [state |-> "stranded", failures |-> row[j].attempt]
      BY <1>1, <2>3, <3>1 DEF ActiveTasks, StateOf
    <3>3. TaskOf(k)' = [state |-> "pending", failures |-> row[j].attempt]
      <4>1. j \in Jobs /\ row'[j].key = k /\ row'[j].status = "QUEUED"
            /\ row'[j].attempt = row[j].attempt
        BY <2>3, <2>4, <3>1
      <4> QED BY <4>1 DEF ActiveTasks, StateOf
    <3> QED BY <3>2, <3>3
  <2>8. K \in SUBSET Keys
    OBVIOUS
  <2> HIDE DEF K
  <2>9. TaskMap' = [k \in Keys |-> IF k \in K THEN [TaskMap[k] EXCEPT !.state = "pending"]
                                   ELSE TaskMap[k]]
    BY <1>1, <2>6, <2>7, <2>8 DEF TaskMap
  <2>10. Board!Return(K)
    BY <2>1, <2>7, <2>9 DEF Board!Return
  <2> QED BY <2>8, <2>10 DEF Board!Next
<1>17. CASE UNCHANGED vars
  BY <1>2, <1>17 DEF vars, RowKept, StateOf, Abandoned, WorksOn
<1>18. QED
  BY <1>3, <1>10, <1>13, <1>14, <1>15, <1>16, <1>17 DEF Next

\* The queue, with its rows, claims, clocks, crashes, failing and unacknowledged
\* statements, shows its producers nothing but the board: one task per key, one worker
\* on it, a bounded number of failures, and stranded work where a worker was lost.
THEOREM QueueImplementsBoard ==
  ASSUME SafeRecovery
  PROVE  Spec => ImplementsBoard
<1>1. QueueInv /\ QueueInv' /\ ActiveTasks /\ ActiveTasks' /\ [Next]_vars
        => [Board!Next]_TaskMap
  BY BoardStep
<1>2. Spec => []ActiveTasks
  BY ClaimProtocol, TaskOfActive, PTL
<1>3. QED
  BY <1>1, <1>2, BoardInit, ClaimProtocol, PTL DEF Spec, ImplementsBoard, Board!BoardSafety
=============================================================================
