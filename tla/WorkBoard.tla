----------------------------- MODULE WorkBoard -----------------------------
(***************************************************************************)
(* What the durable queue promises to the code that hands it work, with no  *)
(* rows, claims, clocks or worker processes: for every deduplication key    *)
(* there is at most one piece of work, it is worked on by at most one       *)
(* worker at a time, a failed try is charged to it, and it is given up when *)
(* the budget of tries is spent.  What it does not promise: work whose      *)
(* worker is gone is stranded, and its key stays taken.                     *)
(*                                                                          *)
(* JobQueue implements this specification.                                  *)
(***************************************************************************)
EXTENDS Naturals

CONSTANTS
  Keys,          \* deduplication keys
  MaxAttempts,   \* tries one piece of work is given
  MayReturn,     \* whether stranded work can be put back
  MayReopen      \* whether work that was done can be taken for a failed try

VARIABLE task    \* what there is to do under each key

NoTask == [state |-> "idle", failures |-> 0]

Init == task = [k \in Keys |-> NoTask]

\* A producer asks for work under k; while some is pending or running the
\* request is absorbed, which is a stuttering step.
Request(k) ==
  /\ task[k].state = "idle"
  /\ task' = [task EXCEPT ![k] = [state |-> "pending", failures |-> 0]]

Start(k) ==
  /\ task[k].state = "pending"
  /\ task' = [task EXCEPT ![k] = [@ EXCEPT !.state = "running"]]

\* A try failed and the budget allows another.
Retry(k) ==
  /\ task[k].state = "running"
  /\ task[k].failures + 1 < MaxAttempts
  /\ task' = [task EXCEPT ![k] = [state |-> "pending", failures |-> @.failures + 1]]

\* The work was done, or was given up.
Finish(k) ==
  /\ task[k].state = "running"
  /\ task' = [task EXCEPT ![k] = NoTask]

\* The worker is gone, or what it has to say of the work does not get through.
\* Pending work is stranded when it is handed to a worker that never learns of it.
Strand(k) ==
  /\ task[k].state \in {"pending", "running"}
  /\ task' = [task EXCEPT ![k].state = "stranded"]

\* Stranded work is put back, for several keys at once; the tries are not charged.
Return(K) ==
  /\ MayReturn
  /\ \A k \in K : task[k].state = "stranded"
  /\ task' = [k \in Keys |-> IF k \in K THEN [task[k] EXCEPT !.state = "pending"]
                             ELSE task[k]]

\* Work that was done is done again, because its worker took it for a failed try.
Reopen(k) ==
  /\ MayReopen
  /\ task[k].state = "idle"
  /\ \E n \in 1 .. MaxAttempts - 1 :
       task' = [task EXCEPT ![k] = [state |-> "pending", failures |-> n]]

Next == \/ \E k \in Keys : Request(k) \/ Start(k) \/ Retry(k) \/ Finish(k) \/ Strand(k) \/ Reopen(k)
        \/ \E K \in SUBSET Keys : Return(K)

BoardSafety == Init /\ [][Next]_task

\* Work is started, and work that was started reaches an outcome, unless it is
\* stranded.  Nobody owes stranded work anything.
BoardFairness ==
  \A k \in Keys : WF_task(Start(k)) /\ WF_task(Retry(k) \/ Finish(k))

BoardSpec == BoardSafety /\ BoardFairness
============================================================================
