---------------------------- MODULE MCReconciler ----------------------------
(* What a reconciliation makes of GitHub's answers, for every short list of     *)
(* answers (Derivation) and for the answers to requests between which the pull  *)
(* request changes (Reconciliation).  A behaviour is about one of the two.      *)
EXTENDS Derivation, Reconciliation, TLC

CONSTANTS l1, l2, c1, c2, app1, app2

VARIABLE about

all == <<about, answers, vars>>

\* Reviewers are interchangeable.
Symmetry == Permutations(Logins)

Check(context, app) == [context |-> context, app |-> app]

\* For the lists: nothing required; two approvals, dismissed by pushes, and a check of
\* any app; a rule reviews cannot prove, a check of one app and one of any app.
ListRules ==
  { {},
    {PullRequestRule(1, TRUE, FALSE), PullRequestRule(2, FALSE, FALSE),
     RequiredChecks({Check("test", NoApp)})},
    {PullRequestRule(1, FALSE, FALSE), PullRequestRule(1, FALSE, TRUE),
     RequiredChecks({Check("build", app1)}), RequiredChecks({Check("test", NoApp)})} }

Build == RequiredChecks({Check("build", NoApp)})

\* For the runs, where rules can be read: the check and one fresh approval, or by a
\* change more than reviews can prove.
FirstRules == {Build, PullRequestRule(1, TRUE, FALSE)}
RunRules   == {FirstRules, {PullRequestRule(1, FALSE, TRUE)}}

SomeRules == ListRules \union RunRules

By(logins) == \A i \in DOMAIN reviewItems : reviewItems[i].login \in logins
OfTheHead  == \A i \in DOMAIN reviewItems : reviewItems[i].commit = HeadCommit

\* Lists of more than two entries only where they tell something.  Reviews: where the
\* rules are known and reviews can prove them; of reviewers without a login and one
\* with, all of the head, or of one reviewer, where pushes dismiss approvals.
\* Reports: for two required checks.
SmallAnswers ==
  /\ \/ policy = Policy({}, FALSE)
     \/ \E set \in ListRules : policy = Policy(set, TRUE)
  /\ Len(Reported) > MaxMixed => Cardinality(policy.required) > 1
  /\ Len(reviewItems) > MaxMixed =>
       /\ policy.available /\ ~policy.needsMore
       /\ \E l \in Logins : (By({l, NoLogin}) /\ OfTheHead) \/ (By({l}) /\ policy.dismissStale)

NoAnswers == /\ policy = Policy({}, FALSE)
             /\ reviewItems = <<>> /\ checkRuns = <<>> /\ statusItems = <<>>

ForRuns(rule, sets) == rule.available => rule.set \in sets

Nothing == Init /\ ~pr.draft /\ ~pr.conflict /\ ~rules.available

\* A run's pull request becomes a draft or gets a conflict, if it does, by a change
\* before or during it.
ReconcilerInit ==
  \/ about = "lists" /\ DerivationInit /\ SmallAnswers /\ Nothing
  \/ /\ about = "runs" /\ Init /\ ~pr.draft /\ ~pr.conflict
     /\ ForRuns(rules, {FirstRules}) /\ NoAnswers

ReconcilerNext ==
  \/ about = "lists" /\ DerivationNext /\ SmallAnswers' /\ UNCHANGED <<about, vars>>
  \/ about = "runs" /\ Next /\ ForRuns(rules', RunRules) /\ UNCHANGED <<about, answers>>

ReconcilerSpec == ReconcilerInit /\ [][ReconcilerNext]_all
=============================================================================
