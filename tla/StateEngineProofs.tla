-------------------------- MODULE StateEngineProofs --------------------------
(***************************************************************************)
(* Lemmas about the state engine's list of rules, for the proofs about what *)
(* is derived (ReconciliationProofs) and what goes on record and is shown    *)
(* (RecordProofs): which rule decides, with which verdict.  The library      *)
(* gives induction as "< is well-founded on Nat" (LeastNatural, Induction).  *)
(***************************************************************************)
EXTENDS StateEngine, SequenceTheorems, WellFoundedInduction, TLAPS

-----------------------------------------------------------------------------
(* Induction *)

\* Every set of naturals that is not empty has a least element: the library states
\* that < is well-founded on Nat.
LEMMA LeastNatural ==
  ASSUME NEW T \in SUBSET Nat, T # {}
  PROVE  \E n \in T : \A m \in T : n <= m
<1> DEFINE R == OpToRel(<, Nat)
<1>1. IsWellFoundedOn(R, Nat)
  BY NatLessThanWellFounded, Zenon
<1>2. \A x, y \in Nat : y < x => <<y, x>> \in R
  BY DEF OpToRel
<1> HIDE DEF R
<1>3. PICK x \in T : \A y \in T : ~(<<y, x>> \in R)
  BY <1>1, WFMin
<1>4. ASSUME NEW y \in T PROVE x <= y
  <2>1. x \in Nat /\ y \in Nat
    OBVIOUS
  <2>2. ~(y < x)
    <3>1. ~(<<y, x>> \in R)
      BY <1>3
    <3> QED BY <3>1, <2>1, <1>2, Zenon
  <2> QED BY <2>1, <2>2
<1> QED BY <1>4

\* Induction, on the set of the naturals that have a property.
LEMMA Induction ==
  ASSUME NEW T \in SUBSET Nat, 0 \in T, \A n \in T : n + 1 \in T
  PROVE  T = Nat
<1> SUFFICES ASSUME Nat \ T # {} PROVE FALSE
  OBVIOUS
<1>1. PICK n \in Nat \ T : \A m \in Nat \ T : n <= m
  BY LeastNatural
<1>2. n # 0 /\ n - 1 \in Nat /\ n - 1 \in T
  BY <1>1
<1> QED BY <1>2

-----------------------------------------------------------------------------
(* The rules *)

\* The elements of two lists joined by \o.
LEMMA Joined ==
  ASSUME NEW S, NEW a \in Seq(S), NEW b \in Seq(S)
  PROVE  /\ a \o b \in Seq(S) /\ Len(a \o b) = Len(a) + Len(b)
         /\ \A i \in 1 .. Len(a) : (a \o b)[i] = a[i]
         /\ \A i \in 1 .. Len(b) : (a \o b)[i + Len(a)] = b[i]
<1>1. /\ a \o b \in Seq(S) /\ Len(a \o b) = Len(a) + Len(b)
      /\ \A i \in 1 .. Len(a) + Len(b) :
           (a \o b)[i] = IF i <= Len(a) THEN a[i] ELSE b[i - Len(a)]
  BY ConcatProperties
<1>2. Len(a) \in Nat /\ Len(b) \in Nat
  BY LenProperties
<1>3. ASSUME NEW i \in 1 .. Len(a) PROVE (a \o b)[i] = a[i]
  <2>1. i \in 1 .. Len(a) + Len(b) /\ i <= Len(a)
    BY <1>2
  <2> QED BY <1>1, <2>1
<1>4. ASSUME NEW i \in 1 .. Len(b) PROVE (a \o b)[i + Len(a)] = b[i]
  <2>1. /\ i + Len(a) \in 1 .. Len(a) + Len(b) /\ ~(i + Len(a) <= Len(a))
        /\ i + Len(a) - Len(a) = i
    BY <1>2
  <2> QED BY <1>1, <2>1
<1> QED BY <1>1, <1>3, <1>4

\* The fourteen rules: lifecycle, checks, reviews, in this order.
LEMMA RulesAre ==
  ASSUME NEW s
  PROVE  /\ DOMAIN Rules(s) = 1 .. 14
         /\ \A i \in 1 .. 3 : Rules(s)[i] = LifecycleRules(s)[i]
         /\ \A i \in 1 .. 3 : Rules(s)[i + 3] = ChecksRules(s)[i]
         /\ \A i \in 1 .. 8 : Rules(s)[i + 6] = ReviewRules(s)[i]
<1>1. PICK L : L = LifecycleRules(s)
  OBVIOUS
<1>2. PICK C : C = ChecksRules(s)
  OBVIOUS
<1>3. PICK R : R = ReviewRules(s)
  OBVIOUS
<1>4. PICK A : L \in Seq(A) /\ Len(L) = 3
  <2>1. L \in Seq({L[1], L[2], L[3]}) /\ Len(L) = 3
    BY <1>1 DEF LifecycleRules
  <2> QED BY <2>1
<1>5. PICK B : C \in Seq(B) /\ Len(C) = 3
  <2>1. C \in Seq({C[1], C[2], C[3]}) /\ Len(C) = 3
    BY <1>2 DEF ChecksRules
  <2> QED BY <2>1
<1>6. PICK D : R \in Seq(D) /\ Len(R) = 8
  <2>1. /\ R \in Seq({R[1], R[2], R[3], R[4], R[5], R[6], R[7], R[8]})
        /\ Len(R) = 8
    BY <1>3 DEF ReviewRules
  <2> QED BY <2>1
<1>7. PICK S : S = A \union B \union D
  OBVIOUS
<1>8. A \subseteq S /\ B \subseteq S /\ D \subseteq S
  BY <1>7
<1>9. L \in Seq(S) /\ C \in Seq(S) /\ R \in Seq(S)
  BY <1>4, <1>5, <1>6, <1>8, SeqMonotonic
<1>10. Rules(s) = L \o C \o R
  BY <1>1, <1>2, <1>3 DEF Rules
<1>11. PICK M : M = L \o C
  OBVIOUS
<1>12. /\ M \in Seq(S) /\ Len(M) = 6
       /\ \A i \in 1 .. 3 : M[i] = L[i]
       /\ \A i \in 1 .. 3 : M[i + 3] = C[i]
  <2>1. /\ L \o C \in Seq(S) /\ Len(L \o C) = Len(L) + Len(C)
        /\ \A i \in 1 .. Len(L) : (L \o C)[i] = L[i]
        /\ \A i \in 1 .. Len(C) : (L \o C)[i + Len(L)] = C[i]
    <3>1. L \o C \in Seq(S) /\ Len(L \o C) = Len(L) + Len(C)
      BY <1>9, Joined
    <3>2. \A i \in 1 .. Len(L) : (L \o C)[i] = L[i]
      BY <1>9, Joined
    <3>3. \A i \in 1 .. Len(C) : (L \o C)[i + Len(L)] = C[i]
      BY <1>9, Joined
    <3> QED BY <3>1, <3>2, <3>3
  <2>2. /\ M \in Seq(S) /\ Len(M) = Len(L) + Len(C)
        /\ \A i \in 1 .. Len(L) : M[i] = L[i]
        /\ \A i \in 1 .. Len(C) : M[i + Len(L)] = C[i]
    BY <2>1, <1>11, Zenon
  <2> QED BY <2>2, <1>4, <1>5
<1>13. M \in Seq(S)
  BY <1>12
<1>14. /\ Rules(s) \in Seq(S) /\ Len(Rules(s)) = 14
       /\ \A i \in 1 .. 6 : Rules(s)[i] = M[i]
       /\ \A i \in 1 .. 8 : Rules(s)[i + 6] = R[i]
  <2>1. /\ M \o R \in Seq(S) /\ Len(M \o R) = Len(M) + Len(R)
        /\ \A i \in 1 .. Len(M) : (M \o R)[i] = M[i]
        /\ \A i \in 1 .. Len(R) : (M \o R)[i + Len(M)] = R[i]
    <3>1. M \o R \in Seq(S) /\ Len(M \o R) = Len(M) + Len(R)
      BY <1>9, <1>13, Joined
    <3>2. \A i \in 1 .. Len(M) : (M \o R)[i] = M[i]
      BY <1>9, <1>13, Joined
    <3>3. \A i \in 1 .. Len(R) : (M \o R)[i + Len(M)] = R[i]
      BY <1>9, <1>13, Joined
    <3> QED BY <3>1, <3>2, <3>3
  <2>2. /\ Rules(s) \in Seq(S) /\ Len(Rules(s)) = Len(M) + Len(R)
        /\ \A i \in 1 .. Len(M) : Rules(s)[i] = M[i]
        /\ \A i \in 1 .. Len(R) : Rules(s)[i + Len(M)] = R[i]
    BY <2>1, <1>11, <1>10, Zenon
  <2> QED BY <2>2, <1>12, <1>6
<1>15. DOMAIN Rules(s) = 1 .. 14
  BY <1>14, LenProperties
<1>16. ASSUME NEW i \in 1 .. 3 PROVE Rules(s)[i] = L[i] /\ Rules(s)[i + 3] = C[i]
  <2>1. i \in 1 .. 6 /\ i + 3 \in 1 .. 6
    OBVIOUS
  <2> QED BY <2>1, <1>12, <1>14
<1> QED BY <1>1, <1>2, <1>3, <1>14, <1>15, <1>16

\* At most one rule is the first that applies.
LEMMA TheRuleDecides ==
  ASSUME NEW s, NEW i \in 1 .. 14, Decides(Rules(s), i)
  PROVE  Evaluate(s) = Rules(s)[i].verdict
<1>1. ASSUME NEW k \in 1 .. 14, Decides(Rules(s), k)
      PROVE  k = i
  <2>1. CASE k < i
    <3>1. k \in 1 .. i - 1
      BY <2>1
    <3> QED BY <3>1, <1>1 DEF Decides
  <2>2. CASE i < k
    <3>1. i \in 1 .. k - 1
      BY <2>2
    <3> QED BY <3>1, <1>1 DEF Decides
  <2> QED BY <2>1, <2>2
<1>2. (CHOOSE k \in DOMAIN Rules(s) : Decides(Rules(s), k)) = i
  BY <1>1, RulesAre
<1> QED BY <1>2 DEF Evaluate

\* RulesAre, for each rule.
LEMMA RuleByRule ==
  ASSUME NEW s
  PROVE  /\ Rules(s)[1] = LifecycleRules(s)[1] /\ Rules(s)[2] = LifecycleRules(s)[2]
         /\ Rules(s)[3] = LifecycleRules(s)[3]
         /\ Rules(s)[4] = ChecksRules(s)[1] /\ Rules(s)[5] = ChecksRules(s)[2]
         /\ Rules(s)[6] = ChecksRules(s)[3]
         /\ Rules(s)[7] = ReviewRules(s)[1] /\ Rules(s)[8] = ReviewRules(s)[2]
         /\ Rules(s)[9] = ReviewRules(s)[3] /\ Rules(s)[10] = ReviewRules(s)[4]
         /\ Rules(s)[11] = ReviewRules(s)[5] /\ Rules(s)[12] = ReviewRules(s)[6]
         /\ Rules(s)[13] = ReviewRules(s)[7] /\ Rules(s)[14] = ReviewRules(s)[8]
<1>1. \A i \in 1 .. 3 : i + 3 \in 1 .. 14 /\ i + 6 \in 1 .. 14
  OBVIOUS
<1>2. 1 + 3 = 4 /\ 2 + 3 = 5 /\ 3 + 3 = 6
  OBVIOUS
<1>3. /\ 1 + 6 = 7 /\ 2 + 6 = 8 /\ 3 + 6 = 9 /\ 4 + 6 = 10
      /\ 5 + 6 = 11 /\ 6 + 6 = 12 /\ 7 + 6 = 13 /\ 8 + 6 = 14
  OBVIOUS
<1>4. 1 \in 1 .. 3 /\ 2 \in 1 .. 3 /\ 3 \in 1 .. 3
  OBVIOUS
<1>5. /\ 1 \in 1 .. 8 /\ 2 \in 1 .. 8 /\ 3 \in 1 .. 8 /\ 4 \in 1 .. 8
      /\ 5 \in 1 .. 8 /\ 6 \in 1 .. 8 /\ 7 \in 1 .. 8 /\ 8 \in 1 .. 8
  OBVIOUS
<1>6. /\ Rules(s)[1] = LifecycleRules(s)[1] /\ Rules(s)[2] = LifecycleRules(s)[2]
      /\ Rules(s)[3] = LifecycleRules(s)[3]
  BY <1>4, RulesAre
<1>7. /\ Rules(s)[4] = ChecksRules(s)[1] /\ Rules(s)[5] = ChecksRules(s)[2]
      /\ Rules(s)[6] = ChecksRules(s)[3]
  BY <1>2, <1>4, RulesAre
<1>8. /\ Rules(s)[7] = ReviewRules(s)[1] /\ Rules(s)[8] = ReviewRules(s)[2]
      /\ Rules(s)[9] = ReviewRules(s)[3] /\ Rules(s)[10] = ReviewRules(s)[4]
      /\ Rules(s)[11] = ReviewRules(s)[5] /\ Rules(s)[12] = ReviewRules(s)[6]
      /\ Rules(s)[13] = ReviewRules(s)[7] /\ Rules(s)[14] = ReviewRules(s)[8]
  BY <1>3, <1>5, RulesAre
<1> QED BY <1>6, <1>7, <1>8

\* The condition of each rule.
LEMMA TheRulesApply ==
  ASSUME NEW s \in PullRequestSnapshot
  PROVE  /\ Rules(s)[1].applies <=> s.isMerged
         /\ Rules(s)[2].applies <=> ~s.isOpen
         /\ Rules(s)[3].applies <=> s.isDraft
         /\ Rules(s)[4].applies <=> s.checkStatus = "FAILURE"
         /\ Rules(s)[5].applies <=> s.checkStatus = "PENDING"
         /\ Rules(s)[6].applies <=> s.checkStatus = "UNKNOWN"
         /\ Rules(s)[7].applies <=> s.reviewDecision = "UNKNOWN"
         /\ Rules(s)[8].applies <=> s.reviewDecision = "CHANGES_REQUESTED" /\ s.authorHasChangesToMake
         /\ Rules(s)[9].applies <=> s.reviewDecision = "CHANGES_REQUESTED"
         /\ Rules(s)[10].applies <=> s.hasMergeConflict
         /\ Rules(s)[11].applies <=> /\ s.reviewDecision = "REVIEW_REQUIRED" /\ CiSatisfied(s)
                                     /\ ~s.authorHasChangesToMake /\ s.maintainerReviewRequired
         /\ Rules(s)[12].applies <=> s.reviewDecision = "APPROVED" /\ s.maintainerReviewRequired
         /\ Rules(s)[13].applies <=> ReadyRule(s)
         /\ Rules(s)[14].applies
<1>1. /\ LifecycleRules(s)[1].applies <=> s.isMerged
      /\ LifecycleRules(s)[2].applies <=> ~s.isOpen
      /\ LifecycleRules(s)[3].applies <=> s.isDraft
  BY DEF LifecycleRules, Rule, PullRequestSnapshot
<1>2. /\ ChecksRules(s)[1].applies <=> s.checkStatus = "FAILURE"
      /\ ChecksRules(s)[2].applies <=> s.checkStatus = "PENDING"
      /\ ChecksRules(s)[3].applies <=> s.checkStatus = "UNKNOWN"
  BY DEF ChecksRules, Rule
<1>3. /\ ReviewRules(s)[1].applies <=> s.reviewDecision = "UNKNOWN"
      /\ ReviewRules(s)[2].applies <=> s.reviewDecision = "CHANGES_REQUESTED" /\ s.authorHasChangesToMake
      /\ ReviewRules(s)[3].applies <=> s.reviewDecision = "CHANGES_REQUESTED"
      /\ ReviewRules(s)[4].applies <=> s.hasMergeConflict
  BY DEF ReviewRules, Rule
<1>4. /\ ReviewRules(s)[5].applies <=> /\ s.reviewDecision = "REVIEW_REQUIRED" /\ CiSatisfied(s)
                                      /\ ~s.authorHasChangesToMake /\ s.maintainerReviewRequired
      /\ ReviewRules(s)[6].applies <=> s.reviewDecision = "APPROVED" /\ s.maintainerReviewRequired
      /\ ReviewRules(s)[7].applies <=> ReadyRule(s)
      /\ ReviewRules(s)[8].applies
  BY DEF ReviewRules, Rule
<1> QED BY <1>1, <1>2, <1>3, <1>4, RuleByRule

\* The verdict of each rule.
LEMMA TheVerdicts ==
  ASSUME NEW s
  PROVE  /\ Rules(s)[1].verdict = Verdict("MERGED", "NONE", "READY_FOR_RELEASE", "PR_MERGED")
         /\ Rules(s)[2].verdict = Verdict("CLOSED", "NONE", "COMPLETE", "PR_CLOSED")
         /\ Rules(s)[3].verdict = AuthorsTurn("DRAFT", "PR_DRAFT")
         /\ Rules(s)[4].verdict = AuthorsTurn("OPEN", "CI_FAILED")
         /\ Rules(s)[5].verdict = Verdict("OPEN", "CI", "NOT_READY", "CI_PENDING")
         /\ Rules(s)[6].verdict = Ambiguous("CI_STATUS_UNKNOWN")
         /\ Rules(s)[7].verdict = Ambiguous("REVIEW_STATUS_UNKNOWN")
         /\ Rules(s)[8].verdict = AuthorsTurn("CHANGES_REQUESTED", "CHANGES_REQUESTED")
         /\ Rules(s)[9].verdict = Ambiguous("INCONSISTENT_CHANGE_REQUEST_STATE")
         /\ Rules(s)[10].verdict = AuthorsTurn("OPEN", "MERGE_CONFLICT")
         /\ Rules(s)[11].verdict = Verdict("IN_REVIEW", "MAINTAINER", "READY_FOR_REVIEW",
                                           "MAINTAINER_REVIEW_REQUIRED")
         /\ Rules(s)[12].verdict = Ambiguous("INCONSISTENT_REVIEW_STATE")
         /\ Rules(s)[13].verdict = Verdict("READY_TO_MERGE", "MAINTAINER", "READY_TO_MERGE",
                                           "READY_TO_MERGE")
         /\ Rules(s)[14].verdict = Ambiguous("NO_MATCHING_RULE")
<1>1. /\ LifecycleRules(s)[1].verdict = Verdict("MERGED", "NONE", "READY_FOR_RELEASE", "PR_MERGED")
      /\ LifecycleRules(s)[2].verdict = Verdict("CLOSED", "NONE", "COMPLETE", "PR_CLOSED")
      /\ LifecycleRules(s)[3].verdict = AuthorsTurn("DRAFT", "PR_DRAFT")
  BY DEF LifecycleRules, Rule
<1>2. /\ ChecksRules(s)[1].verdict = AuthorsTurn("OPEN", "CI_FAILED")
      /\ ChecksRules(s)[2].verdict = Verdict("OPEN", "CI", "NOT_READY", "CI_PENDING")
      /\ ChecksRules(s)[3].verdict = Ambiguous("CI_STATUS_UNKNOWN")
  BY DEF ChecksRules, Rule
<1>3. /\ ReviewRules(s)[1].verdict = Ambiguous("REVIEW_STATUS_UNKNOWN")
      /\ ReviewRules(s)[2].verdict = AuthorsTurn("CHANGES_REQUESTED", "CHANGES_REQUESTED")
      /\ ReviewRules(s)[3].verdict = Ambiguous("INCONSISTENT_CHANGE_REQUEST_STATE")
      /\ ReviewRules(s)[4].verdict = AuthorsTurn("OPEN", "MERGE_CONFLICT")
      /\ ReviewRules(s)[5].verdict = Verdict("IN_REVIEW", "MAINTAINER", "READY_FOR_REVIEW",
                                             "MAINTAINER_REVIEW_REQUIRED")
      /\ ReviewRules(s)[6].verdict = Ambiguous("INCONSISTENT_REVIEW_STATE")
      /\ ReviewRules(s)[7].verdict = Verdict("READY_TO_MERGE", "MAINTAINER", "READY_TO_MERGE",
                                             "READY_TO_MERGE")
      /\ ReviewRules(s)[8].verdict = Ambiguous("NO_MATCHING_RULE")
  BY DEF ReviewRules, Rule
<1> QED BY <1>1, <1>2, <1>3, RuleByRule
-----------------------------------------------------------------------------
(* What evaluatePullRequest can answer *)

\* The verdicts, rule by rule.
KnownVerdicts ==
  {Verdict("MERGED", "NONE", "READY_FOR_RELEASE", "PR_MERGED"),
   Verdict("CLOSED", "NONE", "COMPLETE", "PR_CLOSED"),
   AuthorsTurn("DRAFT", "PR_DRAFT"), AuthorsTurn("OPEN", "CI_FAILED"),
   Verdict("OPEN", "CI", "NOT_READY", "CI_PENDING"),
   AuthorsTurn("CHANGES_REQUESTED", "CHANGES_REQUESTED"),
   AuthorsTurn("OPEN", "MERGE_CONFLICT"),
   Verdict("IN_REVIEW", "MAINTAINER", "READY_FOR_REVIEW", "MAINTAINER_REVIEW_REQUIRED"),
   Verdict("READY_TO_MERGE", "MAINTAINER", "READY_TO_MERGE", "READY_TO_MERGE")}
  \union {Ambiguous(reason) : reason \in
            {"CI_STATUS_UNKNOWN", "REVIEW_STATUS_UNKNOWN", "INCONSISTENT_CHANGE_REQUEST_STATE",
             "INCONSISTENT_REVIEW_STATE", "NO_MATCHING_RULE"}}

\* The rules are total: of every snapshot there is a first rule that applies, and
\* evaluatePullRequest answers its verdict.
THEOREM TheFirstRuleDecides ==
  ASSUME NEW s \in PullRequestSnapshot
  PROVE  \E i \in 1 .. 14 : Decides(Rules(s), i) /\ Evaluate(s) = Rules(s)[i].verdict
<1> DEFINE T == {i \in 1 .. 14 : Rules(s)[i].applies}
<1>1. T \in SUBSET Nat /\ T # {}
  <2>1. 14 \in T
    BY TheRulesApply
  <2> QED BY <2>1
<1>2. PICK i \in T : \A j \in T : i <= j
  <2> HIDE DEF T
  <2> QED BY <1>1, LeastNatural
<1>3. ASSUME NEW j \in 1 .. i - 1 PROVE ~Rules(s)[j].applies
  <2>1. j \in 1 .. 14 /\ ~(i <= j)
    OBVIOUS
  <2> QED BY <2>1, <1>2
<1>4. Decides(Rules(s), i)
  BY <1>2, <1>3 DEF Decides
<1> QED BY <1>4, TheRuleDecides

\* Whose turn it is and how ready the pull request is follow from one of fourteen
\* reasons; nothing else is ever answered.
THEOREM VerdictsAreKnown ==
  ASSUME NEW s \in PullRequestSnapshot
  PROVE  Evaluate(s) \in KnownVerdicts
<1>1. PICK i \in 1 .. 14 : Evaluate(s) = Rules(s)[i].verdict
  BY TheFirstRuleDecides
<1>2. \/ i = 1 \/ i = 2 \/ i = 3 \/ i = 4 \/ i = 5 \/ i = 6 \/ i = 7
      \/ i = 8 \/ i = 9 \/ i = 10 \/ i = 11 \/ i = 12 \/ i = 13 \/ i = 14
  OBVIOUS
<1> QED
  BY <1>1, <1>2, TheVerdicts, Zenon DEF KnownVerdicts
=============================================================================
