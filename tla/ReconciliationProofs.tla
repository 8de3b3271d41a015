------------------------ MODULE ReconciliationProofs ------------------------
(***************************************************************************)
(* Theorems about reconcile-pull-request.ts and the state engine: what the  *)
(* fold over the pages keeps, which rule decides, what the derivations say   *)
(* of every list of reviews and reports (Derivation), and what a run that   *)
(* reads in several requests may conclude (Reconciliation).                 *)
(*                                                                         *)
(* Lists are of any length: the fold is followed by induction (Induction of  *)
(* StateEngineProofs).                                                      *)
(***************************************************************************)
EXTENDS Derivation, Reconciliation, StateEngineProofs, FiniteSetTheorems

-----------------------------------------------------------------------------
(* The fold of KeepNewest, entry by entry *)

\* Max finds the largest element: FoldLeft takes the entries from it.
LEMMA LargestOfInterval ==
  ASSUME NEW n \in Nat, NEW s \in SUBSET (1 .. n), s # {}
  PROVE  Max(s) \in s /\ \A i \in s : i <= Max(s)
<1> DEFINE gaps == {n - i : i \in s}
<1>1. gaps \in SUBSET Nat /\ gaps # {}
  <2>1. ASSUME NEW i \in s PROVE n - i \in Nat
    <3>1. i \in 1 .. n
      OBVIOUS
    <3> QED BY <3>1
  <2>2. PICK i \in s : TRUE
    OBVIOUS
  <2> QED BY <2>1, <2>2
<1>2. PICK g \in gaps : \A h \in gaps : g <= h
  BY <1>1, LeastNatural
<1>3. PICK x \in s : g = n - x
  BY <1>2
<1>4. \A i \in s : i <= x
  <2> SUFFICES ASSUME NEW i \in s PROVE i <= x
    OBVIOUS
  <2>1. n - i \in gaps /\ i \in 1 .. n /\ x \in 1 .. n
    OBVIOUS
  <2>2. n - x <= n - i
    BY <2>1, <1>2, <1>3
  <2> QED BY <2>1, <2>2
<1>5. \A i \in s : x >= i
  <2> SUFFICES ASSUME NEW i \in s PROVE x >= i
    OBVIOUS
  <2> QED BY <1>4
<1>6. Max(s) \in s /\ \A i \in s : Max(s) >= i
  BY <1>5 DEF Max
<1>7. Max(s) \in 1 .. n /\ \A i \in s : i \in 1 .. n
  BY <1>6
<1> QED BY <1>6, <1>7

\* iter is the function FoldLeft computes with.
FoldedBy(iter, entries, S) ==
  iter = [s \in SUBSET S |->
            IF s = {} THEN <<>>
            ELSE KeepNewest(iter[s \ {Max(s)}], entries[Max(s)])]

\* The recursion of FoldLeft has a solution on every interval: by induction.
LEMMA FoldExists ==
  ASSUME NEW entries
  PROVE  \A n \in Nat : \E iter : FoldedBy(iter, entries, 1 .. n)
<1> DEFINE T == {n \in Nat : \E iter : FoldedBy(iter, entries, 1 .. n)}
<1>1. 0 \in T
  <2> DEFINE iter == [s \in SUBSET (1 .. 0) |-> <<>>]
  <2>1. \A s \in SUBSET (1 .. 0) : s = {}
    OBVIOUS
  <2>2. FoldedBy(iter, entries, 1 .. 0)
    BY <2>1 DEF FoldedBy
  <2> QED BY <2>2
<1>2. ASSUME NEW n \in T PROVE n + 1 \in T
  <2>1. PICK g : FoldedBy(g, entries, 1 .. n)
    OBVIOUS
  <2> DEFINE m == n + 1
             h == [s \in SUBSET (1 .. m) |->
                     IF m \in s THEN KeepNewest(g[s \ {m}], entries[m]) ELSE g[s]]
  <2>2. ASSUME NEW s \in SUBSET (1 .. m)
        PROVE  h[s] = IF s = {} THEN <<>> ELSE KeepNewest(h[s \ {Max(s)}], entries[Max(s)])
    <3>1. CASE m \in s
      <4>1. Max(s) = m
        <5>1. m \in Nat /\ s # {}
          BY <3>1
        <5>2. Max(s) \in s /\ \A i \in s : i <= Max(s)
          <6> HIDE DEF m
          <6> QED BY <5>1, LargestOfInterval
        <5>3. Max(s) \in 1 .. m
          BY <5>2
        <5> HIDE DEF m
        <5> QED BY <5>1, <5>2, <5>3, <3>1
      <4>2. s \ {m} \in SUBSET (1 .. m) /\ m \notin s \ {m}
        OBVIOUS
      <4>3. h[s \ {m}] = g[s \ {m}] /\ h[s] = KeepNewest(g[s \ {m}], entries[m])
        BY <4>2, <3>1
      <4> HIDE DEF h
      <4> QED BY <4>1, <4>3, <3>1
    <3>2. CASE m \notin s
      <4>1. s \in SUBSET (1 .. n) /\ h[s] = g[s]
        BY <3>2
      <4>2. CASE s = {}
        <5>1. g[s] = <<>>
          BY <2>1, <4>1, <4>2 DEF FoldedBy
        <5> HIDE DEF h
        <5> QED BY <5>1, <4>1, <4>2
      <4>3. CASE s # {}
        <5>1. g[s] = KeepNewest(g[s \ {Max(s)}], entries[Max(s)])
          BY <2>1, <4>1, <4>3 DEF FoldedBy
        <5>2. h[s \ {Max(s)}] = g[s \ {Max(s)}]
          BY <3>2
        <5> HIDE DEF h
        <5> QED BY <5>1, <5>2, <4>1, <4>3
      <4> QED BY <4>2, <4>3
    <3> QED BY <3>1, <3>2
  <2>3. h = [s \in SUBSET (1 .. m) |->
               IF s = {} THEN <<>> ELSE KeepNewest(h[s \ {Max(s)}], entries[Max(s)])]
    <3>1. h = [s \in SUBSET (1 .. m) |-> h[s]]
      OBVIOUS
    <3> HIDE DEF h
    <3> QED BY <3>1, <2>2, Zenon
  <2>4. FoldedBy(h, entries, 1 .. m)
    BY <2>3 DEF FoldedBy
  <2> QED BY <2>4
<1>3. T = Nat
  <2>1. T \in SUBSET Nat
    OBVIOUS
  <2> HIDE DEF T
  <2> QED BY <1>1, <1>2, <2>1, Induction
<1> QED BY <1>3

\* FoldLeft goes through the list from its first entry to its last.
LEMMA FoldSteps ==
  ASSUME NEW n \in Nat, NEW entries, DOMAIN entries = 1 .. n
  PROVE  \E kept : /\ kept[0] = <<>>
                   /\ \A i \in 1 .. n : kept[i] = KeepNewest(kept[i - 1], entries[i])
                   /\ FoldLeft(KeepNewest, <<>>, entries) = kept[n]
<1> DEFINE iter == CHOOSE iter : FoldedBy(iter, entries, 1 .. n)
           kept == [i \in 0 .. n |-> iter[1 .. i]]
<1>1. FoldedBy(iter, entries, 1 .. n)
  BY FoldExists
<1>2. FoldLeft(KeepNewest, <<>>, entries) = iter[1 .. n]
  BY DEF FoldLeft, MapThenFoldSet, FoldedBy
<1> HIDE DEF iter
<1>3. kept[0] = <<>>
  <2>1. 1 .. 0 = {} /\ {} \in SUBSET (1 .. n)
    OBVIOUS
  <2>2. iter[{}] = <<>>
    BY <1>1, <2>1 DEF FoldedBy
  <2> QED BY <2>1, <2>2
<1>4. ASSUME NEW i \in 1 .. n PROVE kept[i] = KeepNewest(kept[i - 1], entries[i])
  <2>1. 1 .. i \in SUBSET (1 .. n) /\ 1 .. i # {} /\ i \in 1 .. i
    OBVIOUS
  <2>2. Max(1 .. i) = i
    <3>1. Max(1 .. i) \in 1 .. i /\ i <= Max(1 .. i)
      BY <2>1, LargestOfInterval
    <3> QED BY <3>1
  <2>3. (1 .. i) \ {i} = 1 .. i - 1
    OBVIOUS
  <2>4. iter[1 .. i] = KeepNewest(iter[(1 .. i) \ {Max(1 .. i)}], entries[Max(1 .. i)])
    BY <1>1, <2>1 DEF FoldedBy
  <2>5. kept[i] = iter[1 .. i] /\ kept[i - 1] = iter[1 .. i - 1]
    OBVIOUS
  <2> HIDE DEF kept
  <2> QED BY <2>2, <2>3, <2>4, <2>5
<1>5. kept[n] = iter[1 .. n]
  OBVIOUS
<1> HIDE DEF kept
<1> QED BY <1>2, <1>3, <1>4, <1>5

-----------------------------------------------------------------------------
(* What the fold keeps *)

\* The entries of a list of n: their items have a time and an identifier of their own.
EntriesOK(entries, n) ==
  /\ DOMAIN entries = 1 .. n
  /\ \A i \in 1 .. n :
       entries[i].counts \in BOOLEAN /\ entries[i].item.time \in Nat /\ entries[i].item.id \in Nat
  /\ \A i, j \in 1 .. n : entries[i].item.id = entries[j].item.id => i = j

\* latest holds the newest of the first i entries of each key.
KeptUpTo(latest, entries, i) ==
  /\ \A k \in DOMAIN latest : \E j \in 1 .. i :
       entries[j].counts /\ entries[j].key = k /\ latest[k] = entries[j].item
  /\ \A j \in 1 .. i : entries[j].counts =>
       /\ entries[j].key \in DOMAIN latest
       /\ \/ latest[entries[j].key] = entries[j].item
          \/ Newer(latest[entries[j].key], entries[j].item)

Dated(x) == x.time \in Nat /\ x.id \in Nat

\* Newer is a total order of items with different identifiers.
LEMMA NewerIsOrder ==
  /\ \A x, y : Dated(x) /\ Dated(y) /\ x.id # y.id => Newer(x, y) \/ Newer(y, x)
  /\ \A x, y : Dated(x) /\ Dated(y) => ~(Newer(x, y) /\ Newer(y, x))
  /\ \A x, y, z : Dated(x) /\ Dated(y) /\ Dated(z) /\ Newer(x, y) /\ Newer(y, z) => Newer(x, z)
  BY DEF Dated, Newer

\* One round of the loop.
LEMMA KeepNewestKeeps ==
  ASSUME NEW n \in Nat, NEW entries, EntriesOK(entries, n), NEW i \in 1 .. n,
         NEW latest, KeptUpTo(latest, entries, i - 1)
  PROVE  KeptUpTo(KeepNewest(latest, entries[i]), entries, i)
<1> DEFINE e == entries[i]
           next == KeepNewest(latest, e)
<1> SUFFICES KeptUpTo(next, entries, i)
  OBVIOUS
<1>1. \A j \in 1 .. n : entries[j].counts \in BOOLEAN /\ Dated(entries[j].item)
  BY DEF EntriesOK, Dated
<1>2. \A j \in 1 .. n : j # i => entries[j].item.id # e.item.id
  BY DEF EntriesOK
<1>3. 1 .. i = (1 .. i - 1) \union {i} /\ 1 .. i \subseteq 1 .. n /\ i \notin 1 .. i - 1
  OBVIOUS
<1>4. /\ \A k \in DOMAIN latest : \E j \in 1 .. i - 1 :
           entries[j].counts /\ entries[j].key = k /\ latest[k] = entries[j].item
      /\ \A j \in 1 .. i - 1 : entries[j].counts =>
           /\ entries[j].key \in DOMAIN latest
           /\ \/ latest[entries[j].key] = entries[j].item
              \/ Newer(latest[entries[j].key], entries[j].item)
  BY DEF KeptUpTo
<1>5. CASE ~e.counts
  <2>1. next = latest
    BY <1>5 DEF KeepNewest
  <2> QED BY <2>1, <1>3, <1>4, <1>5 DEF KeptUpTo
<1>6. CASE e.counts /\ e.key \in DOMAIN latest /\ ~Newer(e.item, latest[e.key])
  <2>1. next = latest
    BY <1>6 DEF KeepNewest
  <2>2. PICK j \in 1 .. i - 1 :
          entries[j].counts /\ entries[j].key = e.key /\ latest[e.key] = entries[j].item
    BY <1>4, <1>6
  <2>3. Newer(latest[e.key], e.item)
    <3>1. j \in 1 .. n /\ j # i
      BY <1>3
    <3> HIDE DEF e
    <3> QED BY <2>2, <3>1, <1>1, <1>2, <1>6, NewerIsOrder DEF e
  <2>4. ASSUME NEW k \in 1 .. i, entries[k].counts
        PROVE  /\ entries[k].key \in DOMAIN latest
               /\ \/ latest[entries[k].key] = entries[k].item
                  \/ Newer(latest[entries[k].key], entries[k].item)
    <3>1. CASE k = i
      BY <3>1, <2>3, <1>6
    <3>2. CASE k \in 1 .. i - 1
      BY <3>2, <2>4, <1>4
    <3> QED BY <3>1, <3>2, <1>3
  <2> HIDE DEF next
  <2> QED BY <2>1, <2>4, <1>3, <1>4 DEF KeptUpTo
<1>7. CASE e.counts /\ (e.key \in DOMAIN latest => Newer(e.item, latest[e.key]))
  <2>1. next = [k \in DOMAIN latest \union {e.key} |-> IF k = e.key THEN e.item ELSE latest[k]]
    BY <1>7 DEF KeepNewest
  <2>2. /\ DOMAIN next = DOMAIN latest \union {e.key}
        /\ next[e.key] = e.item
        /\ \A k \in DOMAIN latest : k # e.key => next[k] = latest[k]
    <3> HIDE DEF next, e
    <3> QED BY <2>1
  <2>3. ASSUME NEW k \in DOMAIN next
        PROVE  \E j \in 1 .. i : entries[j].counts /\ entries[j].key = k /\ next[k] = entries[j].item
    <3>1. CASE k = e.key
      <4>1. i \in 1 .. i
        OBVIOUS
      <4> QED BY <4>1, <3>1, <2>2, <1>7
    <3>2. CASE k # e.key
      <4>1. k \in DOMAIN latest /\ next[k] = latest[k]
        BY <3>2, <2>2
      <4> QED BY <4>1, <1>3, <1>4
    <3> QED BY <3>1, <3>2
  <2>4. ASSUME NEW j \in 1 .. i, entries[j].counts
        PROVE  /\ entries[j].key \in DOMAIN next
               /\ \/ next[entries[j].key] = entries[j].item
                  \/ Newer(next[entries[j].key], entries[j].item)
    <3>1. CASE j = i
      BY <3>1, <2>2
    <3>2. CASE j \in 1 .. i - 1
      <4>1. /\ entries[j].key \in DOMAIN latest
            /\ \/ latest[entries[j].key] = entries[j].item
               \/ Newer(latest[entries[j].key], entries[j].item)
        BY <3>2, <2>4, <1>4
      <4>2. CASE entries[j].key # e.key
        BY <4>1, <4>2, <2>2
      <4>3. CASE entries[j].key = e.key
        <5>1. Newer(e.item, latest[e.key])
          BY <4>1, <4>3, <1>7
        <5>2. PICK l \in 1 .. i - 1 : latest[e.key] = entries[l].item
          BY <4>1, <4>3, <1>4
        <5>3. Dated(e.item) /\ Dated(entries[j].item) /\ Dated(latest[e.key])
          BY <1>1, <1>3, <5>2
        <5>4. Newer(e.item, entries[j].item)
          BY <5>1, <5>3, <4>1, <4>3, NewerIsOrder
        <5> QED BY <5>4, <4>1, <4>3, <2>2
      <4> QED BY <4>2, <4>3
    <3> QED BY <3>1, <3>2, <1>3
  <2> HIDE DEF next
  <2> QED BY <2>3, <2>4 DEF KeptUpTo
<1> QED BY <1>5, <1>6, <1>7, <1>1

\* NewestPerKey keeps what counts and has no newer of its key.
LEMMA NewestPerKeyIs ==
  ASSUME NEW n \in Nat, NEW entries, EntriesOK(entries, n), NEW x
  PROVE  x \in NewestPerKey(entries) <=>
           \E i \in 1 .. n :
             /\ entries[i].counts /\ entries[i].item = x
             /\ \A j \in 1 .. n : entries[j].counts /\ entries[j].key = entries[i].key =>
                  entries[j].item = x \/ Newer(x, entries[j].item)
<1>1. PICK kept : /\ kept[0] = <<>>
                  /\ \A i \in 1 .. n : kept[i] = KeepNewest(kept[i - 1], entries[i])
                  /\ FoldLeft(KeepNewest, <<>>, entries) = kept[n]
  BY FoldSteps DEF EntriesOK
<1> DEFINE T == {i \in Nat : i <= n => KeptUpTo(kept[i], entries, i)}
           latest == kept[n]
<1>2. 0 \in T
  <2>1. DOMAIN <<>> = {} /\ 1 .. 0 = {}
    OBVIOUS
  <2>2. KeptUpTo(<<>>, entries, 0)
    BY <2>1 DEF KeptUpTo
  <2> QED BY <1>1, <2>2
<1>3. ASSUME NEW i \in T PROVE i + 1 \in T
  <2> SUFFICES ASSUME i + 1 <= n PROVE KeptUpTo(kept[i + 1], entries, i + 1)
    OBVIOUS
  <2>1. i + 1 \in 1 .. n /\ i + 1 - 1 = i /\ KeptUpTo(kept[i], entries, i)
    OBVIOUS
  <2>2. kept[i + 1] = KeepNewest(kept[i], entries[i + 1])
    BY <1>1, <2>1
  <2> QED BY <2>1, <2>2, KeepNewestKeeps
<1>4. T = Nat
  <2>1. T \in SUBSET Nat
    OBVIOUS
  <2> HIDE DEF T
  <2> QED BY <1>2, <1>3, <2>1, Induction
<1>5. KeptUpTo(latest, entries, n)
  BY <1>4
<1>6. NewestPerKey(entries) = {latest[k] : k \in DOMAIN latest}
  BY <1>1 DEF NewestPerKey, Range
<1>7. \A j \in 1 .. n : Dated(entries[j].item)
  BY DEF EntriesOK, Dated
<1> HIDE DEF latest, T
<1>8. ASSUME NEW k \in DOMAIN latest, x = latest[k]
      PROVE  \E i \in 1 .. n :
               /\ entries[i].counts /\ entries[i].item = x
               /\ \A j \in 1 .. n : entries[j].counts /\ entries[j].key = entries[i].key =>
                    entries[j].item = x \/ Newer(x, entries[j].item)
  <2>1. PICK i \in 1 .. n : entries[i].counts /\ entries[i].key = k /\ latest[k] = entries[i].item
    BY <1>5 DEF KeptUpTo
  <2>2. ASSUME NEW j \in 1 .. n, entries[j].counts, entries[j].key = entries[i].key
        PROVE  entries[j].item = x \/ Newer(x, entries[j].item)
    BY <2>1, <2>2, <1>5, <1>8 DEF KeptUpTo
  <2> QED BY <2>1, <2>2, <1>8
<1>9. ASSUME NEW i \in 1 .. n, entries[i].counts, entries[i].item = x,
             \A j \in 1 .. n : entries[j].counts /\ entries[j].key = entries[i].key =>
               entries[j].item = x \/ Newer(x, entries[j].item)
      PROVE  \E k \in DOMAIN latest : x = latest[k]
  <2>1. /\ entries[i].key \in DOMAIN latest
        /\ latest[entries[i].key] = x \/ Newer(latest[entries[i].key], x)
    BY <1>5, <1>9 DEF KeptUpTo
  <2>2. PICK l \in 1 .. n : /\ entries[l].counts /\ entries[l].key = entries[i].key
                            /\ latest[entries[i].key] = entries[l].item
    BY <2>1, <1>5 DEF KeptUpTo
  <2>3. entries[l].item = x \/ Newer(x, entries[l].item)
    BY <2>2, <1>9
  <2>4. latest[entries[i].key] = x
    BY <2>1, <2>2, <2>3, <1>7, <1>9, NewerIsOrder
  <2> QED BY <2>1, <2>4
<1> QED BY <1>6, <1>8, <1>9

-----------------------------------------------------------------------------
(* The worst of several states *)

\* The worst state of a set.
LEMMA SeverityOrder ==
  ASSUME NEW states
  PROVE  Worst(states) = IF "FAILURE" \in states THEN "FAILURE"
                         ELSE IF "PENDING" \in states THEN "PENDING"
                         ELSE IF "UNKNOWN" \in states THEN "UNKNOWN" ELSE "SUCCESS"
<1> DEFINE First(i) == /\ Severity[i] \in states \union {"SUCCESS"}
                       /\ \A j \in 1 .. i - 1 : Severity[j] \notin states
<1>1. /\ Severity[1] = "FAILURE" /\ Severity[2] = "PENDING"
      /\ Severity[3] = "UNKNOWN" /\ Severity[4] = "SUCCESS"
  BY DEF Severity
<1>2. \A i \in 1 .. 4 : i = 1 \/ i = 2 \/ i = 3 \/ i = 4
  OBVIOUS
<1>3. ASSUME NEW i \in 1 .. 4, First(i) PROVE Worst(states) = Severity[i]
  <2>1. ASSUME NEW k \in 1 .. 4, First(k) PROVE k = i
    <3>1. \A j \in 1 .. 3 : Severity[j] # "SUCCESS"
      BY <1>1
    <3>2. CASE k < i
      <4>1. k \in 1 .. i - 1 /\ k \in 1 .. 3
        BY <3>2
      <4> QED BY <4>1, <3>1, <1>3, <2>1
    <3>3. CASE i < k
      <4>1. i \in 1 .. k - 1 /\ i \in 1 .. 3
        BY <3>3
      <4> QED BY <4>1, <3>1, <1>3, <2>1
    <3> QED BY <3>2, <3>3
  <2>2. Worst(states) = Severity[CHOOSE k \in 1 .. 4 : First(k)]
    BY DEF Worst
  <2> HIDE DEF First
  <2> QED BY <2>1, <2>2, <1>3
<1>4. CASE "FAILURE" \in states
  BY <1>1, <1>3, <1>4
<1>5. CASE "FAILURE" \notin states /\ "PENDING" \in states
  BY <1>1, <1>3, <1>5
<1>6. CASE "FAILURE" \notin states /\ "PENDING" \notin states /\ "UNKNOWN" \in states
  BY <1>1, <1>3, <1>6
<1>7. CASE "FAILURE" \notin states /\ "PENDING" \notin states /\ "UNKNOWN" \notin states
  BY <1>1, <1>3, <1>7
<1> QED BY <1>4, <1>5, <1>6, <1>7

-----------------------------------------------------------------------------
(* What the derivations keep of the lists *)

\* A list of n items, each with a time and an identifier of its own.
ListOK(list, n) ==
  /\ DOMAIN list = 1 .. n
  /\ \A i \in 1 .. n : Dated(list[i])
  /\ \A i, j \in 1 .. n : list[i].id = list[j].id => i = j

\* Standing, of any list.
StandsIn(r, list) ==
  /\ r \in Range(list) /\ Decisive(r)
  /\ \A q \in Range(list) : Decisive(q) /\ Reviewer(q) = Reviewer(r) => q = r \/ Newer(r, q)

\* The loop over the reviews, entry by entry and in any order of the pages, keeps exactly
\* the newest decisive review of each reviewer.
LEMMA CurrentReviewsStand ==
  ASSUME NEW n \in Nat, NEW list, ListOK(list, n)
  PROVE  \A r : r \in CurrentReviews(list) <=> StandsIn(r, list)
<1> TAKE r
<1>1. PICK entries :
        entries = [i \in DOMAIN list |-> Entry(Decisive(list[i]), Reviewer(list[i]), list[i])]
  OBVIOUS
<1>2. \A i \in 1 .. n : /\ entries[i].counts = Decisive(list[i])
                        /\ entries[i].key = Reviewer(list[i])
                        /\ entries[i].item = list[i]
  BY <1>1 DEF ListOK, Entry
<1>3. EntriesOK(entries, n)
  <2>1. DOMAIN entries = 1 .. n
    BY <1>1 DEF ListOK
  <2>2. \A i \in 1 .. n : Decisive(list[i]) \in BOOLEAN
    BY DEF Decisive
  <2> QED BY <2>1, <2>2, <1>2 DEF EntriesOK, ListOK, Dated
<1>4. r \in CurrentReviews(list) <=>
        \E i \in 1 .. n :
          /\ entries[i].counts /\ entries[i].item = r
          /\ \A j \in 1 .. n : entries[j].counts /\ entries[j].key = entries[i].key =>
               entries[j].item = r \/ Newer(r, entries[j].item)
  <2>1. CurrentReviews(list) = NewestPerKey(entries)
    BY <1>1 DEF CurrentReviews
  <2> QED BY <2>1, <1>3, NewestPerKeyIs
<1>5. Range(list) = {list[i] : i \in 1 .. n}
  BY DEF ListOK, Range
<1> QED BY <1>2, <1>4, <1>5 DEF StandsIn

\* The newest status of each context counts.
LatestIn(s, list) ==
  /\ s \in Range(list)
  /\ \A t \in Range(list) : t.context = s.context => t = s \/ Newer(s, t)

\* The loop over the commit statuses keeps exactly the newest one of each context.
LEMMA LatestStatusesAre ==
  ASSUME NEW n \in Nat, NEW list, ListOK(list, n)
  PROVE  \A s : s \in LatestStatuses(list) <=> LatestIn(s, list)
<1> TAKE s
<1>1. PICK entries : entries = [i \in DOMAIN list |-> Entry(TRUE, list[i].context, list[i])]
  OBVIOUS
<1>2. \A i \in 1 .. n : /\ entries[i].counts = TRUE
                        /\ entries[i].key = list[i].context
                        /\ entries[i].item = list[i]
  BY <1>1 DEF ListOK, Entry
<1>3. EntriesOK(entries, n)
  <2>1. DOMAIN entries = 1 .. n
    BY <1>1 DEF ListOK
  <2> QED BY <2>1, <1>2 DEF EntriesOK, ListOK, Dated
<1>4. s \in LatestStatuses(list) <=>
        \E i \in 1 .. n :
          /\ entries[i].counts /\ entries[i].item = s
          /\ \A j \in 1 .. n : entries[j].counts /\ entries[j].key = entries[i].key =>
               entries[j].item = s \/ Newer(s, entries[j].item)
  <2>1. LatestStatuses(list) = NewestPerKey(entries)
    BY <1>1 DEF LatestStatuses
  <2> QED BY <2>1, <1>3, NewestPerKeyIs
<1>5. Range(list) = {list[i] : i \in 1 .. n}
  BY DEF ListOK, Range
<1> QED BY <1>2, <1>4, <1>5 DEF LatestIn

\* The check run found for a required check, 0 if there is none, is one of its reports.
FirstReport(runs, required) == SelectInSeq(runs, LAMBDA r : Reports(r, required))

LEMMA FirstReportReports ==
  ASSUME NEW n \in Nat, NEW runs, DOMAIN runs = 1 .. n, Len(runs) = n, NEW required,
         FirstReport(runs, required) # 0
  PROVE  /\ FirstReport(runs, required) \in 1 .. n
         /\ Reports(runs[FirstReport(runs, required)], required)
<1> DEFINE T == {i \in 1 .. n : Reports(runs[i], required)}
           first == FirstReport(runs, required)
<1>1. first = IF T # {} THEN Min(T) ELSE 0
  BY DEF SelectInSeq, FirstReport
<1>2. T # {} /\ first = Min(T)
  BY <1>1
<1>3. \E i \in T : \A j \in T : i <= j
  <2>1. T \in SUBSET Nat
    OBVIOUS
  <2> HIDE DEF T
  <2> QED BY <1>2, <2>1, LeastNatural
<1>4. Min(T) \in T
  BY <1>3 DEF Min
<1> QED BY <1>2, <1>4

-----------------------------------------------------------------------------
(* The verdicts, case by case *)

\* Nothing but the reviews and a conflict can be in the way.
Passing(s) == Live(s) /\ CiSatisfied(s)

\* The verdict on every snapshot but those of the "inconsistent" rules and of the
\* last one, which no snapshot of what was derived meets.
LEMMA EvaluateIs ==
  ASSUME NEW s \in PullRequestSnapshot
  PROVE  /\ s.isMerged =>
              Evaluate(s) = Verdict("MERGED", "NONE", "READY_FOR_RELEASE", "PR_MERGED")
         /\ ~s.isMerged /\ ~s.isOpen =>
              Evaluate(s) = Verdict("CLOSED", "NONE", "COMPLETE", "PR_CLOSED")
         /\ ~s.isMerged /\ s.isOpen /\ s.isDraft =>
              Evaluate(s) = AuthorsTurn("DRAFT", "PR_DRAFT")
         /\ Live(s) /\ s.checkStatus = "FAILURE" =>
              Evaluate(s) = AuthorsTurn("OPEN", "CI_FAILED")
         /\ Live(s) /\ s.checkStatus = "PENDING" =>
              Evaluate(s) = Verdict("OPEN", "CI", "NOT_READY", "CI_PENDING")
         /\ Live(s) /\ s.checkStatus = "UNKNOWN" =>
              Evaluate(s) = Ambiguous("CI_STATUS_UNKNOWN")
         /\ Passing(s) /\ s.reviewDecision = "UNKNOWN" =>
              Evaluate(s) = Ambiguous("REVIEW_STATUS_UNKNOWN")
         /\ Passing(s) /\ s.reviewDecision = "CHANGES_REQUESTED" /\ s.authorHasChangesToMake =>
              Evaluate(s) = AuthorsTurn("CHANGES_REQUESTED", "CHANGES_REQUESTED")
         /\ Passing(s) /\ s.reviewDecision \in {"APPROVED", "REVIEW_REQUIRED"} /\ s.hasMergeConflict =>
              Evaluate(s) = AuthorsTurn("OPEN", "MERGE_CONFLICT")
         /\ /\ Passing(s) /\ s.reviewDecision = "REVIEW_REQUIRED" /\ ~s.hasMergeConflict
            /\ ~s.authorHasChangesToMake /\ s.maintainerReviewRequired
            => Evaluate(s) = Verdict("IN_REVIEW", "MAINTAINER", "READY_FOR_REVIEW",
                                     "MAINTAINER_REVIEW_REQUIRED")
         /\ /\ Passing(s) /\ s.reviewDecision = "APPROVED" /\ ~s.hasMergeConflict
            /\ ~s.authorHasChangesToMake /\ ~s.maintainerReviewRequired
            => Evaluate(s) = Verdict("READY_TO_MERGE", "MAINTAINER", "READY_TO_MERGE",
                                     "READY_TO_MERGE")
<1>1. ASSUME s.isMerged
      PROVE  Evaluate(s) = Rules(s)[1].verdict
  <2>1. 1 .. 1 - 1 = {}
    OBVIOUS
  <2>2. Decides(Rules(s), 1)
    BY <1>1, <2>1, TheRulesApply
    DEF Decides, Live, Passing, CiSatisfied, ReadyRule
  <2> QED BY <2>2, TheRuleDecides
<1>2. ASSUME ~s.isMerged /\ ~s.isOpen
      PROVE  Evaluate(s) = Rules(s)[2].verdict
  <2>1. \A j \in 1 .. 2 - 1 :
          j = 1
    OBVIOUS
  <2>2. Decides(Rules(s), 2)
    BY <1>2, <2>1, TheRulesApply
    DEF Decides, Live, Passing, CiSatisfied, ReadyRule
  <2> QED BY <2>2, TheRuleDecides
<1>3. ASSUME ~s.isMerged /\ s.isOpen /\ s.isDraft
      PROVE  Evaluate(s) = Rules(s)[3].verdict
  <2>1. \A j \in 1 .. 3 - 1 :
          j = 1 \/ j = 2
    OBVIOUS
  <2>2. Decides(Rules(s), 3)
    BY <1>3, <2>1, TheRulesApply
    DEF Decides, Live, Passing, CiSatisfied, ReadyRule
  <2> QED BY <2>2, TheRuleDecides
<1>4. ASSUME Live(s) /\ s.checkStatus = "FAILURE"
      PROVE  Evaluate(s) = Rules(s)[4].verdict
  <2>1. \A j \in 1 .. 4 - 1 :
          j = 1 \/ j = 2 \/ j = 3
    OBVIOUS
  <2>2. Decides(Rules(s), 4)
    BY <1>4, <2>1, TheRulesApply
    DEF Decides, Live, Passing, CiSatisfied, ReadyRule
  <2> QED BY <2>2, TheRuleDecides
<1>5. ASSUME Live(s) /\ s.checkStatus = "PENDING"
      PROVE  Evaluate(s) = Rules(s)[5].verdict
  <2>1. \A j \in 1 .. 5 - 1 :
          j = 1 \/ j = 2 \/ j = 3 \/ j = 4
    OBVIOUS
  <2>2. Decides(Rules(s), 5)
    BY <1>5, <2>1, TheRulesApply
    DEF Decides, Live, Passing, CiSatisfied, ReadyRule
  <2> QED BY <2>2, TheRuleDecides
<1>6. ASSUME Live(s) /\ s.checkStatus = "UNKNOWN"
      PROVE  Evaluate(s) = Rules(s)[6].verdict
  <2>1. \A j \in 1 .. 6 - 1 :
          j = 1 \/ j = 2 \/ j = 3 \/ j = 4 \/ j = 5
    OBVIOUS
  <2>2. Decides(Rules(s), 6)
    BY <1>6, <2>1, TheRulesApply
    DEF Decides, Live, Passing, CiSatisfied, ReadyRule
  <2> QED BY <2>2, TheRuleDecides
<1>7. ASSUME Passing(s) /\ s.reviewDecision = "UNKNOWN"
      PROVE  Evaluate(s) = Rules(s)[7].verdict
  <2>1. \A j \in 1 .. 7 - 1 :
          j = 1 \/ j = 2 \/ j = 3 \/ j = 4 \/ j = 5 \/ j = 6
    OBVIOUS
  <2>2. Decides(Rules(s), 7)
    BY <1>7, <2>1, TheRulesApply
    DEF Decides, Live, Passing, CiSatisfied, ReadyRule
  <2> QED BY <2>2, TheRuleDecides
<1>8. ASSUME Passing(s) /\ s.reviewDecision = "CHANGES_REQUESTED" /\ s.authorHasChangesToMake
      PROVE  Evaluate(s) = Rules(s)[8].verdict
  <2>1. \A j \in 1 .. 8 - 1 :
          j = 1 \/ j = 2 \/ j = 3 \/ j = 4 \/ j = 5 \/ j = 6 \/ j = 7
    OBVIOUS
  <2>2. Decides(Rules(s), 8)
    BY <1>8, <2>1, TheRulesApply
    DEF Decides, Live, Passing, CiSatisfied, ReadyRule
  <2> QED BY <2>2, TheRuleDecides
<1>9. ASSUME Passing(s) /\ s.reviewDecision \in {"APPROVED", "REVIEW_REQUIRED"} /\ s.hasMergeConflict
      PROVE  Evaluate(s) = Rules(s)[10].verdict
  <2>1. \A j \in 1 .. 10 - 1 :
          j = 1 \/ j = 2 \/ j = 3 \/ j = 4 \/ j = 5 \/ j = 6 \/ j = 7 \/ j = 8 \/ j = 9
    OBVIOUS
  <2>2. Decides(Rules(s), 10)
    BY <1>9, <2>1, TheRulesApply
    DEF Decides, Live, Passing, CiSatisfied, ReadyRule
  <2> QED BY <2>2, TheRuleDecides
<1>10. ASSUME /\ Passing(s) /\ s.reviewDecision = "REVIEW_REQUIRED" /\ ~s.hasMergeConflict
             /\ ~s.authorHasChangesToMake /\ s.maintainerReviewRequired
      PROVE  Evaluate(s) = Rules(s)[11].verdict
  <2>1. \A j \in 1 .. 11 - 1 :
          j = 1 \/ j = 2 \/ j = 3 \/ j = 4 \/ j = 5 \/ j = 6 \/ j = 7 \/ j = 8 \/ j = 9 \/ j = 10
    OBVIOUS
  <2>2. Decides(Rules(s), 11)
    BY <1>10, <2>1, TheRulesApply
    DEF Decides, Live, Passing, CiSatisfied, ReadyRule
  <2> QED BY <2>2, TheRuleDecides
<1>11. ASSUME /\ Passing(s) /\ s.reviewDecision = "APPROVED" /\ ~s.hasMergeConflict
             /\ ~s.authorHasChangesToMake /\ ~s.maintainerReviewRequired
      PROVE  Evaluate(s) = Rules(s)[13].verdict
  <2>1. \A j \in 1 .. 13 - 1 :
          j = 1 \/ j = 2 \/ j = 3 \/ j = 4 \/ j = 5 \/ j = 6 \/ j = 7 \/ j = 8 \/ j = 9 \/ j = 10 \/ j = 11 \/ j = 12
    OBVIOUS
  <2>2. Decides(Rules(s), 13)
    BY <1>11, <2>1, TheRulesApply
    DEF Decides, Live, Passing, CiSatisfied, ReadyRule
  <2> QED BY <2>2, TheRuleDecides
<1> QED BY <1>1, <1>2, <1>3, <1>4, <1>5, <1>6, <1>7, <1>8, <1>9, <1>10, <1>11, TheVerdicts

-----------------------------------------------------------------------------
(* What is derived is a snapshot the rules know *)

\* The four answers of deriveReviewDecision.
Reviewed(f) ==
  /\ f.author \in BOOLEAN /\ f.maintainer \in BOOLEAN
  /\ \/ f.decision = "UNKNOWN" /\ ~f.author /\ f.maintainer
     \/ f.decision = "CHANGES_REQUESTED" /\ f.author /\ ~f.maintainer
     \/ f.decision = "APPROVED" /\ ~f.author /\ ~f.maintainer
     \/ f.decision = "REVIEW_REQUIRED" /\ ~f.author /\ f.maintainer

\* What deriveReviewDecision answers, and when.
LEMMA ReviewDecisionIs ==
  ASSUME NEW list, NEW pol, NEW head, pol.needsMore \in BOOLEAN,
         NEW f, f = DeriveReviewDecision(list, pol, head)
  PROVE  /\ Reviewed(f)
         /\ f.decision = "CHANGES_REQUESTED" <=>
              /\ ~pol.needsMore
              /\ \E r \in CurrentReviews(list) : r.state = "CHANGES_REQUESTED"
         /\ f.decision = "APPROVED" =>
              /\ ~pol.needsMore
              /\ ~\E r \in CurrentReviews(list) : r.state = "CHANGES_REQUESTED"
              /\ Cardinality(Approvals(list, pol, head)) >= pol.approvals
         /\ f.decision = "UNKNOWN" <=> pol.needsMore
<1>1. CASE pol.needsMore
  <2>1. f = ReviewFacts("UNKNOWN", FALSE, TRUE)
    BY <1>1 DEF DeriveReviewDecision
  <2> QED BY <2>1, <1>1 DEF Reviewed, ReviewFacts
<1>2. CASE ~pol.needsMore /\ \E r \in CurrentReviews(list) : r.state = "CHANGES_REQUESTED"
  <2>1. f = ReviewFacts("CHANGES_REQUESTED", TRUE, FALSE)
    BY <1>2 DEF DeriveReviewDecision
  <2> QED BY <2>1, <1>2 DEF Reviewed, ReviewFacts
<1>3. CASE ~pol.needsMore /\ ~\E r \in CurrentReviews(list) : r.state = "CHANGES_REQUESTED"
  <2>1. f = IF Cardinality(Approvals(list, pol, head)) >= pol.approvals
            THEN ReviewFacts("APPROVED", FALSE, FALSE)
            ELSE ReviewFacts("REVIEW_REQUIRED", FALSE, TRUE)
    BY <1>3 DEF DeriveReviewDecision
  <2>2. CASE Cardinality(Approvals(list, pol, head)) >= pol.approvals
    <3>1. f = ReviewFacts("APPROVED", FALSE, FALSE)
      BY <2>1, <2>2
    <3> QED BY <3>1, <2>2, <1>3 DEF Reviewed, ReviewFacts
  <2>3. CASE ~(Cardinality(Approvals(list, pol, head)) >= pol.approvals)
    <3>1. f = ReviewFacts("REVIEW_REQUIRED", FALSE, TRUE)
      BY <2>1, <2>3
    <3> QED BY <3>1, <1>3 DEF Reviewed, ReviewFacts
  <2> QED BY <2>2, <2>3
<1> QED BY <1>1, <1>2, <1>3

\* The states that are no success.
Bad == {"FAILURE", "PENDING", "UNKNOWN"}

\* SUCCESS is the worst state where there is no worse.
LEMMA WorstIsSuccess ==
  ASSUME NEW states, Worst(states) = "SUCCESS"
  PROVE  \A b \in Bad : b \notin states
  BY SeverityOrder DEF Bad

\* SUCCESS is the answer for reports none of which is bad.
LEMMA CheckStatusIs ==
  ASSUME NEW runs, NEW items, NEW pol, pol.available \in BOOLEAN,
         NEW c, c = DeriveCheckStatus(runs, items, pol)
  PROVE  /\ c \in CheckStatus
         /\ c = "SUCCESS" /\ pol.required # {} =>
              \A r \in pol.required : StateOfRequired(r, runs, LatestStatuses(items)) \notin Bad
         /\ c = "SUCCESS" /\ pol.required = {} =>
              /\ \A r \in Range(runs) : r.state \notin Bad
              /\ \A s \in LatestStatuses(items) : StateOfStatus(s) \notin Bad
         /\ c = "NOT_REQUIRED" => pol.required = {}
<1>1. CASE pol.required # {}
  <2> DEFINE states == {StateOfRequired(r, runs, LatestStatuses(items)) : r \in pol.required}
  <2>1. c = Worst(states)
    BY <1>1 DEF DeriveCheckStatus
  <2>2. \A r \in pol.required : StateOfRequired(r, runs, LatestStatuses(items)) \in states
    OBVIOUS
  <2> HIDE DEF states
  <2>3. c \in CheckStatus /\ c # "NOT_REQUIRED"
    BY <2>1, SeverityOrder DEF CheckStatus
  <2>4. c = "SUCCESS" => \A b \in Bad : b \notin states
    BY <2>1, WorstIsSuccess
  <2> QED BY <2>2, <2>3, <2>4, <1>1
<1>2. CASE pol.required = {} /\ runs = <<>> /\ LatestStatuses(items) = {}
  <2>1. c = IF pol.available THEN "NOT_REQUIRED" ELSE "UNKNOWN"
    BY <1>2 DEF DeriveCheckStatus
  <2>2. c \in {"NOT_REQUIRED", "UNKNOWN"}
    BY <2>1
  <2> QED BY <2>2, <1>2 DEF CheckStatus
<1>3. CASE pol.required = {} /\ ~(runs = <<>> /\ LatestStatuses(items) = {})
  <2> DEFINE states == {r.state : r \in Range(runs)}
                         \union {StateOfStatus(s) : s \in LatestStatuses(items)}
  <2>1. c = Worst(states)
    BY <1>3 DEF DeriveCheckStatus
  <2>2. /\ \A r \in Range(runs) : r.state \in states
        /\ \A s \in LatestStatuses(items) : StateOfStatus(s) \in states
    OBVIOUS
  <2> HIDE DEF states
  <2>3. c \in CheckStatus /\ c # "NOT_REQUIRED"
    BY <2>1, SeverityOrder DEF CheckStatus
  <2>4. c = "SUCCESS" => \A b \in Bad : b \notin states
    BY <2>1, WorstIsSuccess
  <2> QED BY <2>2, <2>3, <2>4, <1>3
<1> QED BY <1>1, <1>2, <1>3

-----------------------------------------------------------------------------
(* The lists of Derivation *)

\* No two items share an identifier.
UniqueIds(list) == \A i, j \in DOMAIN list : list[i].id = list[j].id => i = j

\* The inductive invariant: the lists are GitHub's, the policy is parsed.
DerivationInv ==
  /\ reviewItems \in Seq(Review) /\ checkRuns \in Seq(CheckRun) /\ statusItems \in Seq(Status)
  /\ UniqueIds(reviewItems) /\ UniqueIds(statusItems)
  /\ policy.available \in BOOLEAN /\ policy.needsMore \in BOOLEAN

\* The flags of a policy are flags.
LEMMA PolicyFlags ==
  ASSUME NEW set, NEW available \in BOOLEAN, NEW p, p = Policy(set, available)
  PROVE  /\ p.available = available /\ p.needsMore \in BOOLEAN /\ p.dismissStale \in BOOLEAN
  BY DEF Policy

\* The lists are empty, the policy is one of the rule sets.
LEMMA DerivationInitInv == DerivationInit => DerivationInv
<1> SUFFICES ASSUME DerivationInit PROVE DerivationInv
  OBVIOUS
<1>1. reviewItems = <<>> /\ checkRuns = <<>> /\ statusItems = <<>>
  BY DEF DerivationInit
<1>2. UniqueIds(<<>>)
  <2>1. DOMAIN <<>> = {}
    OBVIOUS
  <2> QED BY <2>1 DEF UniqueIds
<1>3. policy.available \in BOOLEAN /\ policy.needsMore \in BOOLEAN
  <2>1. PICK rs \in RuleSets, available \in BOOLEAN :
          policy = Policy(IF available THEN rs ELSE {}, available)
    BY DEF DerivationInit
  <2> QED BY <2>1, PolicyFlags
<1> QED BY <1>1, <1>2, <1>3 DEF DerivationInv

\* A new entry whose identifier is fresh keeps the identifiers apart.
LEMMA AppendKeepsIds ==
  ASSUME NEW S, NEW list \in Seq(S), UniqueIds(list), NEW x \in S, Fresh(x, list)
  PROVE  UniqueIds(Append(list, x))
<1> DEFINE next == Append(list, x)
<1>1. /\ DOMAIN next = 1 .. Len(list) + 1 /\ DOMAIN list = 1 .. Len(list) /\ Len(list) \in Nat
      /\ \A i \in 1 .. Len(list) : next[i] = list[i]
      /\ next[Len(list) + 1] = x
  BY AppendProperties, LenProperties
<1> HIDE DEF next
<1> SUFFICES UniqueIds(next)
  BY DEF next
<1> SUFFICES ASSUME NEW i \in DOMAIN next, NEW j \in DOMAIN next, next[i].id = next[j].id
             PROVE  i = j
  BY DEF UniqueIds
<1>2. CASE i \in DOMAIN list /\ j \in DOMAIN list
  BY <1>1, <1>2 DEF UniqueIds
<1>3. CASE i \notin DOMAIN list /\ j \in DOMAIN list
  <2>1. i = Len(list) + 1
    BY <1>1, <1>3
  <2> QED BY <2>1, <1>1, <1>3 DEF Fresh
<1>4. CASE i \in DOMAIN list /\ j \notin DOMAIN list
  <2>1. j = Len(list) + 1
    BY <1>1, <1>4
  <2> QED BY <2>1, <1>1, <1>4 DEF Fresh
<1>5. CASE i \notin DOMAIN list /\ j \notin DOMAIN list
  BY <1>1, <1>5
<1> QED BY <1>2, <1>3, <1>4, <1>5

\* One more entry of a page.
LEMMA DerivationNextInv == DerivationInv /\ [DerivationNext]_answers => DerivationInv'
<1> SUFFICES ASSUME DerivationInv, [DerivationNext]_answers PROVE DerivationInv'
  OBVIOUS
<1> USE DEF DerivationInv
<1>1. CASE AnotherReview
  <2>1. PICK r \in Review : Fresh(r, reviewItems) /\ reviewItems' = Append(reviewItems, r)
    BY <1>1 DEF AnotherReview
  <2>2. reviewItems' \in Seq(Review)
    BY <2>1
  <2>3. UniqueIds(Append(reviewItems, r))
    BY <2>1, AppendKeepsIds
  <2>4. UniqueIds(reviewItems)'
    BY <2>1, <2>3 DEF UniqueIds
  <2> QED BY <2>2, <2>4, <1>1 DEF AnotherReview, UniqueIds
<1>2. CASE AnotherCheckRun
  BY <1>2 DEF AnotherCheckRun, UniqueIds
<1>3. CASE AnotherStatus
  <2>1. PICK s \in Status : Fresh(s, statusItems) /\ statusItems' = Append(statusItems, s)
    BY <1>3 DEF AnotherStatus
  <2>2. statusItems' \in Seq(Status)
    BY <2>1
  <2>3. UniqueIds(Append(statusItems, s))
    BY <2>1, AppendKeepsIds
  <2>4. UniqueIds(statusItems)'
    BY <2>1, <2>3 DEF UniqueIds
  <2> QED BY <2>2, <2>4, <1>3 DEF AnotherStatus, UniqueIds
<1>4. CASE UNCHANGED answers
  BY <1>4 DEF answers, UniqueIds
<1> QED BY <1>1, <1>2, <1>3, <1>4 DEF DerivationNext

\* The invariant holds of every list the pages can add up to.
THEOREM DerivedListsAreGitHubs == DerivationSpec => []DerivationInv
  BY DerivationInitInv, DerivationNextInv, PTL DEF DerivationSpec

\* The lists are as the lemmas on the loops want them.
LEMMA ListsAreOK ==
  ASSUME DerivationInv
  PROVE  /\ \E n \in Nat : ListOK(reviewItems, n)
         /\ \E n \in Nat : ListOK(statusItems, n)
         /\ \E n \in Nat : DOMAIN checkRuns = 1 .. n /\ Len(checkRuns) = n
<1>0. \A x \in Times : x \in Nat
  BY DerivationAssumption
<1>1. ASSUME NEW r \in Review PROVE Dated(r)
  <2>1. r.id \in 1 .. MaxEntries /\ r.time \in Times
    BY DEF Review
  <2> QED BY <1>0, <2>1 DEF Dated
<1>2. ASSUME NEW s \in Status PROVE Dated(s)
  <2>1. s.id \in 1 .. MaxEntries /\ s.time \in Times
    BY DEF Status
  <2> QED BY <1>0, <2>1 DEF Dated
<1>3. ListOK(reviewItems, Len(reviewItems)) /\ Len(reviewItems) \in Nat
  BY <1>1 DEF DerivationInv, ListOK, UniqueIds
<1>4. ListOK(statusItems, Len(statusItems)) /\ Len(statusItems) \in Nat
  BY <1>2 DEF DerivationInv, ListOK, UniqueIds
<1>5. DOMAIN checkRuns = 1 .. Len(checkRuns) /\ Len(checkRuns) \in Nat
  BY DEF DerivationInv
<1> QED BY <1>3, <1>4, <1>5

\* The properties follow from the invariant.
LEMMA ChangeRequestsStandNow == DerivationInv => ChangeRequestsStand
<1> SUFFICES ASSUME DerivationInv PROVE ChangeRequestsStand
  OBVIOUS
<1>1. \A r : r \in CurrentReviews(reviewItems) <=> StandsIn(r, reviewItems)
  BY ListsAreOK, CurrentReviewsStand
<1>2. \A r : StandsIn(r, reviewItems) <=> r \in Range(reviewItems) /\ Standing(r)
  BY DEF StandsIn, Standing
<1>3. facts.decision = "CHANGES_REQUESTED" <=>
        /\ ~policy.needsMore
        /\ \E r \in CurrentReviews(reviewItems) : r.state = "CHANGES_REQUESTED"
  BY ReviewDecisionIs DEF facts, DerivationInv
<1> QED BY <1>1, <1>2, <1>3 DEF ChangeRequestsStand

LEMMA ApprovalIsEarnedNow == DerivationInv => ApprovalIsEarned
<1> SUFFICES ASSUME DerivationInv, facts.decision = "APPROVED"
             PROVE  /\ ~policy.needsMore
                    /\ Cardinality({r \in Range(reviewItems) :
                                      /\ Standing(r) /\ r.state = "APPROVED"
                                      /\ policy.dismissStale => r.commit = HeadCommit})
                         >= policy.approvals
                    /\ ~\E r \in Range(reviewItems) : Standing(r) /\ r.state = "CHANGES_REQUESTED"
  BY DEF ApprovalIsEarned
<1>1. \A r : r \in CurrentReviews(reviewItems) <=> StandsIn(r, reviewItems)
  BY ListsAreOK, CurrentReviewsStand
<1>2. \A r : StandsIn(r, reviewItems) <=> r \in Range(reviewItems) /\ Standing(r)
  BY DEF StandsIn, Standing
<1>3. /\ ~policy.needsMore
      /\ ~\E r \in CurrentReviews(reviewItems) : r.state = "CHANGES_REQUESTED"
      /\ Cardinality(Approvals(reviewItems, policy, HeadCommit)) >= policy.approvals
  BY ReviewDecisionIs DEF facts, DerivationInv
<1>4. Approvals(reviewItems, policy, HeadCommit)
        = {r \in Range(reviewItems) : /\ Standing(r) /\ r.state = "APPROVED"
                                      /\ policy.dismissStale => r.commit = HeadCommit}
  BY <1>1, <1>2 DEF Approvals
<1>5. ~\E r \in Range(reviewItems) : Standing(r) /\ r.state = "CHANGES_REQUESTED"
  BY <1>1, <1>2, <1>3
<1> QED BY <1>3, <1>4, <1>5

LEMMA RequiredChecksReportedNow == DerivationInv => RequiredChecksReported
<1> SUFFICES ASSUME DerivationInv, checkStatus = "SUCCESS", NEW required \in policy.required
             PROVE  \/ \E run_ \in Range(checkRuns) :
                         /\ run_.name = required.context /\ run_.state = "SUCCESS"
                         /\ required.app # NoApp => run_.app = required.app
                    \/ /\ required.app = NoApp
                       /\ \E s \in Range(statusItems) :
                            /\ s.context = required.context /\ s.state = "success"
                            /\ \A t \in Range(statusItems) :
                                 t.context = s.context => t = s \/ Newer(s, t)
  BY DEF RequiredChecksReported
<1> DEFINE statuses == LatestStatuses(statusItems)
           state == StateOfRequired(required, checkRuns, statuses)
           first == FirstReport(checkRuns, required)
           legacy == {s \in statuses : s.context = required.context}
<1>1. state \notin Bad
  BY CheckStatusIs DEF checkStatus, DerivationInv
<1>2. state = CASE first # 0 -> checkRuns[first].state
                [] first = 0 /\ required.app = NoApp /\ legacy # {} ->
                     LET s == CHOOSE s \in legacy : TRUE
                     IN  CASE s.state = "pending" -> "PENDING"
                           [] s.state = "success" -> "SUCCESS"
                           [] OTHER -> "FAILURE"
                [] OTHER -> "PENDING"
  BY DEF StateOfRequired, FirstReport
<1>3. CASE first # 0
  <2>1. PICK n \in Nat : DOMAIN checkRuns = 1 .. n /\ Len(checkRuns) = n
    BY ListsAreOK
  <2>2. first \in 1 .. n /\ Reports(checkRuns[first], required)
    BY <2>1, <1>3, FirstReportReports
  <2>3. state = checkRuns[first].state
    <3> HIDE DEF state, first, legacy, statuses
    <3> QED BY <1>2, <1>3
  <2>4. checkRuns[first] \in CheckRun /\ checkRuns[first] \in Range(checkRuns)
    BY <2>1, <2>2 DEF DerivationInv, Range
  <2> HIDE DEF state, first
  <2>5. checkRuns[first].state = "SUCCESS"
    BY <2>3, <2>4, <1>1 DEF CheckRun, Bad
  <2> QED BY <2>2, <2>4, <2>5 DEF Reports
<1>4. CASE first = 0 /\ required.app = NoApp /\ legacy # {}
  <2> DEFINE s == CHOOSE s \in legacy : TRUE
  <2>1. s \in legacy
    BY <1>4
  <2>2. state = CASE s.state = "pending" -> "PENDING"
                  [] s.state = "success" -> "SUCCESS"
                  [] OTHER -> "FAILURE"
    <3> HIDE DEF state, first, legacy, statuses
    <3> QED BY <1>2, <1>4
  <2>3. s \in statuses /\ s.context = required.context
    BY <2>1
  <2> HIDE DEF s, state, first, legacy
  <2>4. s.state = "success"
    BY <2>2, <1>1 DEF Bad
  <2>5. LatestIn(s, statusItems)
    BY <2>3, ListsAreOK, LatestStatusesAre
  <2> QED BY <2>3, <2>4, <2>5, <1>4 DEF LatestIn
<1>5. CASE first = 0 /\ ~(required.app = NoApp /\ legacy # {})
  <2> HIDE DEF state, first, legacy, statuses
  <2> QED BY <1>1, <1>2, <1>5 DEF Bad
<1> QED BY <1>3, <1>4, <1>5

LEMMA NoReportIsIgnoredNow == DerivationInv => NoReportIsIgnored
<1> SUFFICES ASSUME DerivationInv, policy.required = {}, checkStatus = "SUCCESS"
             PROVE  /\ \A r \in Range(checkRuns) : r.state = "SUCCESS"
                    /\ \A s \in Range(statusItems) :
                         s.state = "success"
                           \/ \E t \in Range(statusItems) : t.context = s.context /\ Newer(t, s)
  BY DEF NoReportIsIgnored
<1>1. /\ \A r \in Range(checkRuns) : r.state \notin Bad
      /\ \A s \in LatestStatuses(statusItems) : StateOfStatus(s) \notin Bad
  BY CheckStatusIs DEF checkStatus, DerivationInv
<1>2. ASSUME NEW r \in Range(checkRuns) PROVE r.state = "SUCCESS"
  <2>1. r \in CheckRun
    BY DEF DerivationInv, Range
  <2> QED BY <2>1, <1>1 DEF CheckRun, Bad
<1>3. ASSUME NEW s \in Range(statusItems)
      PROVE  s.state = "success"
               \/ \E t \in Range(statusItems) : t.context = s.context /\ Newer(t, s)
  <2>1. PICK n \in Nat : ListOK(statusItems, n)
    BY ListsAreOK
  <2>2. Range(statusItems) = {statusItems[i] : i \in 1 .. n}
    BY <2>1 DEF ListOK, Range
  <2>3. CASE s \in LatestStatuses(statusItems)
    <3>1. StateOfStatus(s) \notin Bad
      BY <2>3, <1>1
    <3>2. s \in Status
      BY DEF DerivationInv, Range
    <3>3. s.state \in {"success", "pending", "failure"}
      BY <3>2 DEF Status
    <3>4. s.state # "pending" /\ s.state # "failure"
      BY <3>1 DEF StateOfStatus, Bad
    <3> QED BY <3>3, <3>4
  <2>4. CASE s \notin LatestStatuses(statusItems)
    <3>1. ~LatestIn(s, statusItems)
      BY <2>1, <2>4, LatestStatusesAre
    <3>2. PICK t \in Range(statusItems) : t.context = s.context /\ t # s /\ ~Newer(s, t)
      BY <3>1 DEF LatestIn
    <3>3. Dated(s) /\ Dated(t) /\ s.id # t.id
      BY <2>1, <2>2, <3>2 DEF ListOK
    <3> QED BY <3>2, <3>3, NewerIsOrder
  <2> QED BY <2>3, <2>4
<1> QED BY <1>2, <1>3

-----------------------------------------------------------------------------
\* A snapshot of what was derived is one the rules have a verdict on.
LEMMA SnapshotIsKnown ==
  ASSUME NEW flags \in Lifecycle, NEW c \in CheckStatus, NEW f, Reviewed(f),
         NEW s, s = SnapshotOf(flags, c, f)
  PROVE  /\ s \in PullRequestSnapshot
         /\ s.isMerged => ~s.isOpen
         /\ \/ s.reviewDecision = "UNKNOWN" /\ ~s.authorHasChangesToMake /\ s.maintainerReviewRequired
            \/ /\ s.reviewDecision = "CHANGES_REQUESTED"
               /\ s.authorHasChangesToMake /\ ~s.maintainerReviewRequired
            \/ s.reviewDecision = "APPROVED" /\ ~s.authorHasChangesToMake /\ ~s.maintainerReviewRequired
            \/ /\ s.reviewDecision = "REVIEW_REQUIRED"
               /\ ~s.authorHasChangesToMake /\ s.maintainerReviewRequired
<1>1. f.decision \in ReviewDecision /\ f.author \in BOOLEAN /\ f.maintainer \in BOOLEAN
  BY DEF Reviewed, ReviewDecision
<1>2. /\ flags.isDraft \in BOOLEAN /\ flags.isOpen \in BOOLEAN /\ flags.isMerged \in BOOLEAN
      /\ flags.hasMergeConflict \in BOOLEAN
      /\ flags.isMerged => ~flags.isOpen
  BY DEF Lifecycle
<1>3. /\ s.isDraft = flags.isDraft /\ s.isOpen = flags.isOpen /\ s.isMerged = flags.isMerged
      /\ s.hasMergeConflict = flags.hasMergeConflict /\ s.checkStatus = c
      /\ s.reviewDecision = f.decision /\ s.authorHasChangesToMake = f.author
      /\ s.maintainerReviewRequired = f.maintainer
  BY DEF SnapshotOf
<1>4. s \in PullRequestSnapshot
  BY <1>1, <1>2 DEF SnapshotOf, PullRequestSnapshot
<1> QED BY <1>1, <1>2, <1>3, <1>4 DEF Reviewed

\* Cases of EvaluateIs, each with the fields of its verdict.
LEMMA VerdictIsSound ==
  ASSUME NEW s \in PullRequestSnapshot, s.isMerged => ~s.isOpen,
         \/ s.reviewDecision = "UNKNOWN" /\ ~s.authorHasChangesToMake /\ s.maintainerReviewRequired
         \/ /\ s.reviewDecision = "CHANGES_REQUESTED"
            /\ s.authorHasChangesToMake /\ ~s.maintainerReviewRequired
         \/ s.reviewDecision = "APPROVED" /\ ~s.authorHasChangesToMake /\ ~s.maintainerReviewRequired
         \/ /\ s.reviewDecision = "REVIEW_REQUIRED"
            /\ ~s.authorHasChangesToMake /\ s.maintainerReviewRequired,
         NEW v, v = Evaluate(s)
  PROVE  ReadyWhenProven(s, v) /\ ActorCanAct(s, v) /\ AmbiguousForCause(s, v)
<1> USE DEF Live
<1>0. /\ s.isDraft \in BOOLEAN /\ s.isOpen \in BOOLEAN /\ s.isMerged \in BOOLEAN
      /\ s.hasMergeConflict \in BOOLEAN /\ s.authorHasChangesToMake \in BOOLEAN
      /\ s.maintainerReviewRequired \in BOOLEAN
      /\ s.checkStatus \in {"PENDING", "SUCCESS", "FAILURE", "NOT_REQUIRED", "UNKNOWN"}
  BY DEF PullRequestSnapshot, CheckStatus
<1>1. CASE ~Live(s)
  <2>1. CASE s.isMerged \/ ~s.isOpen
    <3>1. v.nextActor = "NONE" /\ v.readiness \in {"READY_FOR_RELEASE", "COMPLETE"}
      BY <2>1, <1>0, EvaluateIs DEF Verdict
    <3> QED BY <3>1, <2>1, <1>0 DEF ReadyWhenProven, ActorCanAct, AmbiguousForCause
  <2>2. CASE ~s.isMerged /\ s.isOpen /\ s.isDraft
    <3>1. v.nextActor = "AUTHOR" /\ v.readiness = "NOT_READY"
      BY <2>2, EvaluateIs DEF Verdict, AuthorsTurn
    <3> QED BY <3>1, <2>2, <1>0 DEF ReadyWhenProven, ActorCanAct, AmbiguousForCause
  <2> QED BY <2>1, <2>2, <1>1, <1>0
<1>2. CASE Live(s) /\ ~ChecksPass(s)
  <2>1. CASE s.checkStatus = "FAILURE"
    <3>1. v.nextActor = "AUTHOR" /\ v.readiness = "NOT_READY"
      BY <2>1, <1>2, EvaluateIs DEF Verdict, AuthorsTurn
    <3> QED BY <3>1, <2>1, <1>2 DEF ReadyWhenProven, ActorCanAct, AmbiguousForCause
  <2>2. CASE s.checkStatus = "PENDING"
    <3>1. v.nextActor = "CI" /\ v.readiness = "NOT_READY"
      BY <2>2, <1>2, EvaluateIs DEF Verdict
    <3> QED BY <3>1, <2>2, <1>2 DEF ReadyWhenProven, ActorCanAct, AmbiguousForCause
  <2>3. CASE s.checkStatus = "UNKNOWN"
    <3>1. /\ v.nextActor = "UNKNOWN" /\ v.readiness = "AMBIGUOUS"
          /\ v.reasonCode = "CI_STATUS_UNKNOWN"
      BY <2>3, <1>2, EvaluateIs DEF Verdict, Ambiguous
    <3> QED BY <3>1, <2>3, <1>2 DEF ReadyWhenProven, ActorCanAct, AmbiguousForCause
  <2> QED BY <2>1, <2>2, <2>3, <1>0, <1>2 DEF ChecksPass
<1>3. CASE Live(s) /\ ChecksPass(s)
  <2>0. Passing(s)
    BY <1>3 DEF Passing, CiSatisfied, ChecksPass
  <2>1. CASE s.reviewDecision = "UNKNOWN"
    <3>1. /\ v.nextActor = "UNKNOWN" /\ v.readiness = "AMBIGUOUS"
          /\ v.reasonCode = "REVIEW_STATUS_UNKNOWN"
      BY <2>0, <2>1, EvaluateIs DEF Verdict, Ambiguous
    <3> QED BY <3>1, <2>1, <1>3 DEF ReadyWhenProven, ActorCanAct, AmbiguousForCause
  <2>2. CASE s.reviewDecision = "CHANGES_REQUESTED"
    <3>1. v.nextActor = "AUTHOR" /\ v.readiness = "NOT_READY" /\ s.authorHasChangesToMake
      BY <2>0, <2>2, EvaluateIs DEF Verdict, AuthorsTurn
    <3> QED BY <3>1, <2>2, <1>3 DEF ReadyWhenProven, ActorCanAct, AmbiguousForCause
  <2>3. CASE s.reviewDecision \in {"APPROVED", "REVIEW_REQUIRED"} /\ s.hasMergeConflict
    <3>1. v.nextActor = "AUTHOR" /\ v.readiness = "NOT_READY"
      BY <2>0, <2>3, EvaluateIs DEF Verdict, AuthorsTurn
    <3> QED BY <3>1, <2>3, <1>3 DEF ReadyWhenProven, ActorCanAct, AmbiguousForCause
  <2>4. CASE s.reviewDecision = "REVIEW_REQUIRED" /\ ~s.hasMergeConflict
    <3>1. v.nextActor = "MAINTAINER" /\ v.readiness = "READY_FOR_REVIEW"
      BY <2>0, <2>4, EvaluateIs DEF Verdict
    <3> QED BY <3>1, <2>4, <1>3 DEF ReadyWhenProven, ActorCanAct, AmbiguousForCause
  <2>5. CASE s.reviewDecision = "APPROVED" /\ ~s.hasMergeConflict
    <3>1. v.nextActor = "MAINTAINER" /\ v.readiness = "READY_TO_MERGE"
      BY <2>0, <2>5, EvaluateIs DEF Verdict
    <3> QED BY <3>1, <2>5, <1>3 DEF ReadyWhenProven, ActorCanAct, AmbiguousForCause
  <2> QED BY <2>1, <2>2, <2>3, <2>4, <2>5, <1>0
<1> QED BY <1>1, <1>2, <1>3

LEMMA EvaluationIsSoundNow == DerivationInv => EvaluationIsSound
<1> SUFFICES ASSUME DerivationInv PROVE EvaluationIsSound
  OBVIOUS
<1> DEFINE Sound(flags) ==
             LET s == SnapshotOf(flags, checkStatus, facts)
                 verdict == Evaluate(s)
             IN  ReadyWhenProven(s, verdict) /\ ActorCanAct(s, verdict) /\ AmbiguousForCause(s, verdict)
<1>1. checkStatus \in CheckStatus
  BY CheckStatusIs DEF checkStatus, DerivationInv
<1>2. Reviewed(facts)
  BY ReviewDecisionIs DEF facts, DerivationInv
<1>3. ASSUME NEW flags \in Lifecycle PROVE Sound(flags)
  <2>1. PICK s : s = SnapshotOf(flags, checkStatus, facts)
    OBVIOUS
  <2>2. PICK v : v = Evaluate(s)
    OBVIOUS
  <2>3. ReadyWhenProven(s, v) /\ ActorCanAct(s, v) /\ AmbiguousForCause(s, v)
    BY <1>1, <1>2, <2>1, <2>2, SnapshotIsKnown, VerdictIsSound
  <2> QED BY <2>1, <2>2, <2>3
<1> QED BY <1>3 DEF EvaluationIsSound

\* Change requests block until their own reviewer approves or they are dismissed,
\* for reviews in whatever order and number.
THEOREM ChangeRequestsAlwaysStand == DerivationSpec => []ChangeRequestsStand
<1>1. DerivationInv => ChangeRequestsStand
  BY ChangeRequestsStandNow
<1> QED BY <1>1, DerivedListsAreGitHubs, PTL

\* APPROVED rests on as many standing approvals as the rules ask for, of the current head
\* where a push dismisses them, and on no standing change request.
THEOREM ApprovalsAreEarned == DerivationSpec => []ApprovalIsEarned
<1>1. DerivationInv => ApprovalIsEarned
  BY ApprovalIsEarnedNow
<1> QED BY <1>1, DerivedListsAreGitHubs, PTL

\* SUCCESS rests on a successful report of every required check.
THEOREM SuccessIsReported == DerivationSpec => []RequiredChecksReported
<1>1. DerivationInv => RequiredChecksReported
  BY RequiredChecksReportedNow
<1> QED BY <1>1, DerivedListsAreGitHubs, PTL

\* Without required checks, SUCCESS ignores no report.
THEOREM ReportsAreHeard == DerivationSpec => []NoReportIsIgnored
<1>1. DerivationInv => NoReportIsIgnored
  BY NoReportIsIgnoredNow
<1> QED BY <1>1, DerivedListsAreGitHubs, PTL

\* Whatever the answers, the verdict on what is derived of them claims readiness exactly
\* when it is proven, names somebody who can act and is ambiguous for a cause only.
THEOREM VerdictsAreSound == DerivationSpec => []EvaluationIsSound
<1>1. DerivationInv => EvaluationIsSound
  BY EvaluationIsSoundNow
<1> QED BY <1>1, DerivedListsAreGitHubs, PTL

-----------------------------------------------------------------------------
(* The reconciliation run *)

\* The reviews in the order they were submitted.
ReviewEntry == [id : Nat, time : Nat, login : Logins, commit : Heads,
                state : {"APPROVED", "CHANGES_REQUESTED", "COMMENTED", "DISMISSED"}]
ReviewsOK(list) ==
  /\ list \in Seq(ReviewEntry)
  /\ \A i \in DOMAIN list : list[i].id = i /\ list[i].time = i
\* What GitHub holds; a commit whose check is a success has passed it.
GitHubOK ==
  /\ pr \in [state : {"open", "closed", "merged"}, draft : BOOLEAN, head : Heads,
             conflict : BOOLEAN, computed : BOOLEAN]
  /\ checks \in [Heads -> CheckState]
  /\ rules \in [available : BOOLEAN, set : RuleSets \union {{}}]
  /\ ReviewsOK(reviews)
  /\ \A h \in Heads : checks[h] = "SUCCESS" => h \in passed
  /\ touched \in BOOLEAN
\* What the requests of a run can have read.
PolicyRead(p) == \E set \in RuleSets \union {{}}, a \in BOOLEAN : p = Policy(set, a)
ChecksRead(runs, head) ==
  \/ runs = <<>>
  \/ \E x \in CheckState \ {"none"} :
       /\ runs = << [name |-> "build", app |-> NoApp, state |-> x] >>
       /\ x = "SUCCESS" => head \in passed
\* Nothing is read while the run polls.
RunOK ==
  /\ DOMAIN run = {"at", "tries", "first", "rules", "reviews", "checks", "result"}
  /\ run.at \in {"idle", "polling", "reading", "done"}
  /\ run.at = "polling" => run.rules = Unread /\ run.reviews = Unread /\ run.checks = Unread
\* What was read is of some moment of the run; a success is the commit's own.
ReadingOK ==
  run.at = "reading" =>
    /\ run.first.head \in Heads
    /\ run.rules = Unread \/ PolicyRead(run.rules)
    /\ run.reviews = Unread \/ ReviewsOK(run.reviews)
    /\ run.checks = Unread \/ ChecksRead(run.checks, run.first.head)
\* While nothing happens on GitHub, what was read is what GitHub holds, and the
\* mergeability of an open pull request is known.
QuietReading ==
  run.at = "reading" /\ ~touched =>
    /\ run.first.head = pr.head
    /\ pr.state = "open" => pr.computed
    /\ run.rules = Unread \/ run.rules = Policy(rules.set, rules.available)
    /\ run.reviews = Unread \/ run.reviews = reviews
    /\ run.checks = Unread \/ run.checks = RunsOf(pr.head)
\* The inductive invariant.
ReconciliationInv ==
  /\ GitHubOK /\ RunOK /\ ReadingOK /\ QuietReading
  /\ ReadyOnItsOwnEvidence /\ QuietRunIsExact

-----------------------------------------------------------------------------
(* The policy is a number and two flags *)

\* A finite set of naturals has a largest element.
LEMMA LargestNatural ==
  ASSUME NEW S, IsFiniteSet(S), S # {}, S \subseteq Nat
  PROVE  \E m \in S : \A x \in S : x <= m
<1> DEFINE T == {n \in Nat : \A X : /\ IsFiniteSet(X) /\ X \subseteq Nat
                                   /\ Cardinality(X) = n + 1
                                   => \E m \in X : \A x \in X : x <= m}
<1>1. 0 \in T
  <2> SUFFICES ASSUME NEW X, IsFiniteSet(X), X \subseteq Nat, Cardinality(X) = 0 + 1
               PROVE  \E m \in X : \A x \in X : x <= m
    OBVIOUS
  <2>1. PICK m : X = {m}
    BY FS_Singleton
  <2> QED BY <2>1
<1>2. ASSUME NEW n \in T PROVE n + 1 \in T
  <2> SUFFICES ASSUME NEW X, IsFiniteSet(X), X \subseteq Nat, Cardinality(X) = n + 1 + 1
               PROVE  \E m \in X : \A x \in X : x <= m
    OBVIOUS
  <2>1. X # {}
    BY FS_EmptySet
  <2>2. PICK e \in X : TRUE
    BY <2>1
  <2>3. IsFiniteSet(X \ {e}) /\ Cardinality(X \ {e}) = n + 1
    <3>1. IsFiniteSet(X \ {e}) /\ Cardinality(X \ {e}) = Cardinality(X) - 1
      BY <2>2, FS_RemoveElement
    <3> QED BY <3>1
  <2>4. PICK m \in X \ {e} : \A x \in X \ {e} : x <= m
    BY <2>3
  <2>5. CASE e <= m
    BY <2>4, <2>5
  <2>6. CASE m < e
    <3>1. \A x \in X : x <= e
      BY <2>4, <2>6
    <3> QED BY <3>1
  <2> QED BY <2>4, <2>5, <2>6
<1>3. T = Nat
  <2>1. T \in SUBSET Nat
    OBVIOUS
  <2> HIDE DEF T
  <2> QED BY <1>1, <1>2, <2>1, Induction
<1>4. Cardinality(S) \in Nat /\ Cardinality(S) # 0
  BY FS_CardinalityType, FS_EmptySet
<1>5. Cardinality(S) - 1 \in T /\ Cardinality(S) = Cardinality(S) - 1 + 1
  BY <1>3, <1>4
<1> QED BY <1>5

\* The images of a finite set are no more than its elements.
LEMMA ImagesAreFewer ==
  ASSUME NEW S, IsFiniteSet(S), NEW f, NEW T, T = {f[x] : x \in S}
  PROVE  IsFiniteSet(T) /\ Cardinality(T) <= Cardinality(S)
<1>1. PICK g : g = [x \in S |-> f[x]]
  OBVIOUS
<1>2. g \in [S -> T] /\ \A t \in T : \E x \in S : g[x] = t
  BY <1>1
<1>3. g \in Surjection(S, T)
  BY <1>2 DEF Surjection
<1> QED BY <1>3, FS_Surjection

\* The approvals of a policy are the largest number a rule asks for: a number.
LEMMA PolicyIsParsed ==
  ASSUME NEW p, PolicyRead(p)
  PROVE  /\ p.approvals \in Nat /\ p.available \in BOOLEAN
         /\ p.dismissStale \in BOOLEAN /\ p.needsMore \in BOOLEAN
<1>1. PICK set \in RuleSets \union {{}}, a \in BOOLEAN : p = Policy(set, a)
  BY DEF PolicyRead
<1> DEFINE prRules == {r \in set : r.type = "pull_request"}
           S == {r.approvals : r \in prRules} \union {0}
<1>2. p.approvals = CHOOSE n \in S : \A r \in prRules : r.approvals <= n
  BY <1>1 DEF Policy
<1>3. IsFiniteSet(prRules) /\ \A r \in prRules : r.approvals \in Nat
  <2>1. IsFiniteSet(set)
    BY FactsAssumption, FS_EmptySet
  <2> QED BY <2>1, FactsAssumption, FS_Subset
<1>4. IsFiniteSet(S)
  <2>1. PICK f : f = [r \in prRules |-> r.approvals]
    OBVIOUS
  <2>2. PICK T : T = {r.approvals : r \in prRules}
    OBVIOUS
  <2> HIDE DEF prRules
  <2>3. T = {f[r] : r \in prRules}
    BY <2>1, <2>2
  <2>4. IsFiniteSet(T)
    BY <1>3, <2>3, ImagesAreFewer
  <2> QED BY <2>2, <2>4, FS_AddElement
<1>5. S \subseteq Nat /\ S # {}
  BY <1>3
<1>6. PICK m \in S : \A x \in S : x <= m
  <2> HIDE DEF S
  <2> QED BY <1>4, <1>5, LargestNatural
<1>7. p.approvals \in S
  <2>1. \A r \in prRules : r.approvals \in S
    OBVIOUS
  <2>2. \A r \in prRules : r.approvals <= m
    BY <1>6, <2>1
  <2> HIDE DEF S, prRules
  <2> QED BY <1>2, <2>2
<1>8. p.available = a /\ p.dismissStale \in BOOLEAN /\ p.needsMore \in BOOLEAN
  BY <1>1, PolicyFlags
<1> QED BY <1>5, <1>7, <1>8

-----------------------------------------------------------------------------
(* What one run concludes *)

\* The snapshot of a run and what it is made of.
LEMMA SnapshotOfRun ==
  ASSUME NEW final, final.draft \in BOOLEAN, NEW p, PolicyRead(p),
         NEW list, NEW runs, NEW head,
         NEW s, s = Snapshot(final, p, list, runs, head),
         NEW f, f = DeriveReviewDecision(list, p, head)
  PROVE  /\ s \in PullRequestSnapshot /\ Reviewed(f)
         /\ s.isDraft = final.draft
         /\ s.isOpen <=> final.state = "open"
         /\ s.isMerged <=> final.state = "merged"
         /\ s.hasMergeConflict <=> final.mergeable = "no"
         /\ s.checkStatus = DeriveCheckStatus(runs, <<>>, p)
         /\ s.reviewDecision = f.decision
         /\ s.authorHasChangesToMake = f.author
         /\ s.maintainerReviewRequired = f.maintainer
<1>1. PICK c : c = DeriveCheckStatus(runs, <<>>, p)
  OBVIOUS
<1>2. Reviewed(f)
  BY PolicyIsParsed, ReviewDecisionIs
<1>3. f.decision \in ReviewDecision /\ f.author \in BOOLEAN /\ f.maintainer \in BOOLEAN
  BY <1>2 DEF Reviewed, ReviewDecision
<1>4. c \in CheckStatus
  BY <1>1, PolicyIsParsed, CheckStatusIs
<1>5. PICK o \in BOOLEAN, m \in BOOLEAN, n \in BOOLEAN :
        /\ o <=> final.state = "open"
        /\ m <=> final.state = "merged"
        /\ n <=> final.mergeable = "no"
  OBVIOUS
<1>6. s = [ isDraft |-> final.draft, isOpen |-> o, isMerged |-> m, hasMergeConflict |-> n,
            checkStatus |-> c, reviewDecision |-> f.decision,
            authorHasChangesToMake |-> f.author, maintainerReviewRequired |-> f.maintainer ]
  BY <1>1, <1>5 DEF Snapshot
<1> QED BY <1>1, <1>2, <1>3, <1>4, <1>5, <1>6 DEF PullRequestSnapshot

\* READY_TO_MERGE is the verdict on passing checks and an approval.
LEMMA ReadyRests ==
  ASSUME NEW final, final.draft \in BOOLEAN, NEW p, PolicyRead(p),
         NEW list, NEW runs, NEW head,
         NEW s, s = Snapshot(final, p, list, runs, head),
         Evaluate(s).readiness = "READY_TO_MERGE"
  PROVE  /\ DeriveCheckStatus(runs, <<>>, p) \in {"SUCCESS", "NOT_REQUIRED"}
         /\ DeriveReviewDecision(list, p, head).decision = "APPROVED"
<1>1. PICK f : f = DeriveReviewDecision(list, p, head)
  OBVIOUS
<1>2. /\ s \in PullRequestSnapshot /\ Reviewed(f)
      /\ s.isOpen <=> final.state = "open"
      /\ s.isMerged <=> final.state = "merged"
      /\ s.checkStatus = DeriveCheckStatus(runs, <<>>, p)
      /\ s.reviewDecision = f.decision
      /\ s.authorHasChangesToMake = f.author
      /\ s.maintainerReviewRequired = f.maintainer
  BY <1>1, SnapshotOfRun
<1>3. ReadyWhenProven(s, Evaluate(s))
  BY <1>2, VerdictIsSound DEF Reviewed
<1>4. s.checkStatus \in {"SUCCESS", "NOT_REQUIRED"} /\ s.reviewDecision = "APPROVED"
  BY <1>3 DEF ReadyWhenProven, ChecksPass
<1> QED BY <1>1, <1>2, <1>4

\* A run that is called ready has a passing check if one is required.
LEMMA CheckedOrNotRequired ==
  ASSUME NEW p, PolicyRead(p), NEW runs, NEW head, ChecksRead(runs, head),
         DeriveCheckStatus(runs, <<>>, p) \in {"SUCCESS", "NOT_REQUIRED"},
         p.required # {}
  PROVE  head \in passed
<1>1. PICK c : c = DeriveCheckStatus(runs, <<>>, p)
  OBVIOUS
<1>2. PICK required \in p.required : TRUE
  OBVIOUS
<1>3. PICK state : state = StateOfRequired(required, runs, LatestStatuses(<<>>))
  OBVIOUS
<1>4. state \notin Bad
  BY <1>1, <1>3, PolicyIsParsed, CheckStatusIs
<1>5. LatestStatuses(<<>>) = {}
  <2>1. ListOK(<<>>, 0)
    BY DEF ListOK
  <2>2. ASSUME NEW x PROVE ~LatestIn(x, <<>>)
    BY DEF LatestIn, Range
  <2> QED BY <2>1, <2>2, LatestStatusesAre
<1>6. state = IF FirstReport(runs, required) # 0 THEN runs[FirstReport(runs, required)].state
              ELSE "PENDING"
  BY <1>3, <1>5 DEF StateOfRequired, FirstReport
<1>7. PICK i : i = FirstReport(runs, required)
  OBVIOUS
<1>8. i # 0 /\ runs[i].state = state
  BY <1>4, <1>6, <1>7 DEF Bad
<1>9. CASE runs = <<>>
  <2>1. DOMAIN runs = 1 .. 0 /\ Len(runs) = 0
    BY <1>9
  <2> QED BY <2>1, <1>7, <1>8, FirstReportReports
<1>10. CASE \E x \in CheckState \ {"none"} :
              /\ runs = << [name |-> "build", app |-> NoApp, state |-> x] >>
              /\ x = "SUCCESS" => head \in passed
  <2>1. PICK x \in CheckState \ {"none"} :
          /\ runs = << [name |-> "build", app |-> NoApp, state |-> x] >>
          /\ x = "SUCCESS" => head \in passed
    BY <1>10
  <2>2. DOMAIN runs = 1 .. 1 /\ Len(runs) = 1 /\ runs[1].state = x
    BY <2>1
  <2>3. i = 1
    BY <2>2, <1>7, <1>8, FirstReportReports
  <2> QED BY <2>1, <2>2, <2>3, <1>4, <1>8 DEF CheckState, Bad
<1> QED BY <1>9, <1>10 DEF ChecksRead

\* ... and as many reviews of its commit as it needs approvals, if these must be fresh.
LEMMA ApprovedByEnough ==
  ASSUME NEW p, PolicyRead(p), NEW list, ReviewsOK(list), NEW head,
         DeriveReviewDecision(list, p, head).decision = "APPROVED", p.dismissStale
  PROVE  Cardinality({i \in DOMAIN list : list[i].commit = head}) >= p.approvals
<1> DEFINE T == {i \in DOMAIN list : list[i].commit = head}
<1>1. PICK n \in Nat : ListOK(list, n)
  <2>1. DOMAIN list = 1 .. Len(list) /\ Len(list) \in Nat
    BY DEF ReviewsOK
  <2>2. \A i \in 1 .. Len(list) : Dated(list[i])
    BY <2>1 DEF ReviewsOK, Dated
  <2> QED BY <2>1, <2>2 DEF ListOK, ReviewsOK
<1>2. PICK A : A = Approvals(list, p, head)
  OBVIOUS
<1>3. Cardinality(A) >= p.approvals
  BY <1>2, PolicyIsParsed, ReviewDecisionIs
<1>4. IsFiniteSet(T)
  <2>1. T \in SUBSET (1 .. n) /\ IsFiniteSet(1 .. n)
    BY <1>1, FS_Interval DEF ListOK
  <2> HIDE DEF T
  <2> QED BY <2>1, FS_Subset
<1>5. PICK images : images = {list[i] : i \in T}
  OBVIOUS
<1>6. IsFiniteSet(images) /\ Cardinality(images) <= Cardinality(T)
  <2> HIDE DEF T
  <2> QED BY <1>4, <1>5, ImagesAreFewer
<1>7. A \subseteq images
  <2>1. ASSUME NEW r \in A PROVE r \in images
    <3>1. StandsIn(r, list) /\ r.commit = head
      BY <1>1, <1>2, <2>1, CurrentReviewsStand DEF Approvals
    <3> QED BY <3>1, <1>5 DEF StandsIn, Range
  <2> QED BY <2>1
<1>8. IsFiniteSet(A) /\ Cardinality(A) <= Cardinality(images)
  BY <1>6, <1>7, FS_Subset
<1>9. Cardinality(A) \in Nat /\ Cardinality(images) \in Nat /\ Cardinality(T) \in Nat
  <2> HIDE DEF T
  <2> QED BY <1>4, <1>6, <1>8, FS_CardinalityType
<1>10. p.approvals \in Nat
  BY PolicyIsParsed
<1>11. Cardinality(T) >= p.approvals
  <2> HIDE DEF T
  <2> QED BY <1>3, <1>6, <1>8, <1>9, <1>10
<1> QED BY <1>11

\* A conflict is only looked at while the pull request is open.
LEMMA SameVerdict ==
  ASSUME NEW a, a.draft \in BOOLEAN, NEW b, b.draft = a.draft, b.state = a.state,
         a.state = "open" => b.mergeable = a.mergeable,
         NEW p, PolicyRead(p), NEW list, NEW runs, NEW head
  PROVE  Evaluate(Snapshot(a, p, list, runs, head)) = Evaluate(Snapshot(b, p, list, runs, head))
<1>1. CASE a.state = "open"
  <2>1. Snapshot(a, p, list, runs, head) = Snapshot(b, p, list, runs, head)
    BY <1>1 DEF Snapshot
  <2> QED BY <2>1
<1>2. CASE a.state # "open"
  <2>1. PICK s : s = Snapshot(a, p, list, runs, head)
    OBVIOUS
  <2>2. PICK t : t = Snapshot(b, p, list, runs, head)
    OBVIOUS
  <2>3. /\ s \in PullRequestSnapshot /\ ~s.isOpen
        /\ s.isMerged <=> a.state = "merged"
    BY <2>1, <1>2, SnapshotOfRun
  <2>4. /\ t \in PullRequestSnapshot /\ ~t.isOpen
        /\ t.isMerged <=> a.state = "merged"
    BY <2>2, <1>2, SnapshotOfRun
  <2>5. Evaluate(s) = Evaluate(t)
    BY <2>3, <2>4, EvaluateIs
  <2> QED BY <2>1, <2>2, <2>5
<1> QED BY <1>1, <1>2

-----------------------------------------------------------------------------
(* The invariant *)

\* The states a run can begin in.
LEMMA ReconciliationInitInv == Init => ReconciliationInv
<1> SUFFICES ASSUME Init PROVE ReconciliationInv
  OBVIOUS
<1> USE DEF Init
<1>1. GitHubOK
  <2>1. pr \in [state : {"open", "closed", "merged"}, draft : BOOLEAN, head : Heads,
                conflict : BOOLEAN, computed : BOOLEAN]
    BY ReconciliationAssumption
  <2>2. checks \in [Heads -> CheckState] /\ \A h \in Heads : checks[h] = "none"
    BY DEF CheckState
  <2>3. rules \in [available : BOOLEAN, set : RuleSets \union {{}}]
    <3>1. PICK available \in BOOLEAN :
            rules \in [available : {available}, set : IF available THEN RuleSets ELSE {{}}]
      OBVIOUS
    <3>2. CASE available = TRUE
      BY <3>1, <3>2
    <3>3. CASE available = FALSE
      BY <3>1, <3>3
    <3> QED BY <3>2, <3>3
  <2>4. ReviewsOK(reviews)
    BY DEF ReviewsOK
  <2> QED BY <2>1, <2>2, <2>3, <2>4 DEF GitHubOK
<1>2. run.at = "idle" /\ RunOK
  BY DEF Idle, RunOK
<1> QED BY <1>1, <1>2 DEF ReconciliationInv, ReadingOK, QuietReading, ReadyOnItsOwnEvidence,
                          Ready, Concluded, QuietRunIsExact

\* What people do: the run stays as it is and is no longer quiet.
LEMMA PeopleKeepInv ==
  ASSUME ReconciliationInv, People
  PROVE  ReconciliationInv'
<1> USE DEF ReconciliationInv
<1>1. run' = run /\ touched' = TRUE /\ passed \subseteq passed'
  BY DEF People, Push, MoveBase, SetDraftOrState, SubmitReview, DismissReview, ReportCheck,
         ChangeRules, Changed
<1>2. RunOK' /\ ReadingOK'
  <2>1. RunOK'
    BY <1>1 DEF RunOK
  <2>2. ASSUME NEW runs, NEW h, ChecksRead(runs, h) PROVE ChecksRead(runs, h)'
    BY <2>2, <1>1 DEF ChecksRead
  <2> QED BY <2>1, <2>2, <1>1 DEF ReadingOK
<1>3. QuietReading' /\ QuietRunIsExact'
  BY <1>1 DEF QuietReading, QuietRunIsExact
<1>4. ReadyOnItsOwnEvidence'
  BY <1>1 DEF ReadyOnItsOwnEvidence, Ready, Concluded
<1>5. GitHubOK'
  <2> USE DEF GitHubOK
  <2>1. CASE Push
    <3>1. PICK h \in Heads \ {pr.head}, conflict \in BOOLEAN :
            pr' = [pr EXCEPT !.head = h, !.conflict = conflict, !.computed = FALSE]
      BY <2>1 DEF Push
    <3> QED BY <3>1, <2>1, <1>1 DEF Push
  <2>2. CASE MoveBase
    <3>1. PICK conflict \in BOOLEAN : pr' = [pr EXCEPT !.conflict = conflict, !.computed = FALSE]
      BY <2>2 DEF MoveBase
    <3> QED BY <3>1, <2>2, <1>1 DEF MoveBase
  <2>3. CASE SetDraftOrState
    BY <2>3, <1>1 DEF SetDraftOrState
  <2>4. CASE SubmitReview
    <3>1. PICK l \in Logins, s \in {"APPROVED", "CHANGES_REQUESTED", "COMMENTED"} :
            reviews' = Append(reviews, [id |-> Len(reviews) + 1, time |-> Len(reviews) + 1,
                                        login |-> l, state |-> s, commit |-> pr.head])
      BY <2>4 DEF SubmitReview
    <3>2. PICK e : e = [id |-> Len(reviews) + 1, time |-> Len(reviews) + 1,
                        login |-> l, state |-> s, commit |-> pr.head]
      OBVIOUS
    <3>3. reviews \in Seq(ReviewEntry) /\ Len(reviews) \in Nat
      BY DEF ReviewsOK
    <3>4. e \in ReviewEntry /\ e.id = Len(reviews) + 1 /\ e.time = Len(reviews) + 1
      BY <3>2, <3>3 DEF ReviewEntry
    <3>5. ReviewsOK(Append(reviews, e))
      BY <3>3, <3>4 DEF ReviewsOK
    <3>6. ReviewsOK(reviews)'
      BY <3>1, <3>2, <3>5 DEF ReviewsOK
    <3> QED BY <3>6, <2>4, <1>1 DEF SubmitReview
  <2>5. CASE DismissReview
    <3>1. PICK i \in DOMAIN reviews : reviews' = [reviews EXCEPT ![i].state = "DISMISSED"]
      BY <2>5 DEF DismissReview
    <3>2. reviews \in Seq(ReviewEntry) /\ reviews[i] \in ReviewEntry
      BY <3>1 DEF ReviewsOK
    <3>3. PICK e : e = [reviews[i] EXCEPT !.state = "DISMISSED"]
      OBVIOUS
    <3>4. e \in ReviewEntry /\ e.id = reviews[i].id /\ e.time = reviews[i].time
      BY <3>2, <3>3 DEF ReviewEntry
    <3>5. reviews' = [reviews EXCEPT ![i] = e]
      BY <3>1, <3>3
    <3>6. /\ reviews' \in Seq(ReviewEntry) /\ DOMAIN reviews' = DOMAIN reviews
          /\ reviews'[i] = e
          /\ \A j \in DOMAIN reviews : j # i => reviews'[j] = reviews[j]
      BY <3>2, <3>4, <3>5
    <3>7. ReviewsOK(reviews)'
      BY <3>1, <3>4, <3>6 DEF ReviewsOK
    <3> QED BY <3>7, <2>5, <1>1 DEF DismissReview
  <2>6. CASE ReportCheck
    <3>1. PICK h \in Heads, s \in CheckState \ {"none"} :
            /\ checks' = [checks EXCEPT ![h] = s]
            /\ passed' = IF s = "SUCCESS" THEN passed \union {h} ELSE passed
      BY <2>6 DEF ReportCheck
    <3>2. checks' \in [Heads -> CheckState] /\ \A g \in Heads : checks'[g] = "SUCCESS" => g \in passed'
      BY <3>1
    <3> QED BY <3>2, <2>6, <1>1 DEF ReportCheck, ReviewsOK
  <2>7. CASE ChangeRules
    <3>1. PICK set \in RuleSets \ {rules.set} : rules' = [rules EXCEPT !.set = set]
      BY <2>7 DEF ChangeRules
    <3> QED BY <3>1, <2>7, <1>1 DEF ChangeRules, ReviewsOK
  <2> QED BY <2>1, <2>2, <2>3, <2>4, <2>5, <2>6, <2>7 DEF People
<1> QED BY <1>2, <1>3, <1>4, <1>5

\* Steps that only move the run.
LEMMA RunLeavesGitHub ==
  ASSUME GitHubOK, UNCHANGED github, UNCHANGED passed, touched' \in BOOLEAN
  PROVE  GitHubOK'
  BY DEF GitHubOK, ReviewsOK, github

\* GitHub computes the mergeability.
LEMMA ComputeKeepsInv ==
  ASSUME ReconciliationInv, ComputeMergeability
  PROVE  ReconciliationInv'
<1> USE DEF ReconciliationInv, ComputeMergeability
<1>1. /\ pr \in [state : {"open", "closed", "merged"}, draft : BOOLEAN, head : Heads,
                 conflict : BOOLEAN, computed : BOOLEAN]
      /\ pr' = [pr EXCEPT !.computed = TRUE]
  BY DEF GitHubOK
<1>2. /\ pr' \in [state : {"open", "closed", "merged"}, draft : BOOLEAN, head : Heads,
                  conflict : BOOLEAN, computed : BOOLEAN]
      /\ pr'.state = pr.state /\ pr'.draft = pr.draft /\ pr'.head = pr.head
      /\ pr'.conflict = pr.conflict /\ pr'.computed = TRUE
  BY <1>1
<1>3. GitHubOK' /\ RunOK' /\ ReadingOK'
  BY <1>2 DEF GitHubOK, ReviewsOK, RunOK, ReadingOK, ChecksRead
<1>4. QuietReading'
  BY <1>2 DEF QuietReading, RunsOf
<1>5. ReadyOnItsOwnEvidence'
  BY DEF ReadyOnItsOwnEvidence, Ready, Concluded
<1>6. QuietRunIsExact'
  <2>1. [Fetched EXCEPT !.mergeable = IF pr.conflict THEN "no" ELSE "yes"]'
          = [Fetched EXCEPT !.mergeable = IF pr.conflict THEN "no" ELSE "yes"]
    BY <1>2 DEF Fetched
  <2>2. RunsOf(pr.head)' = RunsOf(pr.head)
    BY <1>2 DEF RunsOf
  <2> QED BY <2>1, <2>2, <1>2 DEF QuietRunIsExact, Concluded
<1> QED BY <1>3, <1>4, <1>5, <1>6

\* A run that begins.
LEMMA StartKeepsInv ==
  ASSUME ReconciliationInv, Start
  PROVE  ReconciliationInv'
<1> USE DEF ReconciliationInv, Start
<1>1. /\ DOMAIN run' = {"at", "tries", "first", "rules", "reviews", "checks", "result"}
      /\ run'.at = "polling"
      /\ run'.rules = Unread /\ run'.reviews = Unread /\ run'.checks = Unread
  BY DEF Idle
<1>2. GitHubOK'
  BY RunLeavesGitHub
<1> QED BY <1>1, <1>2 DEF RunOK, ReadingOK, QuietReading, ReadyOnItsOwnEvidence, Ready,
                           Concluded, QuietRunIsExact

\* A run that ends without a conclusion.
LEMMA EndKeepsInv ==
  ASSUME ReconciliationInv, NEW status, NEW reason, Ends(status, reason),
         status \notin {"READY", "POLICY_UNRESOLVED"},
         status = "RETRY_REQUIRED" /\ ~touched => reason = "MERGEABILITY_PENDING",
         UNCHANGED <<github, changes, touched, passed>>
  PROVE  ReconciliationInv'
<1> USE DEF ReconciliationInv
<1>1. /\ DOMAIN run' = {"at", "tries", "first", "rules", "reviews", "checks", "result"}
      /\ run'.at = "done" /\ run'.result = [status |-> status, reason |-> reason]
  BY DEF Ends, Idle
<1>2. GitHubOK'
  BY RunLeavesGitHub DEF GitHubOK
<1>3. RunOK' /\ ReadingOK' /\ QuietReading'
  BY <1>1 DEF RunOK, ReadingOK, QuietReading
<1>4. ~Concluded'
  BY <1>1 DEF Concluded
<1>5. ReadyOnItsOwnEvidence'
  BY <1>4 DEF ReadyOnItsOwnEvidence, Ready
<1>6. QuietRunIsExact'
  BY <1>1, <1>4 DEF QuietRunIsExact
<1> QED BY <1>2, <1>3, <1>5, <1>6

\* The polls: reading begins with an answer whose mergeability is known, or which is closed.
LEMMA PollKeepsInv ==
  ASSUME ReconciliationInv, Poll
  PROVE  ReconciliationInv'
<1> USE DEF ReconciliationInv, Poll
<1>1. DOMAIN run = {"at", "tries", "first", "rules", "reviews", "checks", "result"}
  BY DEF RunOK
<1>2. run.rules = Unread /\ run.reviews = Unread /\ run.checks = Unread
  BY DEF RunOK
<1>3. GitHubOK'
  BY RunLeavesGitHub DEF GitHubOK
<1>4. CASE Settled(Fetched) /\ run' = [run EXCEPT !.at = "reading", !.first = Fetched]
  <2>1. PICK first : first = Fetched
    OBVIOUS
  <2>2. run' = [run EXCEPT !.at = "reading", !.first = first]
    BY <1>4, <2>1
  <2>3. /\ DOMAIN run' = DOMAIN run /\ run'.at = "reading" /\ run'.first = first
        /\ run'.rules = Unread /\ run'.reviews = Unread /\ run'.checks = Unread
    BY <2>2, <1>1, <1>2
  <2>4. first.head = pr.head /\ pr.head \in Heads /\ (pr.state = "open" => pr.computed)
    BY <1>4, <2>1 DEF Fetched, Settled, GitHubOK
  <2>5. RunOK' /\ ReadingOK'
    BY <2>3, <2>4, <1>1 DEF RunOK, ReadingOK
  <2>6. QuietReading'
    BY <2>3, <2>4 DEF QuietReading, github
  <2>7. ReadyOnItsOwnEvidence' /\ QuietRunIsExact'
    BY <2>3 DEF ReadyOnItsOwnEvidence, Ready, Concluded, QuietRunIsExact
  <2> QED BY <1>3, <2>5, <2>6, <2>7
<1>5. CASE run' = [run EXCEPT !.tries = @ + 1]
  <2>1. /\ DOMAIN run' = DOMAIN run /\ run'.at = "polling"
        /\ run'.rules = Unread /\ run'.reviews = Unread /\ run'.checks = Unread
    BY <1>1, <1>2, <1>5
  <2> QED BY <2>1, <1>1, <1>3 DEF RunOK, ReadingOK, QuietReading, ReadyOnItsOwnEvidence, Ready,
                                  Concluded, QuietRunIsExact
<1>6. CASE Ends("RETRY_REQUIRED", "MERGEABILITY_PENDING")
  BY <1>6, EndKeepsInv
<1> QED BY <1>4, <1>5, <1>6

\* The parallel reads: what is read is what GitHub holds at that moment.
LEMMA ReadKeepsInv ==
  ASSUME ReconciliationInv, ReadRules \/ ReadReviews \/ ReadChecks
  PROVE  ReconciliationInv'
<1> USE DEF ReconciliationInv
<1>1. /\ DOMAIN run = {"at", "tries", "first", "rules", "reviews", "checks", "result"}
      /\ run.at = "reading" /\ UNCHANGED <<github, changes, touched, passed>>
  BY DEF RunOK, ReadRules, ReadReviews, ReadChecks
<1>2. GitHubOK'
  BY <1>1, RunLeavesGitHub DEF GitHubOK
<1>3. UNCHANGED <<pr, reviews, checks, rules, passed, touched>>
  BY <1>1 DEF github
<1>4. ASSUME DOMAIN run' = DOMAIN run, run'.at = "reading", run'.first = run.first,
             \/ run'.rules = run.rules
             \/ run'.rules = Policy(rules.set, rules.available),
             run'.reviews = run.reviews \/ run'.reviews = reviews,
             \/ run'.checks = run.checks
             \/ run'.checks = RunsOf(run.first.head)
      PROVE  ReconciliationInv'
  <2>1. RunOK'
    BY <1>1, <1>4 DEF RunOK
  <2>2. PolicyRead(Policy(rules.set, rules.available))
    BY DEF PolicyRead, GitHubOK
  <2>3. ChecksRead(RunsOf(run.first.head), run.first.head)
    <3>1. run.first.head \in Heads
      BY <1>1 DEF ReadingOK
    <3> QED BY <3>1 DEF ChecksRead, RunsOf, GitHubOK
  <2>4. ReadingOK'
    <3>1. run'.rules = Unread \/ PolicyRead(run'.rules)
      BY <1>1, <1>4, <2>2 DEF ReadingOK
    <3>2. run'.reviews = Unread \/ ReviewsOK(run'.reviews)
      BY <1>1, <1>4 DEF ReadingOK, GitHubOK
    <3>3. run'.checks = Unread \/ ChecksRead(run'.checks, run'.first.head)
      BY <1>1, <1>4, <2>3 DEF ReadingOK
    <3> QED BY <3>1, <3>2, <3>3, <1>1, <1>3, <1>4 DEF ReadingOK, ChecksRead, ReviewsOK
  <2>5. QuietReading'
    BY <1>1, <1>3, <1>4 DEF QuietReading, RunsOf
  <2>6. ReadyOnItsOwnEvidence' /\ QuietRunIsExact'
    BY <1>4 DEF ReadyOnItsOwnEvidence, Ready, Concluded, QuietRunIsExact
  <2> QED BY <1>2, <2>1, <2>4, <2>5, <2>6
<1>5. CASE ReadRules
  <2>1. PICK p : p = Policy(rules.set, rules.available)
    OBVIOUS
  <2>2. run' = [run EXCEPT !.rules = p]
    BY <1>5, <2>1 DEF ReadRules
  <2> QED BY <1>1, <1>4, <2>1, <2>2
<1>6. CASE ReadReviews
  <2>1. run' = [run EXCEPT !.reviews = reviews]
    BY <1>6 DEF ReadReviews
  <2> QED BY <1>1, <1>4, <2>1
<1>7. CASE ReadChecks
  <2>1. PICK r : r = RunsOf(run.first.head)
    OBVIOUS
  <2>2. run' = [run EXCEPT !.checks = r]
    BY <1>7, <2>1 DEF ReadChecks
  <2> QED BY <1>1, <1>4, <2>1, <2>2
<1> QED BY <1>5, <1>6, <1>7

\* The conclusion: the last answer has the head of the first, so that the checks and the
\* reviews that were read are of the commit that is called ready.
LEMMA ConcludeKeepsInv ==
  ASSUME ReconciliationInv, Conclude
  PROVE  ReconciliationInv'
<1> USE DEF ReconciliationInv
<1>1. /\ DOMAIN run = {"at", "tries", "first", "rules", "reviews", "checks", "result"}
      /\ run.at = "reading" /\ UNCHANGED <<github, changes, touched, passed>>
      /\ run.rules # Unread /\ run.reviews # Unread /\ run.checks # Unread
  BY DEF RunOK, Conclude
<1>2. /\ PolicyRead(run.rules) /\ ReviewsOK(run.reviews)
      /\ ChecksRead(run.checks, run.first.head)
  BY <1>1 DEF ReadingOK
<1>3. PICK final : final = Fetched
  OBVIOUS
<1>4. final.draft \in BOOLEAN /\ final.draft = pr.draft /\ final.state = pr.state /\ final.head = pr.head
  BY <1>3 DEF GitHubOK, Fetched
<1>5. CASE ~SameHead(run.first, Fetched)
  <2>1. touched
    BY <1>1, <1>3, <1>4, <1>5 DEF QuietReading, SameHead, GitHubOK
  <2>2. Ends("RETRY_REQUIRED", "HEAD_SHA_CHANGED")
    BY <1>5 DEF Conclude
  <2> QED BY <1>1, <2>1, <2>2, EndKeepsInv
<1>6. CASE SameHead(run.first, Fetched)
  <2>1. PICK s : s = Snapshot(final, run.rules, run.reviews, run.checks, run.first.head)
    OBVIOUS
  <2>2. PICK result :
          result = [ status  |-> IF run.rules.needsMore THEN "POLICY_UNRESOLVED" ELSE "READY",
                     head    |-> final.head,
                     mergeable |-> final.mergeable,
                     verdict |-> Evaluate(s) ]
    OBVIOUS
  <2>3. run' = [run EXCEPT !.at = "done", !.result = result]
    BY <1>3, <1>6, <2>1, <2>2 DEF Conclude
  <2>4. /\ DOMAIN run' = DOMAIN run /\ run'.at = "done" /\ run'.result = result
        /\ run'.rules = run.rules /\ run'.reviews = run.reviews
    BY <2>3, <1>1
  <2>5. /\ result.verdict = Evaluate(s) /\ result.head = final.head
        /\ result.status # "RETRY_REQUIRED"
    BY <2>2
  <2>6. final.head = run.first.head
    BY <1>3, <1>6 DEF SameHead
  <2>7. GitHubOK'
    BY <1>1, RunLeavesGitHub DEF GitHubOK
  <2>8. RunOK' /\ ReadingOK' /\ QuietReading'
    BY <1>1, <2>4 DEF RunOK, ReadingOK, QuietReading
  <2>9. ReadyOnItsOwnEvidence'
    <3> SUFFICES ASSUME Evaluate(s).readiness = "READY_TO_MERGE"
                 PROVE  /\ run.rules.required # {} => final.head \in passed
                        /\ run.rules.dismissStale =>
                             Cardinality({i \in DOMAIN run.reviews :
                                            run.reviews[i].commit = final.head})
                               >= run.rules.approvals
      BY <1>1, <2>4, <2>5 DEF ReadyOnItsOwnEvidence, Ready
    <3>1. /\ DeriveCheckStatus(run.checks, <<>>, run.rules) \in {"SUCCESS", "NOT_REQUIRED"}
          /\ DeriveReviewDecision(run.reviews, run.rules, run.first.head).decision = "APPROVED"
      BY <1>2, <1>4, <2>1, ReadyRests
    <3>2. run.rules.required # {} => final.head \in passed
      BY <1>2, <2>6, <3>1, CheckedOrNotRequired
    <3>3. run.rules.dismissStale =>
            Cardinality({i \in DOMAIN run.reviews : run.reviews[i].commit = final.head})
              >= run.rules.approvals
      BY <1>2, <2>6, <3>1, ApprovedByEnough
    <3> QED BY <3>2, <3>3
  <2>10. QuietRunIsExact'
    <3> DEFINE exact == [Fetched EXCEPT !.mergeable = IF pr.conflict THEN "no" ELSE "yes"]
    <3> SUFFICES ASSUME ~touched
                 PROVE  Evaluate(s) = Evaluate(Snapshot(exact, Policy(rules.set, rules.available),
                                                        reviews, RunsOf(pr.head), pr.head))
      BY <1>1, <2>4, <2>5 DEF QuietRunIsExact, Concluded, github, Fetched, RunsOf
    <3>1. /\ run.first.head = pr.head /\ (pr.state = "open" => pr.computed)
          /\ run.rules = Policy(rules.set, rules.available) /\ run.reviews = reviews
          /\ run.checks = RunsOf(pr.head)
      BY <1>1 DEF QuietReading
    <3>2. /\ exact.draft = final.draft /\ exact.state = final.state
          /\ final.state = "open" => exact.mergeable = final.mergeable
      BY <1>3, <3>1 DEF Fetched
    <3> HIDE DEF exact
    <3>3. Evaluate(s) = Evaluate(Snapshot(exact, run.rules, run.reviews, run.checks, run.first.head))
      BY <1>2, <1>4, <2>1, <3>2, SameVerdict
    <3> QED BY <3>1, <3>3
  <2> QED BY <2>7, <2>8, <2>9, <2>10
<1> QED BY <1>5, <1>6

\* Every step keeps the invariant.
LEMMA ReconciliationNextInv == ReconciliationInv /\ [Next]_vars => ReconciliationInv'
<1> SUFFICES ASSUME ReconciliationInv, [Next]_vars PROVE ReconciliationInv'
  OBVIOUS
<1>1. CASE People
  BY <1>1, PeopleKeepInv
<1>2. CASE ComputeMergeability
  BY <1>2, ComputeKeepsInv
<1>3. CASE Start
  BY <1>3, StartKeepsInv
<1>4. CASE RunStep
  BY <1>4, PollKeepsInv, ReadKeepsInv, ConcludeKeepsInv DEF RunStep
<1>5. CASE RequestFails
  BY <1>5, EndKeepsInv DEF RequestFails
<1>6. CASE UNCHANGED vars
  BY <1>6 DEF vars, ReconciliationInv, GitHubOK, ReviewsOK, RunOK, ReadingOK, ChecksRead, QuietReading,
              RunsOf, Fetched, ReadyOnItsOwnEvidence, Ready, Concluded, QuietRunIsExact
<1> QED BY <1>1, <1>2, <1>3, <1>4, <1>5, <1>6 DEF Next

\* The invariant holds in every behaviour.
THEOREM RunsAreConsistent == Spec => []ReconciliationInv
  BY ReconciliationInitInv, ReconciliationNextInv, PTL DEF Spec

\* However pushes fall between the requests, a commit is called ready on its own check and
\* its own approvals.
THEOREM ReadyRunsHaveEvidence == Spec => []ReadyOnItsOwnEvidence
<1>1. ReconciliationInv => ReadyOnItsOwnEvidence
  BY DEF ReconciliationInv
<1> QED BY <1>1, RunsAreConsistent, PTL

\* A run during which nothing happens on GitHub concludes as one look at the pull request
\* would.
THEOREM QuietRunsAreExact == Spec => []QuietRunIsExact
<1>1. ReconciliationInv => QuietRunIsExact
  BY DEF ReconciliationInv
<1> QED BY <1>1, RunsAreConsistent, PTL
=============================================================================
