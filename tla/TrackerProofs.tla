---------------------------- MODULE TrackerProofs ----------------------------
(***************************************************************************)
(* Proofs about TrackerWindow and TrackerBaseline: the tracker's type,     *)
(* that its counts are those of the paths in the window, and that what a   *)
(* baseline keeps of its data points is enough to find those that stand    *)
(* out, for every tree, set of paths and window.                           *)
(***************************************************************************)
EXTENDS TrackerBaseline, DataLemmas, FiniteSetTheorems, TLAPS

-----------------------------------------------------------------------------
(* What the operators of a tracker return, for any tree and set of paths.  *)

LEMMA TraceType ==
  ASSUME NEW t \in BayesCovertree, NEW p \in Paths, NEW change \in Int
  PROVE  Trace(t, p, change) \in BayesCovertree
<1>1. Len(p) \in Nat /\ Len(p) >= 1 /\ p[Len(p)] \in TreeNode
  BY PathsAssumption
<1>2. \A n \in Nat : Inc(n, change) \in Nat
  BY DEF Inc
<1> DEFINE obs == [b \in Bucket |-> IF b \in StepsOf(p) THEN Inc(t.observations[b], change)
                                                        ELSE t.observations[b]]
           tot == [n \in TreeNode |-> IF \E j \in 1..Len(p) : p[j] = n THEN t.total[n] + change
                                                                       ELSE t.total[n]]
           over == [n \in TreeNode |-> IF n = p[Len(p)] THEN Inc(t.overall[n], change)
                                                        ELSE t.overall[n]]
<1>3. t.observations \in [Bucket -> Nat] /\ t.total \in [TreeNode -> Int]
      /\ t.overall \in [TreeNode -> Nat] /\ t.overallTotal \in Int
  BY DEF BayesCovertree
<1>4. obs \in [Bucket -> Nat]
  BY <1>2, <1>3
<1>5. tot \in [TreeNode -> Int]
  BY <1>3
<1>6. over \in [TreeNode -> Nat]
  BY <1>1, <1>2, <1>3
<1>7. Trace(t, p, change) =
        [t EXCEPT !.observations = obs, !.total = tot, !.overall = over,
                  !.overallTotal = t.overallTotal + change]
  BY DEF Trace
<1>8. t.queue \in Seq(Paths) /\ t.count \in Nat /\ t.window \in Nat
  BY DEF BayesCovertree
<1> HIDE DEF obs, tot, over
<1>9. Trace(t, p, change) =
        [observations |-> obs, total |-> tot, overall |-> over,
         overallTotal |-> t.overallTotal + change,
         queue |-> t.queue, count |-> t.count, window |-> t.window]
  BY <1>7 DEF BayesCovertree
<1> QED
  BY <1>3, <1>4, <1>5, <1>6, <1>8, <1>9 DEF BayesCovertree

LEMMA TraceCounts ==
  ASSUME NEW t \in BayesCovertree, NEW p \in Paths, NEW change \in Int
  PROVE  /\ \A b \in Bucket : Trace(t, p, change).observations[b] =
              IF b \in StepsOf(p) THEN Inc(t.observations[b], change) ELSE t.observations[b]
         /\ Trace(t, p, change).overallTotal = t.overallTotal + change
         /\ Trace(t, p, change).queue = t.queue
         /\ Trace(t, p, change).window = t.window
BY DEF Trace, BayesCovertree

LEMMA AddPathResult ==
  ASSUME NEW t \in BayesCovertree, NEW p \in Paths
  PROVE  LET full == t.window # 0 /\ Len(t.queue) + 1 > t.window
             oldest == Head(Append(t.queue, p))
             n(b) == t.observations[b] + (IF b \in StepsOf(p) THEN 1 ELSE 0)
             u == AddPath(t, p)
         IN  /\ u \in BayesCovertree /\ u.window = t.window
             /\ ~full =>
                  /\ \A b \in Bucket : u.observations[b] = n(b)
                  /\ u.overallTotal = t.overallTotal + 1
                  /\ u.queue = IF t.window = 0 THEN t.queue ELSE Append(t.queue, p)
             /\ full =>
                  /\ oldest \in Paths
                  /\ \A b \in Bucket :
                       u.observations[b] = IF b \in StepsOf(oldest) THEN Inc(n(b), -1) ELSE n(b)
                  /\ u.overallTotal = t.overallTotal
                  /\ u.queue = Tail(Append(t.queue, p))
<1> DEFINE counted == Trace(t, p, 1)
           stepped == [counted EXCEPT !.count = @ + 1]
           queue == Append(t.queue, p)
           n(b) == t.observations[b] + (IF b \in StepsOf(p) THEN 1 ELSE 0)
           shorter == [stepped EXCEPT !.queue = Tail(queue)]
<1>1. /\ t.queue \in Seq(Paths) /\ t.window \in Nat /\ t.overallTotal \in Int
      /\ \A b \in Bucket : t.observations[b] \in Nat
  BY DEF BayesCovertree
<1>2. counted \in BayesCovertree
  BY TraceType
<1>3. /\ \A b \in Bucket : counted.observations[b] = n(b)
      /\ counted.overallTotal = t.overallTotal + 1
      /\ counted.queue = t.queue /\ counted.window = t.window
  <2>1. \A m \in Nat : Inc(m, 1) = m + 1
    BY DEF Inc
  <2>2. \A b \in Bucket : counted.observations[b] =
          IF b \in StepsOf(p) THEN Inc(t.observations[b], 1) ELSE t.observations[b]
    BY TraceCounts
  <2>3. \A b \in Bucket : counted.observations[b] = n(b)
    <3> SUFFICES ASSUME NEW b \in Bucket PROVE counted.observations[b] = n(b)
      OBVIOUS
    <3>1. t.observations[b] \in Nat
      BY <1>1
    <3> HIDE DEF counted
    <3> QED
      BY <3>1, <2>1, <2>2
  <2> QED
    BY <2>3, TraceCounts
<1> HIDE DEF counted, n
<1>4. /\ stepped \in BayesCovertree /\ stepped.observations = counted.observations
      /\ stepped.overallTotal = counted.overallTotal
      /\ stepped.queue = t.queue /\ stepped.window = t.window
  <2>1. counted.count + 1 \in Nat
    BY <1>2 DEF BayesCovertree
  <2> DEFINE c == counted.count + 1
  <2>2. stepped = [counted EXCEPT !.count = c]
    OBVIOUS
  <2> HIDE DEF c, stepped
  <2>3. c \in Nat
    BY <2>1 DEF c
  <2> QED
    BY <2>2, <2>3, <1>2, <1>3 DEF BayesCovertree
<1>5. queue \in Seq(Paths) /\ Len(queue) = Len(t.queue) + 1 /\ Head(queue) \in Paths
      /\ Tail(queue) \in Seq(Paths)
  <2>1. queue \in Seq(Paths) /\ Len(queue) = Len(t.queue) + 1 /\ Len(t.queue) \in Nat
    BY <1>1
  <2> HIDE DEF queue
  <2> QED
    BY <2>1
<1> HIDE DEF stepped, queue
<1>6. /\ shorter \in BayesCovertree /\ shorter.observations = counted.observations
      /\ shorter.overallTotal = counted.overallTotal
      /\ shorter.queue = Tail(queue) /\ shorter.window = t.window
  BY <1>4, <1>5 DEF BayesCovertree
<1>7. /\ [stepped EXCEPT !.queue = queue] \in BayesCovertree
      /\ [stepped EXCEPT !.queue = queue].observations = counted.observations
      /\ [stepped EXCEPT !.queue = queue].overallTotal = counted.overallTotal
      /\ [stepped EXCEPT !.queue = queue].queue = queue
      /\ [stepped EXCEPT !.queue = queue].window = t.window
  BY <1>4, <1>5 DEF BayesCovertree
<1>8. AddPath(t, p) = IF t.window = 0 THEN stepped
                      ELSE IF Len(queue) > t.window THEN Trace(shorter, Head(queue), -1)
                      ELSE [stepped EXCEPT !.queue = queue]
  BY DEF AddPath, stepped, queue, counted
<1> HIDE DEF shorter
<1>9. CASE t.window # 0 /\ Len(t.queue) + 1 > t.window
  <2> DEFINE u == Trace(shorter, Head(queue), -1)
  <2>1. AddPath(t, p) = u
    BY <1>8, <1>9, <1>5
  <2>2. u \in BayesCovertree
    BY <1>5, <1>6, TraceType
  <2>3. /\ \A b \in Bucket : u.observations[b] =
             IF b \in StepsOf(Head(queue)) THEN Inc(counted.observations[b], -1)
                                           ELSE counted.observations[b]
        /\ u.overallTotal = counted.overallTotal + (-1)
        /\ u.queue = Tail(queue) /\ u.window = t.window
    BY <1>5, <1>6, TraceCounts
  <2> HIDE DEF u
  <2>4. u.overallTotal = t.overallTotal
    BY <2>3, <1>3, <1>1
  <2>5. \A b \in Bucket : u.observations[b] =
             IF b \in StepsOf(Head(queue)) THEN Inc(n(b), -1) ELSE n(b)
    BY <2>3, <1>3
  <2> QED
    BY <2>1, <2>2, <2>3, <2>4, <2>5, <1>5, <1>9 DEF queue, n
<1>10. CASE ~(t.window # 0 /\ Len(t.queue) + 1 > t.window)
  <2>1. AddPath(t, p) = IF t.window = 0 THEN stepped ELSE [stepped EXCEPT !.queue = queue]
    BY <1>8, <1>10, <1>5
  <2> QED
    BY <2>1, <1>3, <1>4, <1>7, <1>10 DEF queue, n
<1> QED
  BY <1>9, <1>10

(* What add_path does to the counts is one trace, or, if a path leaves the *)
(* window, one trace and another one back.                                 *)
LEMMA AddPathTraces ==
  ASSUME NEW t \in BayesCovertree, NEW p \in Paths
  PROVE  LET full == t.window # 0 /\ Len(t.queue) + 1 > t.window
             counted == Trace(t, p, 1)
             u == AddPath(t, p)
             v == Trace(counted, Head(Append(t.queue, p)), -1)
         IN  /\ ~full => /\ u.observations = counted.observations /\ u.total = counted.total
                         /\ u.overall = counted.overall /\ u.overallTotal = counted.overallTotal
             /\ full => /\ u.observations = v.observations /\ u.total = v.total
                        /\ u.overall = v.overall /\ u.overallTotal = v.overallTotal
<1> DEFINE counted == Trace(t, p, 1)
           stepped == [counted EXCEPT !.count = @ + 1]
           queue == Append(t.queue, p)
           shorter == [stepped EXCEPT !.queue = Tail(queue)]
<1>1. counted \in BayesCovertree
  BY TraceType
<1>2. AddPath(t, p) = IF t.window = 0 THEN stepped
                      ELSE IF Len(queue) > t.window THEN Trace(shorter, Head(queue), -1)
                      ELSE [stepped EXCEPT !.queue = queue]
  <2>1. counted.window = t.window /\ counted.queue = t.queue
    BY TraceCounts
  <2> QED
    BY <2>1 DEF AddPath
<1>3. Len(queue) = Len(t.queue) + 1
  BY DEF BayesCovertree
<1> HIDE DEF counted, queue
<1>4. /\ shorter.observations = counted.observations /\ shorter.total = counted.total
      /\ shorter.overall = counted.overall /\ shorter.overallTotal = counted.overallTotal
      /\ shorter = [counted EXCEPT !.count = counted.count + 1, !.queue = Tail(queue)]
  BY <1>1 DEF BayesCovertree
<1>5. \A x : /\ [stepped EXCEPT !.queue = x].observations = counted.observations
             /\ [stepped EXCEPT !.queue = x].total = counted.total
             /\ [stepped EXCEPT !.queue = x].overall = counted.overall
             /\ [stepped EXCEPT !.queue = x].overallTotal = counted.overallTotal
  BY <1>1 DEF BayesCovertree
<1>6. /\ stepped.observations = counted.observations /\ stepped.total = counted.total
      /\ stepped.overall = counted.overall /\ stepped.overallTotal = counted.overallTotal
  BY <1>1 DEF BayesCovertree
<1>8. DOMAIN shorter = DOMAIN counted
  BY <1>1 DEF BayesCovertree
<1> HIDE DEF shorter
<1> DEFINE x == Head(queue)
           v == Trace(counted, x, -1)
           w == Trace(shorter, x, -1)
<1> HIDE DEF x
<1>7. /\ w.observations = v.observations /\ w.total = v.total
      /\ w.overall = v.overall /\ w.overallTotal = v.overallTotal
  BY <1>1, <1>4, <1>8 DEF Trace, BayesCovertree
<1> HIDE DEF v, w, stepped
<1>9. CASE t.window # 0 /\ Len(t.queue) + 1 > t.window
  BY <1>2, <1>3, <1>7, <1>9 DEF v, w, x, counted, queue
<1>10. CASE ~(t.window # 0 /\ Len(t.queue) + 1 > t.window)
  BY <1>2, <1>3, <1>5, <1>6, <1>10 DEF counted, queue
<1> QED
  BY <1>9, <1>10

(* The number of paths that have left the window. *)
Gone == IF tracker.window = 0 THEN 0 ELSE Len(added) - Len(tracker.queue)

(* Of a sequence of paths, the positions after the first lo. *)
After(s, lo) == {k \in 1..Len(s) : k > lo}
Passing(s, b, lo) == {k \in After(s, lo) : b \in StepsOf(s[k])}

(* The queue is the end of the history, as long as the window allows. *)
QueueIsEnd ==
  ~cloned =>
    /\ tracker.window = 0 => tracker.queue = <<>>
    /\ Len(tracker.queue) <= Len(added)
    /\ tracker.window # 0 =>
         /\ Len(tracker.queue) <= tracker.window
         /\ Len(tracker.queue) < tracker.window => Len(tracker.queue) = Len(added)
         /\ \A j \in 1..Len(tracker.queue) :
              tracker.queue[j] = added[Len(added) - Len(tracker.queue) + j]

CountsAreOfTheQueue ==
  ~cloned =>
    /\ \A b \in Bucket : tracker.observations[b] = Cardinality(Passing(added, b, Gone))
    /\ tracker.overallTotal = Cardinality(After(added, Gone))

IInv == TypeOK /\ QueueIsEnd /\ CountsAreOfTheQueue

-----------------------------------------------------------------------------
(* How the sets of positions change when a path comes and when one goes.   *)

LEMMA PassingIsFinite ==
  ASSUME NEW s \in Seq(Paths), NEW b, NEW lo \in Nat
  PROVE  /\ IsFiniteSet(After(s, lo)) /\ Cardinality(After(s, lo)) \in Nat
         /\ IsFiniteSet(Passing(s, b, lo)) /\ Cardinality(Passing(s, b, lo)) \in Nat
<1>1. IsFiniteSet(1..Len(s))
  BY FS_Interval
<1>2. After(s, lo) \in SUBSET (1..Len(s)) /\ Passing(s, b, lo) \in SUBSET (1..Len(s))
  BY DEF After, Passing
<1>3. IsFiniteSet(After(s, lo)) /\ IsFiniteSet(Passing(s, b, lo))
  BY <1>1, <1>2, FS_Subset
<1> QED
  BY <1>3, FS_CardinalityType

LEMMA PassingAfterAppend ==
  ASSUME NEW s \in Seq(Paths), NEW p \in Paths, NEW b, NEW lo \in Nat, lo <= Len(s)
  PROVE  /\ Cardinality(After(Append(s, p), lo)) = Cardinality(After(s, lo)) + 1
         /\ Cardinality(Passing(Append(s, p), b, lo)) =
              Cardinality(Passing(s, b, lo)) + (IF b \in StepsOf(p) THEN 1 ELSE 0)
<1> DEFINE n == Len(s) + 1
<1>1. /\ Len(Append(s, p)) = n /\ Append(s, p)[n] = p
      /\ \A k \in 1..Len(s) : Append(s, p)[k] = s[k]
  OBVIOUS
<1>2. n \notin After(s, lo) /\ n \notin Passing(s, b, lo)
  BY DEF After, Passing
<1>3. After(Append(s, p), lo) = After(s, lo) \cup {n}
  BY <1>1 DEF After
<1>6. Cardinality(After(Append(s, p), lo)) = Cardinality(After(s, lo)) + 1
  BY <1>2, <1>3, PassingIsFinite, FS_AddElement
<1>4. CASE b \in StepsOf(p)
  <2>1. Passing(Append(s, p), b, lo) = Passing(s, b, lo) \cup {n}
    BY <1>1, <1>3, <1>4 DEF Passing, After
  <2>2. Cardinality(Passing(s, b, lo) \cup {n}) = Cardinality(Passing(s, b, lo)) + 1
    BY <1>2, PassingIsFinite, FS_AddElement
  <2> QED
    BY <2>1, <2>2, <1>4, <1>6
<1>5. CASE b \notin StepsOf(p)
  <2>1. Passing(Append(s, p), b, lo) = Passing(s, b, lo)
    BY <1>1, <1>3, <1>5 DEF Passing, After
  <2> QED
    BY <2>1, <1>5, <1>6, PassingIsFinite
<1> QED
  BY <1>4, <1>5

LEMMA PassingWithoutOldest ==
  ASSUME NEW s \in Seq(Paths), NEW b, NEW lo \in Nat, lo < Len(s)
  PROVE  /\ Cardinality(After(s, lo + 1)) = Cardinality(After(s, lo)) - 1
         /\ Cardinality(Passing(s, b, lo + 1)) =
              Cardinality(Passing(s, b, lo)) - (IF b \in StepsOf(s[lo + 1]) THEN 1 ELSE 0)
         /\ b \in StepsOf(s[lo + 1]) => Cardinality(Passing(s, b, lo)) >= 1
<1> DEFINE o == lo + 1
<1>1. o \in 1..Len(s) /\ o \in After(s, lo) /\ After(s, lo + 1) = After(s, lo) \ {o}
  BY DEF After
<1>2. Passing(s, b, lo + 1) = Passing(s, b, lo) \ {o}
  BY <1>1 DEF Passing
<1>3. o \in Passing(s, b, lo) <=> b \in StepsOf(s[o])
  BY <1>1 DEF Passing
<1>4. Cardinality(Passing(s, b, lo + 1)) \in Nat /\ Cardinality(Passing(s, b, lo)) \in Nat
  BY PassingIsFinite
<1>5. Cardinality(After(s, lo + 1)) = Cardinality(After(s, lo)) - 1
  BY <1>1, PassingIsFinite, FS_RemoveElement
<1>6. Cardinality(Passing(s, b, lo + 1)) =
        Cardinality(Passing(s, b, lo)) - (IF b \in StepsOf(s[o]) THEN 1 ELSE 0)
  <2>1. Cardinality(Passing(s, b, lo) \ {o}) =
          IF o \in Passing(s, b, lo) THEN Cardinality(Passing(s, b, lo)) - 1
                                     ELSE Cardinality(Passing(s, b, lo))
    BY PassingIsFinite, FS_RemoveElement
  <2>2. CASE b \in StepsOf(s[o])
    BY <2>1, <2>2, <1>2, <1>3
  <2>3. CASE b \notin StepsOf(s[o])
    <3>1. Passing(s, b, lo + 1) = Passing(s, b, lo)
      BY <2>3, <1>2, <1>3
    <3> QED
      BY <3>1, <2>3, <1>4
  <2> QED
    BY <2>2, <2>3
<1> QED
  BY <1>4, <1>5, <1>6

-----------------------------------------------------------------------------
(* The invariant. *)

LEMMA InitIInv == Init => IInv
<1> SUFFICES ASSUME Init PROVE IInv
  OBVIOUS
<1>1. PICK w \in Windows : tracker = NewTracker(w)
  BY DEF Init
<1>2. w \in Nat /\ added = <<>> /\ cloned = FALSE
  BY <1>1, WindowsAssumption DEF Init
<1>3. /\ tracker.queue = <<>> /\ tracker.window = w /\ tracker.overallTotal = 0
      /\ \A b \in Bucket : tracker.observations[b] = 0
  BY <1>1 DEF NewTracker
<1>4. tracker \in BayesCovertree
  BY <1>1, <1>2 DEF NewTracker, BayesCovertree
<1>5. TypeOK
  <2>a. <<>> \in Seq(Paths)
    OBVIOUS
  <2>1. added \in Seq(Paths) /\ cloned \in BOOLEAN
    BY <2>a, <1>2, Zenon
  <2>2. Len(tracker.queue) = 0
    BY <1>3
  <2>3. tracker.window \in Nat
    BY <1>2, <1>3
  <2> QED
    BY <2>1, <2>2, <2>3, <1>4 DEF TypeOK
<1>6. QueueIsEnd
  BY <1>2, <1>3 DEF QueueIsEnd
<1>7. \A b \in Bucket : Passing(added, b, Gone) = {} /\ After(added, Gone) = {}
  BY <1>2 DEF Passing, After
<1>8. CountsAreOfTheQueue
  <2>1. After(added, Gone) = {}
    BY <1>2 DEF After
  <2> QED
    BY <2>1, <1>3, <1>7, FS_EmptySet DEF CountsAreOfTheQueue
<1> QED
  BY <1>5, <1>6, <1>8 DEF IInv

LEMMA AddIInv ==
  ASSUME IInv, NEW p \in Paths, Add(p)
  PROVE  IInv'
<1> DEFINE full == tracker.window # 0 /\ Len(tracker.queue) + 1 > tracker.window
           oldest == Head(Append(tracker.queue, p))
           n(b) == tracker.observations[b] + (IF b \in StepsOf(p) THEN 1 ELSE 0)
<1>1. /\ tracker' = AddPath(tracker, p) /\ added' = Append(added, p) /\ cloned' = cloned
      /\ tracker \in BayesCovertree /\ added \in Seq(Paths) /\ cloned \in BOOLEAN
  BY DEF Add, IInv, TypeOK
<1>2. /\ tracker.queue \in Seq(Paths) /\ tracker.window \in Nat /\ tracker.overallTotal \in Int
      /\ \A b \in Bucket : tracker.observations[b] \in Nat
      /\ Len(tracker.queue) \in Nat
  BY <1>1 DEF BayesCovertree
<1>3. /\ tracker' \in BayesCovertree /\ tracker'.window = tracker.window
      /\ ~full =>
           /\ \A b \in Bucket : tracker'.observations[b] = n(b)
           /\ tracker'.overallTotal = tracker.overallTotal + 1
           /\ tracker'.queue = IF tracker.window = 0 THEN tracker.queue
                                                     ELSE Append(tracker.queue, p)
      /\ full =>
           /\ oldest \in Paths
           /\ \A b \in Bucket :
                tracker'.observations[b] = IF b \in StepsOf(oldest) THEN Inc(n(b), -1) ELSE n(b)
           /\ tracker'.overallTotal = tracker.overallTotal
           /\ tracker'.queue = Tail(Append(tracker.queue, p))
  BY <1>1, AddPathResult
<1>4. added' \in Seq(Paths) /\ Len(added') = Len(added) + 1 /\ Len(added) \in Nat
      /\ added'[Len(added) + 1] = p /\ \A k \in 1..Len(added) : added'[k] = added[k]
  BY <1>1
<1>a. full <=> tracker.window # 0 /\ Len(tracker.queue) + 1 > tracker.window
  OBVIOUS
<1>b. oldest = Append(tracker.queue, p)[1]
  BY <1>2
<1> HIDE DEF full, oldest
<1>5. CASE cloned
  BY <1>1, <1>3, <1>4, <1>5 DEF IInv, TypeOK, QueueIsEnd, CountsAreOfTheQueue
<1>6. CASE ~cloned
  <2>1. /\ tracker.window = 0 => tracker.queue = <<>>
        /\ Len(tracker.queue) <= Len(added)
        /\ tracker.window # 0 =>
             /\ Len(tracker.queue) <= tracker.window
             /\ Len(tracker.queue) < tracker.window => Len(tracker.queue) = Len(added)
             /\ \A j \in 1..Len(tracker.queue) :
                  tracker.queue[j] = added[Len(added) - Len(tracker.queue) + j]
        /\ \A b \in Bucket : tracker.observations[b] = Cardinality(Passing(added, b, Gone))
        /\ tracker.overallTotal = Cardinality(After(added, Gone))
    BY <1>6 DEF IInv, QueueIsEnd, CountsAreOfTheQueue
  <2>a. /\ Len(tracker.queue) <= Len(added)
        /\ tracker.window # 0 =>
             /\ Len(tracker.queue) <= tracker.window
             /\ Len(tracker.queue) < tracker.window => Len(tracker.queue) = Len(added)
    BY <2>1
  <2>b. Len(tracker.queue) \in Nat /\ tracker.window \in Nat /\ Len(added) \in Nat
        /\ Len(added') = Len(added) + 1
    BY <1>2, <1>4
  <2>2. Gone \in Nat /\ Gone <= Len(added)
    BY <2>1, <1>2, <1>4 DEF Gone
  <2>3. /\ Cardinality(After(added', Gone)) = tracker.overallTotal + 1
        /\ \A b \in Bucket : Cardinality(Passing(added', b, Gone)) = n(b)
    <3>1. Cardinality(After(added', Gone)) = Cardinality(After(added, Gone)) + 1
      BY <2>2, <1>1, PassingAfterAppend
    <3>2. \A b \in Bucket : Cardinality(Passing(added', b, Gone)) =
            Cardinality(Passing(added, b, Gone)) + (IF b \in StepsOf(p) THEN 1 ELSE 0)
      BY <2>2, <1>1, PassingAfterAppend
    <3> QED
      BY <3>1, <3>2, <2>1
  <2>4. CASE ~full
    <3>1. Gone' = Gone
      <4>1. CASE tracker.window = 0
        BY <4>1, <1>3 DEF Gone
      <4>2. CASE tracker.window # 0
        <5>1. tracker'.queue = Append(tracker.queue, p)
          BY <4>2, <2>4, <1>3
        <5>2. Len(tracker'.queue) = Len(tracker.queue) + 1
          BY <5>1, <1>2
        <5> QED
          BY <4>2, <5>2, <1>2, <1>3, <1>4 DEF Gone
      <4> QED
        BY <4>1, <4>2
    <3>2. CountsAreOfTheQueue'
      BY <3>1, <2>3, <2>4, <1>3, <1>1 DEF CountsAreOfTheQueue
    <3>3. CASE tracker.window = 0
      BY <3>2, <3>3, <2>1, <2>4, <1>1, <1>3, <1>4 DEF IInv, TypeOK, QueueIsEnd
    <3>4. CASE tracker.window # 0
      <4>1. tracker'.queue = Append(tracker.queue, p) /\ Len(tracker'.queue) = Len(tracker.queue) + 1
        BY <3>4, <2>4, <1>2, <1>3, <1>a
      <4>2. Len(tracker.queue) < tracker.window /\ Len(tracker.queue) = Len(added)
        BY <3>4, <2>1, <2>4, <1>2, <1>a
      <4>3. \A j \in 1..Len(tracker'.queue) :
              tracker'.queue[j] = added'[Len(added') - Len(tracker'.queue) + j]
        <5> SUFFICES ASSUME NEW j \in 1..Len(tracker'.queue) PROVE tracker'.queue[j] = added'[j]
          BY <4>1, <4>2, <1>4
        <5> QED
          BY <4>1, <4>2, <3>4, <2>1, <1>2, <1>4
      <4> QED
        BY <4>1, <4>2, <4>3, <3>2, <3>4, <1>1, <1>2, <1>3, <1>4 DEF IInv, TypeOK, QueueIsEnd
    <3> QED
      BY <3>3, <3>4
  <2>5. CASE full
    <3>1. /\ Len(tracker.queue) = tracker.window /\ tracker.window >= 1
          /\ Gone + 1 <= Len(added) /\ Gone = Len(added) - tracker.window
      <4>1. Len(tracker.queue) = tracker.window /\ tracker.window >= 1
        BY <2>a, <2>b, <2>5, <1>a
      <4> QED
        BY <4>1, <2>a, <2>b DEF Gone
    <3>2. oldest = added[Gone + 1] /\ oldest = added'[Gone + 1]
      <4>1. oldest = tracker.queue[1]
        BY <3>1, <1>b, <1>2
      <4>2. tracker.queue[1] = added[Len(added) - Len(tracker.queue) + 1]
        BY <3>1, <2>1, <1>2
      <4>3. Len(added) - Len(tracker.queue) = Gone /\ Gone + 1 \in 1..Len(added)
        BY <3>1, <2>2, <1>2, <1>4
      <4> QED
        BY <4>1, <4>2, <4>3, <1>4
    <3>3. /\ tracker'.queue = Tail(Append(tracker.queue, p))
          /\ Len(tracker'.queue) = Len(tracker.queue)
          /\ \A j \in 1..Len(tracker'.queue) : tracker'.queue[j] = Append(tracker.queue, p)[j + 1]
      <4>1. tracker'.queue = Tail(Append(tracker.queue, p))
        BY <2>5, <1>3
      <4> DEFINE q == Append(tracker.queue, p)
      <4>2. q \in Seq(Paths) /\ Len(q) = Len(tracker.queue) + 1
        BY <1>2
      <4> HIDE DEF q
      <4>3. Len(Tail(q)) = Len(q) - 1 /\ \A j \in 1..Len(Tail(q)) : Tail(q)[j] = q[j + 1]
        BY <4>2, <1>2
      <4> QED
        BY <4>1, <4>2, <4>3, <1>2 DEF q
    <3>4. Gone' = Gone + 1
      <4>1. tracker'.window # 0 /\ tracker.window # 0
        BY <3>1, <1>2, <1>3
      <4> QED
        <5>1. Gone' = Len(added') - Len(tracker'.queue)
          BY <4>1 DEF Gone
        <5> QED
          <6>1. Len(tracker'.queue) = tracker.window
            BY <3>1, <3>3
          <6>2. Gone = Len(added) - tracker.window
            BY <3>1
          <6>3. Len(added') = Len(added) + 1 /\ tracker.window \in Nat /\ Len(added) \in Nat
            BY <1>4, <2>b
          <6> QED
            BY <5>1, <6>1, <6>2, <6>3
    <3>5. /\ Cardinality(After(added', Gone + 1)) = tracker.overallTotal
          /\ \A b \in Bucket :
               /\ Cardinality(Passing(added', b, Gone + 1)) =
                    n(b) - (IF b \in StepsOf(oldest) THEN 1 ELSE 0)
               /\ b \in StepsOf(oldest) => n(b) >= 1
      <4>1. Gone < Len(added')
        BY <3>1, <2>2, <1>4
      <4> QED
        <5>1. /\ Cardinality(After(added', Gone + 1)) = Cardinality(After(added', Gone)) - 1
              /\ \A b \in Bucket :
                   /\ Cardinality(Passing(added', b, Gone + 1)) =
                        Cardinality(Passing(added', b, Gone))
                          - (IF b \in StepsOf(added'[Gone + 1]) THEN 1 ELSE 0)
                   /\ b \in StepsOf(added'[Gone + 1]) => Cardinality(Passing(added', b, Gone)) >= 1
          BY <4>1, <2>2, <1>4, PassingWithoutOldest
        <5> HIDE DEF n
        <5> QED
          BY <5>1, <3>2, <2>3, <1>2
    <3>6. \A b \in Bucket : tracker'.observations[b] = Cardinality(Passing(added', b, Gone'))
      <4> SUFFICES ASSUME NEW b \in Bucket
                   PROVE  tracker'.observations[b] = Cardinality(Passing(added', b, Gone + 1))
        BY <3>4
      <4>1. n(b) \in Nat
        BY <1>2
      <4>2. b \in StepsOf(oldest) => Inc(n(b), -1) = n(b) - 1
        BY <4>1, <3>5 DEF Inc
      <4> HIDE DEF n, oldest
      <4> QED
        BY <4>1, <4>2, <3>5, <2>5, <1>3
    <3>7. CountsAreOfTheQueue'
      BY <3>4, <3>5, <3>6, <2>5, <1>3 DEF CountsAreOfTheQueue
    <3>8. \A j \in 1..Len(tracker'.queue) :
            tracker'.queue[j] = added'[Len(added') - Len(tracker'.queue) + j]
      <4> SUFFICES ASSUME NEW j \in 1..Len(tracker.queue)
                   PROVE  Append(tracker.queue, p)[j + 1] = added'[Len(added') - Len(tracker.queue) + j]
        BY <3>3
      <4>0. j \in Nat /\ j <= Len(tracker.queue)
        BY <1>2
      <4>1. CASE j = Len(tracker.queue)
        BY <4>1, <1>2, <1>4
      <4>2. CASE j < Len(tracker.queue)
        <5>1. Append(tracker.queue, p)[j + 1] = tracker.queue[j + 1]
          BY <4>2, <1>2
        <5>2. tracker.queue[j + 1] = added[Len(added) - Len(tracker.queue) + (j + 1)]
          <6>1. j + 1 \in 1..Len(tracker.queue) /\ tracker.window # 0
            BY <4>2, <3>1, <1>2
          <6> QED
            BY <6>1, <2>1
        <5>3. /\ Len(added) - Len(tracker.queue) + (j + 1) \in 1..Len(added)
              /\ Len(added) - Len(tracker.queue) + (j + 1) = Len(added') - Len(tracker.queue) + j
          <6> DEFINE m == Len(tracker.queue)
                     l == Len(added)
          <6>1. m \in Nat /\ l \in Nat /\ m <= l /\ j \in 1..m /\ j < m /\ Len(added') = l + 1
            BY <4>2, <2>1, <1>2, <1>4
          <6> HIDE DEF m, l
          <6>2. l - m + (j + 1) \in 1..l /\ l - m + (j + 1) = (l + 1) - m + j
            BY <6>1
          <6> QED
            BY <6>1, <6>2 DEF m, l
        <5> QED
          BY <5>1, <5>2, <5>3, <1>4
      <4> QED
        <5>1. j = Len(tracker.queue) \/ j < Len(tracker.queue)
          BY <4>0, <2>b
        <5> QED
          BY <4>1, <4>2, <5>1
    <3> QED
      <4>1. Len(tracker'.queue) = tracker'.window /\ Len(tracker'.queue) <= Len(added')
        <5>1. tracker'.window = tracker.window
          BY <1>3
        <5> QED
          BY <5>1, <3>1, <3>3, <2>a, <2>b
      <4>2. tracker'.window # 0
        BY <3>1, <1>2, <1>3
      <4>3. QueueIsEnd'
        BY <4>1, <4>2, <3>8, <1>3 DEF QueueIsEnd
      <4>4. TypeOK'
        BY <4>1, <1>1, <1>3, <1>4 DEF TypeOK
      <4> QED
        BY <4>3, <4>4, <3>7 DEF IInv
  <2> QED
    BY <2>4, <2>5
<1> QED
  BY <1>5, <1>6, <1>1

LEMMA NextIInv == IInv /\ [Next]_vars => IInv'
<1> SUFFICES ASSUME IInv, [Next]_vars PROVE IInv'
  OBVIOUS
<1>1. ASSUME NEW p \in Paths, Add(p) PROVE IInv'
  BY <1>1, AddIInv
<1>2. ASSUME NEW w \in NewWindows, NewWindow(w) PROVE IInv'
  <2>1. tracker' = [tracker EXCEPT !.window = w] /\ added' = added /\ cloned' = TRUE /\ w \in Nat
    BY <1>2, WindowsAssumption DEF NewWindow, CloneNewWindow
  <2>2. tracker' \in BayesCovertree
    BY <2>1 DEF IInv, TypeOK, BayesCovertree
  <2> QED
    BY <2>1, <2>2 DEF IInv, TypeOK, QueueIsEnd, CountsAreOfTheQueue
<1>3. CASE UNCHANGED vars
  BY <1>3 DEF vars, IInv, TypeOK, QueueIsEnd, CountsAreOfTheQueue, Gone
<1> QED
  BY <1>1, <1>2, <1>3 DEF Next

LEMMA IInvImpliesPosterior == IInv => PosteriorIsWindow
<1> SUFFICES ASSUME IInv, ~cloned PROVE
      /\ \A b \in Bucket : tracker.observations[b] =
           Cardinality({k \in DOMAIN added : InWindow(k) /\ b \in StepsOf(added[k])})
      /\ tracker.overallTotal = Cardinality({k \in DOMAIN added : InWindow(k)})
  BY DEF PosteriorIsWindow
<1>1. /\ tracker.queue \in Seq(Paths) /\ tracker.window \in Nat /\ added \in Seq(Paths)
  BY DEF IInv, TypeOK, BayesCovertree
<1>2. DOMAIN added = 1..Len(added) /\ Len(added) \in Nat
  BY <1>1
<1>3. \A k \in 1..Len(added) : InWindow(k) <=> k > Gone
  <2>1. /\ Len(tracker.queue) \in Nat /\ Len(tracker.queue) <= Len(added)
        /\ tracker.window # 0 =>
             /\ Len(tracker.queue) <= tracker.window
             /\ Len(tracker.queue) < tracker.window => Len(tracker.queue) = Len(added)
    <3>1. QueueIsEnd
      BY DEF IInv
    <3>2. Len(tracker.queue) \in Nat
      BY <1>1
    <3> QED
      BY <3>1, <3>2 DEF QueueIsEnd
  <2> QED
    BY <2>1, <1>1, <1>2 DEF InWindow, Gone
<1>4. {k \in DOMAIN added : InWindow(k)} = After(added, Gone)
  BY <1>2, <1>3 DEF After
<1>5. \A b \in Bucket :
        {k \in DOMAIN added : InWindow(k) /\ b \in StepsOf(added[k])} = Passing(added, b, Gone)
  BY <1>2, <1>3 DEF After, Passing
<1> QED
  BY <1>4, <1>5 DEF IInv, CountsAreOfTheQueue

-----------------------------------------------------------------------------
(* The flow of paths through the nodes, for any tracker.                   *)

Out(n) == {n} \X (TreeNode \cup {Singleton})
Into(n) == TreeNode \X {n}
OnPath(p, n) == \E j \in 1..Len(p) : p[j] = n

FlowOf(t) ==
  \A n \in TreeNode :
    /\ SumFunctionOnSet(t.observations, Out(n)) = t.total[n]
    /\ IF n = TreeRoot THEN t.overallTotal = t.total[n]
       ELSE SumFunctionOnSet(t.observations, Into(n)) = t.total[n]
    /\ t.overall[n] = t.observations[<<n, Singleton>>]

LEMMA PathSteps ==
  ASSUME NEW p \in Paths
  PROVE  /\ Len(p) \in Nat /\ Len(p) >= 1 /\ p[1] = TreeRoot
         /\ \A j \in 1..Len(p) : p[j] \in TreeNode
         /\ \A j, k \in 1..Len(p) : p[j] = p[k] => j = k
         /\ StepsOf(p) \subseteq Bucket
         /\ Singleton \notin TreeNode
<1>1. /\ p \in Seq(TreeNode) /\ Len(p) >= 1 /\ p[1] = TreeRoot /\ Singleton \notin TreeNode
      /\ \A j, k \in 1..Len(p) : p[j] = p[k] => j = k
  BY PathsAssumption
<1>2. Len(p) \in Nat /\ \A j \in 1..Len(p) : p[j] \in TreeNode
  BY <1>1
<1>3. StepsOf(p) \subseteq Bucket
  <2> SUFFICES ASSUME NEW j \in 1..Len(p)
               PROVE  <<p[j], IF j < Len(p) THEN p[j+1] ELSE Singleton>> \in Bucket
    BY DEF StepsOf
  <2>1. j < Len(p) => j + 1 \in 1..Len(p)
    BY <1>2
  <2> QED
    BY <2>1, <1>2 DEF Bucket
<1> QED
  BY <1>1, <1>2, <1>3

(* A path leaves each of its nodes once, and enters each but the root once.*)
LEMMA StepsOut ==
  ASSUME NEW p \in Paths, NEW n \in TreeNode
  PROVE  /\ OnPath(p, n) => \E b \in StepsOf(p) : StepsOf(p) \cap Out(n) = {b}
         /\ ~OnPath(p, n) => StepsOf(p) \cap Out(n) = {}
<1> DEFINE step(j) == <<p[j], IF j < Len(p) THEN p[j+1] ELSE Singleton>>
<1>1. StepsOf(p) = {step(j) : j \in 1..Len(p)} /\ \A j : step(j)[1] = p[j]
  BY DEF StepsOf
<1>2. \A b \in Bucket : b \in Out(n) <=> b[1] = n
  BY DEF Bucket, Out
<1>3. \A j \in 1..Len(p) : step(j) \in StepsOf(p) /\ step(j) \in Bucket
  BY <1>1, PathSteps
<1> HIDE DEF step
<1>4. \A j \in 1..Len(p) : step(j) \in Out(n) <=> p[j] = n
  BY <1>1, <1>2, <1>3
<1>5. CASE OnPath(p, n)
  <2>1. PICK j \in 1..Len(p) : p[j] = n
    BY <1>5 DEF OnPath
  <2>2. \A b \in StepsOf(p) : b \in Out(n) => b = step(j)
    BY <2>1, <1>1, <1>4, PathSteps
  <2>3. StepsOf(p) \cap Out(n) = {step(j)}
    BY <2>1, <2>2, <1>3, <1>4
  <2> QED
    BY <2>1, <2>3, <1>3, <1>5
<1>6. CASE ~OnPath(p, n)
  BY <1>1, <1>4, <1>6 DEF OnPath
<1> QED
  BY <1>5, <1>6

LEMMA StepsInto ==
  ASSUME NEW p \in Paths, NEW n \in TreeNode, n # TreeRoot
  PROVE  /\ OnPath(p, n) => \E b \in StepsOf(p) : StepsOf(p) \cap Into(n) = {b}
         /\ ~OnPath(p, n) => StepsOf(p) \cap Into(n) = {}
<1> DEFINE step(j) == <<p[j], IF j < Len(p) THEN p[j+1] ELSE Singleton>>
<1>1. StepsOf(p) = {step(j) : j \in 1..Len(p)}
      /\ \A j : step(j)[2] = IF j < Len(p) THEN p[j+1] ELSE Singleton
  BY DEF StepsOf
<1>2. \A b \in Bucket : b \in Into(n) <=> b[2] = n
  BY DEF Bucket, Into
<1>3. \A j \in 1..Len(p) : step(j) \in StepsOf(p) /\ step(j) \in Bucket
  BY <1>1, PathSteps
<1> HIDE DEF step
<1>4. \A j \in 1..Len(p) : step(j) \in Into(n) <=> j < Len(p) /\ p[j + 1] = n
  BY <1>1, <1>2, <1>3, PathSteps
<1>5. CASE OnPath(p, n)
  <2>1. PICK i \in 1..Len(p) : p[i] = n
    BY <1>5 DEF OnPath
  <2>2. i - 1 \in 1..Len(p) /\ i - 1 < Len(p) /\ (i - 1) + 1 = i
    BY <2>1, PathSteps
  <2>3. \A j \in 1..Len(p) : j < Len(p) /\ p[j + 1] = n => j = i - 1
    <3> SUFFICES ASSUME NEW j \in 1..Len(p), j < Len(p), p[j + 1] = n PROVE j = i - 1
      OBVIOUS
    <3>1. j + 1 \in 1..Len(p)
      BY PathSteps
    <3>2. j + 1 = i
      BY <3>1, <2>1, PathSteps
    <3> QED
      BY <3>2
  <2>4. StepsOf(p) \cap Into(n) = {step(i - 1)}
    BY <2>1, <2>2, <2>3, <1>1, <1>3, <1>4
  <2> QED
    BY <2>2, <2>4, <1>3, <1>5
<1>6. CASE ~OnPath(p, n)
  <2>1. \A j \in 1..Len(p) : ~(j < Len(p) /\ p[j + 1] = n)
    <3> SUFFICES ASSUME NEW j \in 1..Len(p), j < Len(p), p[j + 1] = n PROVE FALSE
      OBVIOUS
    <3>1. j + 1 \in 1..Len(p)
      BY PathSteps
    <3> QED
      BY <3>1, <1>6 DEF OnPath
  <2> QED
    BY <2>1, <1>1, <1>4, <1>6
<1> QED
  BY <1>5, <1>6

(* A path ends at its last node.                                           *)
LEMMA EndOfPath ==
  ASSUME NEW p \in Paths, NEW n \in TreeNode
  PROVE  <<n, Singleton>> \in StepsOf(p) <=> n = p[Len(p)]
<1>1. \A j \in 1..Len(p) : j < Len(p) => p[j + 1] # Singleton
  <2> SUFFICES ASSUME NEW j \in 1..Len(p), j < Len(p) PROVE p[j + 1] # Singleton
    OBVIOUS
  <2>1. j + 1 \in 1..Len(p)
    BY PathSteps
  <2> QED
    BY <2>1, PathSteps
<1>2. Len(p) \in 1..Len(p) /\ \A j \in 1..Len(p) : j < Len(p) \/ j = Len(p)
  BY PathSteps
<1>3. <<n, Singleton>> \in StepsOf(p) <=>
        \E j \in 1..Len(p) : p[j] = n /\ Singleton = (IF j < Len(p) THEN p[j+1] ELSE Singleton)
  BY DEF StepsOf
<1> QED
  BY <1>1, <1>2, <1>3

LEMMA BucketSets ==
  ASSUME NEW n \in TreeNode
  PROVE  /\ IsFiniteSet(Out(n)) /\ Out(n) \subseteq Bucket
         /\ IsFiniteSet(Into(n)) /\ Into(n) \subseteq Bucket
<1>1. IsFiniteSet(TreeNode) /\ IsFiniteSet({n}) /\ IsFiniteSet(TreeNode \cup {Singleton})
  BY PathsAssumption, FS_Singleton, FS_AddElement
<1>2. IsFiniteSet({n} \X (TreeNode \cup {Singleton})) /\ IsFiniteSet(TreeNode \X {n})
  BY <1>1, FS_Product
<1> QED
  BY <1>2 DEF Out, Into, Bucket

(* How the sum over a set of buckets changes with a trace.                 *)
LEMMA SumTraced ==
  ASSUME NEW f \in [Bucket -> Int], NEW g \in [Bucket -> Int], NEW change \in Int,
         NEW steps,
         \A b \in Bucket : b \in steps => g[b] = f[b] + change,
         \A b \in Bucket : b \notin steps => g[b] = f[b],
         NEW S \in SUBSET Bucket, IsFiniteSet(S)
  PROVE  /\ steps \cap S = {} => SumFunctionOnSet(g, S) = SumFunctionOnSet(f, S)
         /\ (\E b \in steps : steps \cap S = {b})
              => SumFunctionOnSet(g, S) = SumFunctionOnSet(f, S) + change
<1>1. \A b \in S : f[b] \in Int /\ g[b] \in Int /\ (b \notin steps => g[b] = f[b])
  OBVIOUS
<1>2. CASE steps \cap S = {}
  <2>1. \A b \in S : g[b] = f[b]
    BY <1>1, <1>2
  <2> QED
    BY <2>1, <1>2, SumOfSame
<1>3. ASSUME NEW c \in steps, steps \cap S = {c}
      PROVE  SumFunctionOnSet(g, S) = SumFunctionOnSet(f, S) + change
  <2>1. c \in S /\ g[c] = f[c] + change /\ \A b \in S \ {c} : f[b] = g[b]
    BY <1>1, <1>3
  <2>2. SumFunctionOnSet(g, S) = SumFunctionOnSet(f, S) + g[c] - f[c]
    BY <2>1, <1>1, SumChanges
  <2>3. SumFunctionOnSet(f, S) \in Int
    BY <1>1, SumType
  <2> QED
    BY <2>1, <2>2, <2>3, <1>1
<1> QED
  BY <1>2, <1>3

(* A trace is counted in and out of every node it passes, and once overall;*)
(* taken back it needs to have been counted, for counts stay at zero.      *)
LEMMA TraceTotals ==
  ASSUME NEW t \in BayesCovertree, NEW p \in Paths, NEW change \in Int
  PROVE  /\ \A n \in TreeNode : Trace(t, p, change).total[n] =
              t.total[n] + (IF OnPath(p, n) THEN change ELSE 0)
         /\ \A n \in TreeNode : Trace(t, p, change).overall[n] =
              IF n = p[Len(p)] THEN Inc(t.overall[n], change) ELSE t.overall[n]
         /\ Trace(t, p, change).overallTotal = t.overallTotal + change
<1>1. \A n \in TreeNode : t.total[n] \in Int
  BY DEF BayesCovertree
<1>2. \A n \in TreeNode : Trace(t, p, change).total[n] =
        IF OnPath(p, n) THEN t.total[n] + change ELSE t.total[n]
  BY DEF Trace, OnPath, BayesCovertree
<1>3. \A n \in TreeNode : Trace(t, p, change).overall[n] =
        IF n = p[Len(p)] THEN Inc(t.overall[n], change) ELSE t.overall[n]
  BY DEF Trace, BayesCovertree
<1> QED
  BY <1>1, <1>2, <1>3, TraceCounts

LEMMA TraceKeepsFlow ==
  ASSUME NEW t \in BayesCovertree, NEW p \in Paths, NEW change \in {1, -1}, FlowOf(t),
         change = -1 => \A b \in StepsOf(p) : t.observations[b] >= 1
  PROVE  FlowOf(Trace(t, p, change))
<1> DEFINE u == Trace(t, p, change)
           f == t.observations
           g == u.observations
<1>1. t \in BayesCovertree /\ u \in BayesCovertree /\ change \in Int
  BY TraceType
<1>2. /\ f \in [Bucket -> Int] /\ g \in [Bucket -> Int] /\ \A b \in Bucket : f[b] \in Nat
      /\ t.total \in [TreeNode -> Int] /\ t.overall \in [TreeNode -> Nat] /\ t.overallTotal \in Int
  BY <1>1 DEF BayesCovertree
<1>3. /\ \A b \in Bucket : b \in StepsOf(p) => g[b] = f[b] + change
      /\ \A b \in Bucket : b \notin StepsOf(p) => g[b] = f[b]
  <2> SUFFICES ASSUME NEW b \in Bucket
               PROVE  /\ b \in StepsOf(p) => g[b] = f[b] + change
                      /\ b \notin StepsOf(p) => g[b] = f[b]
    OBVIOUS
  <2>1. g[b] = IF b \in StepsOf(p) THEN Inc(f[b], change) ELSE f[b]
    BY <1>1, TraceCounts
  <2>2. b \in StepsOf(p) => Inc(f[b], change) = f[b] + change
    BY <1>2 DEF Inc
  <2> HIDE DEF f, g, u
  <2> QED
    BY <2>1, <2>2, <1>2
<1>4. /\ \A n \in TreeNode : u.total[n] = t.total[n] + (IF OnPath(p, n) THEN change ELSE 0)
      /\ \A n \in TreeNode : u.overall[n] = IF n = p[Len(p)] THEN Inc(t.overall[n], change)
                                            ELSE t.overall[n]
      /\ u.overallTotal = t.overallTotal + change
  BY <1>1, TraceTotals
<1> HIDE DEF u
<1> SUFFICES ASSUME NEW n \in TreeNode
             PROVE  /\ SumFunctionOnSet(g, Out(n)) = u.total[n]
                    /\ IF n = TreeRoot THEN u.overallTotal = u.total[n]
                       ELSE SumFunctionOnSet(g, Into(n)) = u.total[n]
                    /\ u.overall[n] = g[<<n, Singleton>>]
  BY DEF FlowOf, u
<1>5. /\ SumFunctionOnSet(f, Out(n)) = t.total[n]
      /\ IF n = TreeRoot THEN t.overallTotal = t.total[n]
         ELSE SumFunctionOnSet(f, Into(n)) = t.total[n]
      /\ t.overall[n] = f[<<n, Singleton>>]
  BY DEF FlowOf
<1> HIDE DEF f, g
<1>6. SumFunctionOnSet(g, Out(n)) = u.total[n]
  <2>1. /\ StepsOf(p) \cap Out(n) = {} =>
             SumFunctionOnSet(g, Out(n)) = SumFunctionOnSet(f, Out(n))
        /\ (\E b \in StepsOf(p) : StepsOf(p) \cap Out(n) = {b}) =>
             SumFunctionOnSet(g, Out(n)) = SumFunctionOnSet(f, Out(n)) + change
    <3>1. Out(n) \in SUBSET Bucket /\ IsFiniteSet(Out(n))
      BY BucketSets
    <3> QED
      BY <3>1, <1>1, <1>2, <1>3, SumTraced
  <2>2. t.total[n] \in Int /\ u.total[n] = t.total[n] + (IF OnPath(p, n) THEN change ELSE 0)
    BY <1>2, <1>4
  <2>3. CASE OnPath(p, n)
    BY <2>1, <2>2, <2>3, <1>5, StepsOut
  <2>4. CASE ~OnPath(p, n)
    BY <2>1, <2>2, <2>4, <1>5, StepsOut
  <2> QED
    BY <2>3, <2>4
<1>7. IF n = TreeRoot THEN u.overallTotal = u.total[n]
      ELSE SumFunctionOnSet(g, Into(n)) = u.total[n]
  <2>1. CASE n = TreeRoot
    <3>1. OnPath(p, n)
      <4>1. 1 \in 1..Len(p) /\ p[1] = n
        BY <2>1, PathSteps
      <4> QED
        BY <4>1 DEF OnPath
    <3>2. u.total[n] = t.total[n] + change /\ u.overallTotal = t.overallTotal + change
      BY <3>1, <1>4
    <3>3. t.overallTotal = t.total[n]
      BY <2>1, <1>5
    <3> QED
      BY <2>1, <3>2, <3>3
  <2>2. CASE n # TreeRoot
    <3>1. /\ StepsOf(p) \cap Into(n) = {} =>
               SumFunctionOnSet(g, Into(n)) = SumFunctionOnSet(f, Into(n))
          /\ (\E b \in StepsOf(p) : StepsOf(p) \cap Into(n) = {b}) =>
               SumFunctionOnSet(g, Into(n)) = SumFunctionOnSet(f, Into(n)) + change
      <4>1. Into(n) \in SUBSET Bucket /\ IsFiniteSet(Into(n))
        BY BucketSets
      <4> QED
        BY <4>1, <1>1, <1>2, <1>3, SumTraced
    <3>2. t.total[n] \in Int /\ u.total[n] = t.total[n] + (IF OnPath(p, n) THEN change ELSE 0)
      BY <1>2, <1>4
    <3>3. SumFunctionOnSet(f, Into(n)) = t.total[n]
      BY <2>2, <1>5
    <3>4. CASE OnPath(p, n)
      BY <3>1, <3>2, <3>3, <3>4, <2>2, StepsInto
    <3>5. CASE ~OnPath(p, n)
      BY <3>1, <3>2, <3>3, <3>5, <2>2, StepsInto
    <3> QED
      BY <3>4, <3>5
  <2> QED
    BY <2>1, <2>2
<1>8. u.overall[n] = g[<<n, Singleton>>]
  <2>1. <<n, Singleton>> \in Bucket
    BY DEF Bucket
  <2>2. g[<<n, Singleton>>] = f[<<n, Singleton>>] + (IF n = p[Len(p)] THEN change ELSE 0)
    <3>1. f[<<n, Singleton>>] \in Nat
      BY <2>1, <1>2
    <3> QED
      BY <2>1, <3>1, <1>3, EndOfPath
  <2>3. n = p[Len(p)] => Inc(t.overall[n], change) = t.overall[n] + change
    <3>1. n = p[Len(p)] /\ change = -1 => f[<<n, Singleton>>] >= 1
      BY EndOfPath DEF f
    <3>2. t.overall[n] = f[<<n, Singleton>>] /\ f[<<n, Singleton>>] \in Nat
      BY <2>1, <1>2, <1>5
    <3> QED
      BY <3>1, <3>2 DEF Inc
  <2> QED
    BY <2>2, <2>3, <1>2, <1>4, <1>5
<1> QED
  BY <1>6, <1>7, <1>8

(* The paths of the queue are counted, whatever the windows were: they can *)
(* be taken back.                                                          *)
QueueIsCounted ==
  \A b \in Bucket : tracker.observations[b] >= Cardinality(Passing(tracker.queue, b, 0))

FlowInv == TypeOK /\ QueueIsCounted /\ FlowOf(tracker)

LEMMA PassingTail ==
  ASSUME NEW q \in Seq(Paths), Len(q) >= 1, NEW b
  PROVE  Cardinality(Passing(Tail(q), b, 0)) = Cardinality(Passing(q, b, 1))
<1> DEFINE S == Passing(Tail(q), b, 0)
           T == Passing(q, b, 1)
           f == [k \in S |-> k + 1]
<1>1. Len(Tail(q)) = Len(q) - 1 /\ Len(q) \in Nat
      /\ \A k \in 1..Len(Tail(q)) : Tail(q)[k] = q[k + 1]
  OBVIOUS
<1>2. \A k : k \in S <=> k \in 1..(Len(q) - 1) /\ b \in StepsOf(q[k + 1])
  BY <1>1 DEF Passing, After
<1>3. \A k : k \in T <=> k \in 1..Len(q) /\ k > 1 /\ b \in StepsOf(q[k])
  BY DEF Passing, After
<1> HIDE DEF S, T
<1>4. \A k \in S : k \in Nat /\ k + 1 \in T
  <2> SUFFICES ASSUME NEW k \in S PROVE k \in Nat /\ k + 1 \in T
    OBVIOUS
  <2>1. k \in 1..(Len(q) - 1) /\ b \in StepsOf(q[k + 1])
    BY <1>2
  <2>2. k \in Nat /\ k + 1 \in 1..Len(q) /\ k + 1 > 1
    BY <2>1, <1>1
  <2> QED
    BY <2>1, <2>2, <1>3
<1>5. \A m \in T : m - 1 \in S /\ (m - 1) + 1 = m
  <2> SUFFICES ASSUME NEW m \in T PROVE m - 1 \in S /\ (m - 1) + 1 = m
    OBVIOUS
  <2>1. m \in 1..Len(q) /\ m > 1 /\ b \in StepsOf(q[m])
    BY <1>3
  <2>2. m - 1 \in 1..(Len(q) - 1) /\ (m - 1) + 1 = m
    BY <2>1, <1>1
  <2> QED
    BY <2>1, <2>2, <1>2
<1>6. f \in Bijection(S, T)
  <2>1. f \in [S -> T]
    BY <1>4
  <2>2. \A j, k \in S : f[j] = f[k] => j = k
    BY <1>4
  <2>3. \A m \in T : \E k \in S : f[k] = m
    <3> SUFFICES ASSUME NEW m \in T PROVE \E k \in S : f[k] = m
      OBVIOUS
    <3>1. m - 1 \in S /\ f[m - 1] = m
      BY <1>5
    <3> QED
      BY <3>1
  <2> HIDE DEF f
  <2> QED
    BY <2>1, <2>2, <2>3 DEF Bijection, Injection, Surjection, IsInjective
<1>7. IsFiniteSet(S)
  <2>1. Tail(q) \in Seq(Paths)
    BY <1>1
  <2> QED
    BY <2>1, PassingIsFinite DEF S
<1> HIDE DEF f
<1>8. Cardinality(S) = Cardinality(T)
  BY <1>6, <1>7, FS_Bijection DEF ExistsBijection
<1> QED
  BY <1>8 DEF S, T

LEMMA AddKeepsFlow ==
  ASSUME FlowInv, NEW p \in Paths, Add(p)
  PROVE  QueueIsCounted' /\ FlowOf(tracker')
<1> DEFINE full == tracker.window # 0 /\ Len(tracker.queue) + 1 > tracker.window
           q == Append(tracker.queue, p)
           counted == Trace(tracker, p, 1)
           back == Trace(counted, Head(q), -1)
<1>1. /\ tracker' = AddPath(tracker, p) /\ tracker \in BayesCovertree
      /\ QueueIsCounted /\ FlowOf(tracker)
  BY DEF Add, FlowInv, TypeOK
<1>2. /\ tracker.queue \in Seq(Paths) /\ Len(tracker.queue) \in Nat /\ tracker.window \in Nat
      /\ \A b \in Bucket : tracker.observations[b] \in Nat
  BY <1>1 DEF BayesCovertree
<1>3. /\ q \in Seq(Paths) /\ Len(q) >= 1 /\ Head(q) = q[1] /\ Head(q) \in Paths
      /\ Len(q) > 0
  BY <1>2
<1>4. counted \in BayesCovertree /\ FlowOf(counted)
  BY <1>1, TraceType, TraceKeepsFlow
<1>5. \A b \in Bucket :
        /\ counted.observations[b] \in Nat
        /\ counted.observations[b] >= Cardinality(Passing(q, b, 0))
        /\ counted.observations[b] >= tracker.observations[b]
  <2> SUFFICES ASSUME NEW b \in Bucket
               PROVE  /\ counted.observations[b] \in Nat
                      /\ counted.observations[b] >= Cardinality(Passing(q, b, 0))
                      /\ counted.observations[b] >= tracker.observations[b]
    OBVIOUS
  <2>1. counted.observations[b] =
          IF b \in StepsOf(p) THEN Inc(tracker.observations[b], 1) ELSE tracker.observations[b]
    BY <1>1, TraceCounts
  <2>2. tracker.observations[b] >= Cardinality(Passing(tracker.queue, b, 0))
    BY <1>1 DEF QueueIsCounted
  <2>3. Cardinality(Passing(q, b, 0)) =
          Cardinality(Passing(tracker.queue, b, 0)) + (IF b \in StepsOf(p) THEN 1 ELSE 0)
    BY <1>2, PassingAfterAppend
  <2>4. Cardinality(Passing(tracker.queue, b, 0)) \in Nat
    BY <1>2, PassingIsFinite
  <2>5. Inc(tracker.observations[b], 1) = tracker.observations[b] + 1
    BY <1>2 DEF Inc
  <2>6. tracker.observations[b] \in Nat
    BY <1>2
  <2> HIDE DEF counted, q
  <2>7. CASE b \in StepsOf(p)
    BY <2>1, <2>2, <2>3, <2>4, <2>5, <2>6, <2>7
  <2>8. CASE b \notin StepsOf(p)
    BY <2>1, <2>2, <2>3, <2>4, <2>6, <2>8
  <2> QED
    BY <2>7, <2>8
<1>6. \A b \in Bucket :
        /\ Cardinality(Passing(Tail(q), b, 0)) =
             Cardinality(Passing(q, b, 0)) - (IF b \in StepsOf(Head(q)) THEN 1 ELSE 0)
        /\ b \in StepsOf(Head(q)) => Cardinality(Passing(q, b, 0)) >= 1
        /\ Cardinality(Passing(q, b, 0)) \in Nat
  <2> HIDE DEF q
  <2> SUFFICES ASSUME NEW b \in Bucket
               PROVE  /\ Cardinality(Passing(Tail(q), b, 0)) =
                           Cardinality(Passing(q, b, 0)) - (IF b \in StepsOf(Head(q)) THEN 1 ELSE 0)
                      /\ b \in StepsOf(Head(q)) => Cardinality(Passing(q, b, 0)) >= 1
                      /\ Cardinality(Passing(q, b, 0)) \in Nat
    OBVIOUS
  <2>1. /\ Cardinality(Passing(q, b, 0 + 1)) =
             Cardinality(Passing(q, b, 0)) - (IF b \in StepsOf(q[0 + 1]) THEN 1 ELSE 0)
        /\ b \in StepsOf(q[0 + 1]) => Cardinality(Passing(q, b, 0)) >= 1
    BY <1>3, PassingWithoutOldest
  <2>2. Cardinality(Passing(Tail(q), b, 0)) = Cardinality(Passing(q, b, 1))
    BY <1>3, PassingTail
  <2>3. Cardinality(Passing(q, b, 0)) \in Nat
    BY <1>3, PassingIsFinite
  <2> QED
    BY <2>1, <2>2, <2>3, <1>3
<1>7. /\ ~full => /\ tracker'.observations = counted.observations
                  /\ tracker'.total = counted.total /\ tracker'.overall = counted.overall
                  /\ tracker'.overallTotal = counted.overallTotal
      /\ full => /\ tracker'.observations = back.observations
                 /\ tracker'.total = back.total /\ tracker'.overall = back.overall
                 /\ tracker'.overallTotal = back.overallTotal
  BY <1>1, AddPathTraces
<1>8. /\ ~full => tracker'.queue = IF tracker.window = 0 THEN tracker.queue ELSE q
      /\ full => tracker'.queue = Tail(q)
  BY <1>1, AddPathResult
<1> HIDE DEF q
<1>9. CASE ~full
  <2>1. FlowOf(tracker')
    BY <1>4, <1>7, <1>9 DEF FlowOf
  <2>2. ASSUME NEW b \in Bucket
        PROVE  tracker'.observations[b] >= Cardinality(Passing(tracker'.queue, b, 0))
    <3>1. tracker'.observations[b] = counted.observations[b]
      BY <1>7, <1>9
    <3>2. tracker.observations[b] >= Cardinality(Passing(tracker.queue, b, 0))
      BY <1>1 DEF QueueIsCounted
    <3>3. Cardinality(Passing(tracker.queue, b, 0)) \in Nat
      BY <1>2, PassingIsFinite
    <3>4. tracker.observations[b] \in Nat
      BY <1>2
    <3>5. /\ counted.observations[b] \in Nat
          /\ counted.observations[b] >= Cardinality(Passing(q, b, 0))
          /\ counted.observations[b] >= tracker.observations[b]
      BY <1>5
    <3>6. tracker'.queue = tracker.queue \/ tracker'.queue = q
      BY <1>8, <1>9
    <3> HIDE DEF counted
    <3> QED
      BY <3>1, <3>2, <3>3, <3>4, <3>5, <3>6
  <2> QED
    BY <2>1, <2>2 DEF QueueIsCounted
<1>10. CASE full
  <2>1. \A b \in StepsOf(Head(q)) : counted.observations[b] >= 1
    <3> SUFFICES ASSUME NEW b \in StepsOf(Head(q)) PROVE counted.observations[b] >= 1
      OBVIOUS
    <3>1. b \in Bucket
      BY <1>3, PathSteps
    <3>2. /\ counted.observations[b] \in Nat
          /\ counted.observations[b] >= Cardinality(Passing(q, b, 0))
          /\ Cardinality(Passing(q, b, 0)) >= 1
          /\ Cardinality(Passing(q, b, 0)) \in Nat
      BY <3>1, <1>5, <1>6
    <3> HIDE DEF counted
    <3> QED
      BY <3>2
  <2>2. FlowOf(back)
    <3> HIDE DEF counted
    <3> QED
      BY <2>1, <1>3, <1>4, TraceKeepsFlow
  <2>3. FlowOf(tracker')
    BY <2>2, <1>7, <1>10 DEF FlowOf
  <2>4. ASSUME NEW b \in Bucket
        PROVE  tracker'.observations[b] >= Cardinality(Passing(tracker'.queue, b, 0))
    <3> HIDE DEF counted
    <3>1. tracker'.observations[b] = back.observations[b] /\ tracker'.queue = Tail(q)
      BY <1>7, <1>8, <1>10
    <3>2. back.observations[b] = IF b \in StepsOf(Head(q)) THEN Inc(counted.observations[b], -1)
                                 ELSE counted.observations[b]
      BY <1>3, <1>4, TraceCounts
    <3>3. counted.observations[b] \in Nat
          /\ counted.observations[b] >= Cardinality(Passing(q, b, 0))
      BY <1>5
    <3>4. /\ Cardinality(Passing(Tail(q), b, 0)) =
               Cardinality(Passing(q, b, 0)) - (IF b \in StepsOf(Head(q)) THEN 1 ELSE 0)
          /\ Cardinality(Passing(q, b, 0)) \in Nat
      BY <1>6
    <3> HIDE DEF back
    <3>5. CASE b \in StepsOf(Head(q))
      <4>1. Inc(counted.observations[b], -1) >= counted.observations[b] - 1
        BY <3>3 DEF Inc
      <4>2. Inc(counted.observations[b], -1) \in Nat
        BY <3>3 DEF Inc
      <4> QED
        BY <4>1, <4>2, <3>1, <3>2, <3>3, <3>4, <3>5
    <3>6. CASE b \notin StepsOf(Head(q))
      BY <3>1, <3>2, <3>3, <3>4, <3>6
    <3> QED
      BY <3>5, <3>6
  <2> QED
    BY <2>3, <2>4 DEF QueueIsCounted
<1> QED
  BY <1>9, <1>10

LEMMA InitFlow == Init => QueueIsCounted /\ FlowOf(tracker)
<1> SUFFICES ASSUME Init PROVE QueueIsCounted /\ FlowOf(tracker)
  OBVIOUS
<1>1. PICK w \in Windows : tracker = NewTracker(w)
  BY DEF Init
<1>2. /\ tracker.queue = <<>> /\ tracker.observations = [b \in Bucket |-> 0]
      /\ tracker.total = [n \in TreeNode |-> 0] /\ tracker.overall = [n \in TreeNode |-> 0]
      /\ tracker.overallTotal = 0
  BY <1>1 DEF NewTracker
<1>3. QueueIsCounted
  <2>1. \A b \in Bucket : Passing(tracker.queue, b, 0) = {}
    BY <1>2 DEF Passing, After
  <2>2. \A b \in Bucket : tracker.observations[b] = 0 /\ Cardinality(Passing(tracker.queue, b, 0)) = 0
    BY <2>1, <1>2, FS_EmptySet
  <2> QED
    BY <2>2 DEF QueueIsCounted
<1>4. \A S \in SUBSET Bucket : IsFiniteSet(S) => SumFunctionOnSet(tracker.observations, S) = 0
  <2> SUFFICES ASSUME NEW S \in SUBSET Bucket, IsFiniteSet(S)
               PROVE  SumFunctionOnSet(tracker.observations, S) = 0
    OBVIOUS
  <2> DEFINE f == tracker.observations
  <2>1. \A b \in S : f[b] = 0
    BY <1>2
  <2> HIDE DEF f
  <2>2. SumFunctionOnSet(f, S) = 0
    BY <2>1, SumOfZeros
  <2> QED
    BY <2>2 DEF f
<1>5. FlowOf(tracker)
  <2> SUFFICES ASSUME NEW n \in TreeNode
               PROVE  /\ SumFunctionOnSet(tracker.observations, Out(n)) = 0
                      /\ SumFunctionOnSet(tracker.observations, Into(n)) = 0
                      /\ <<n, Singleton>> \in Bucket
    BY <1>2 DEF FlowOf
  <2> QED
    BY <1>4, BucketSets DEF Bucket
<1> QED
  BY <1>3, <1>5

LEMMA NextFlowInv == FlowInv /\ TypeOK' /\ [Next]_vars => FlowInv'
<1> SUFFICES ASSUME FlowInv, TypeOK', [Next]_vars PROVE QueueIsCounted' /\ FlowOf(tracker')
  BY DEF FlowInv
<1>1. ASSUME NEW p \in Paths, Add(p) PROVE QueueIsCounted' /\ FlowOf(tracker')
  BY <1>1, AddKeepsFlow
<1>2. ASSUME NEW w \in NewWindows, NewWindow(w) PROVE QueueIsCounted' /\ FlowOf(tracker')
  <2>1. /\ tracker'.queue = tracker.queue /\ tracker'.observations = tracker.observations
        /\ tracker'.total = tracker.total /\ tracker'.overall = tracker.overall
        /\ tracker'.overallTotal = tracker.overallTotal
    BY <1>2 DEF NewWindow, CloneNewWindow, FlowInv, TypeOK, BayesCovertree
  <2> QED
    BY <2>1 DEF FlowInv, QueueIsCounted, FlowOf
<1>3. CASE UNCHANGED vars
  BY <1>3 DEF vars, FlowInv, QueueIsCounted, FlowOf
<1> QED
  BY <1>1, <1>2, <1>3 DEF Next

-----------------------------------------------------------------------------
(* The tracker keeps its type: no count goes below zero, and the queue of  *)
(* a tracker that keeps its window never exceeds it.                       *)
THEOREM TypeCorrect == Spec => []TypeOK
<1>1. IInv => TypeOK
  BY DEF IInv
<1> QED
  BY <1>1, InitIInv, NextIInv, PTL DEF Spec

(* The counts are those of the last window_size paths that were added, or  *)
(* of all of them without a window: add_path forgets exactly what it has   *)
(* to, for every tree, path and window.                                    *)
THEOREM CountsAreOfTheWindow == Spec => []PosteriorIsWindow
  BY InitIInv, NextIInv, IInvImpliesPosterior, PTL DEF Spec

(* However paths were added and forgotten and the window was changed, every*)
(* path counted into a node is counted out of it or ends there, and the    *)
(* totals and the overall tracker agree with the buckets.                  *)
THEOREM FlowThroughNodes == Spec => []FlowIsConserved
<1>1. Init => FlowInv
  BY InitIInv, InitFlow DEF FlowInv, IInv
<1>2. IInv /\ IInv' /\ FlowInv /\ [Next]_vars => FlowInv'
  BY NextFlowInv DEF IInv
<1>3. FlowInv => FlowIsConserved
  BY DEF FlowInv, FlowOf, FlowIsConserved, Out, Into
<1> QED
  BY <1>1, <1>2, <1>3, InitIInv, NextIInv, PTL DEF Spec

-----------------------------------------------------------------------------
(* The builder of a baseline: what it keeps of a node is what its data     *)
(* points report of it.                                                    *)

CountsAreOfPaths ==
  Len(added) <= MaxPaths /\ \A b \in Bucket : tracker.observations[b] <= Len(added)

(* What a data point can be. *)
Trackers == {t \in BayesCovertree : \A b \in Bucket : t.observations[b] <= MaxPaths}
Points == {Small(t) : t \in Trackers}

Reporting(points, n) == {k \in 1..Len(points) : n \in DOMAIN points[k].nodes}
KlSeries(points, n) == [k \in 1..Len(points) |-> KlAt(points[k], n)]

(* The second largest is below the largest, and only then if a point has   *)
(* moved the largest from nothing.                                         *)
MomentsOf(m, points, n) ==
  LET at == Reporting(points, n)
  IN /\ m.count = Cardinality(at)
     /\ m.kl1 = SumFunctionOnSet(KlSeries(points, n), at)
     /\ m.max1 \in Nat /\ m.max2 \in Nat /\ (m.max1 = 0 \/ m.max2 < m.max1)
     /\ m.min1 \in Int /\ m.min1 <= 0
     /\ \A k \in at : points[k].nodes[n].kl <= m.max1 /\ m.min1 <= points[k].nodes[n].mll
     /\ m.max1 # 0 => \E k \in at : points[k].nodes[n].kl = m.max1

MomentsAt(bl, n) == IF n \in DOMAIN bl.nodes THEN bl.nodes[n] ELSE NoMoments

IsBuilder(bl) ==
  bl = [interval |-> bl.interval, count |-> bl.count, points |-> bl.points,
        overall |-> bl.overall, nodes |-> bl.nodes]

NodesAreOfPoints(bl) ==
  /\ bl.points \in Seq(Points)
  /\ DOMAIN bl.nodes = {n \in TreeNode : Reporting(bl.points, n) # {}}
  /\ \A n \in TreeNode : MomentsOf(MomentsAt(bl, n), bl.points, n)

JustTaken(bl, t) ==
  bl.count > 0 /\ bl.count % bl.interval = 0 =>
    Len(bl.points) > 0 /\ bl.points[Len(bl.points)] = Small(t)

BuilderKept == builder # NoBuilder =>
  IsBuilder(builder) /\ NodesAreOfPoints(builder) /\ JustTaken(builder, tracker)

LEMMA InitCounts == Init => CountsAreOfPaths
<1> SUFFICES ASSUME Init PROVE CountsAreOfPaths
  OBVIOUS
<1>1. MaxPaths \in Nat /\ Len(added) = 0
  BY WindowsAssumption DEF Init
<1>2. \A b \in Bucket : tracker.observations[b] = 0
  BY DEF Init, NewTracker
<1> QED
  BY <1>1, <1>2 DEF CountsAreOfPaths

LEMMA NextCounts == TypeOK /\ CountsAreOfPaths /\ [Next]_vars => CountsAreOfPaths'
<1> SUFFICES ASSUME TypeOK, CountsAreOfPaths, [Next]_vars PROVE CountsAreOfPaths'
  OBVIOUS
<1>1. ASSUME NEW p \in Paths, Add(p) PROVE CountsAreOfPaths'
  <2> DEFINE u == AddPath(tracker, p)
             n(b) == tracker.observations[b] + (IF b \in StepsOf(p) THEN 1 ELSE 0)
  <2>1. /\ tracker' = u /\ added' = Append(added, p) /\ Len(added) < MaxPaths
        /\ tracker \in BayesCovertree /\ added \in Seq(Paths) /\ MaxPaths \in Nat
    BY <1>1, WindowsAssumption DEF Add, TypeOK
  <2>2. Len(added') = Len(added) + 1 /\ Len(added) \in Nat
    BY <2>1
  <2>3. \A b \in Bucket : tracker.observations[b] \in Nat /\ tracker.observations[b] <= Len(added)
    BY <2>1 DEF BayesCovertree, CountsAreOfPaths
  <2>4. \A b \in Bucket : u.observations[b] = n(b) \/ u.observations[b] = Inc(n(b), -1)
    BY <2>1, AddPathResult
  <2>5. \A b \in Bucket : n(b) \in Nat /\ n(b) <= Len(added) + 1
    BY <2>2, <2>3
  <2>6. \A k \in Nat : Inc(k, -1) <= k
    BY DEF Inc
  <2> HIDE DEF u, n
  <2>7. \A b \in Bucket : u.observations[b] <= Len(added) + 1
    <3> SUFFICES ASSUME NEW b \in Bucket PROVE u.observations[b] <= Len(added) + 1
      OBVIOUS
    <3> DEFINE k == n(b)
    <3>1. k \in Nat /\ k <= Len(added) + 1 /\ Inc(k, -1) <= k /\ Inc(k, -1) \in Nat
      BY <2>5, <2>6 DEF Inc
    <3>2. u.observations[b] = k \/ u.observations[b] = Inc(k, -1)
      BY <2>4
    <3> HIDE DEF k
    <3> QED
      BY <3>1, <3>2, <2>2
  <2> QED
    BY <2>1, <2>2, <2>7 DEF CountsAreOfPaths
<1>2. ASSUME NEW w \in NewWindows, NewWindow(w) PROVE CountsAreOfPaths'
  <2>1. tracker'.observations = tracker.observations /\ added' = added
    BY <1>2 DEF NewWindow, CloneNewWindow, TypeOK, BayesCovertree
  <2> QED
    BY <2>1 DEF CountsAreOfPaths
<1>3. CASE UNCHANGED vars
  BY <1>3 DEF vars, CountsAreOfPaths
<1> QED
  BY <1>1, <1>2, <1>3 DEF Next

LEMMA TrackerIsBounded ==
  ASSUME NEW t \in BayesCovertree, NEW paths \in Seq(Paths), Len(paths) <= MaxPaths,
         \A b \in Bucket : t.observations[b] <= Len(paths)
  PROVE  t \in Trackers
<1>1. MaxPaths \in Nat /\ Len(paths) \in Nat
  BY WindowsAssumption
<1>2. \A b \in Bucket : t.observations[b] \in Nat
  BY DEF BayesCovertree
<1> QED
  BY <1>1, <1>2 DEF Trackers

(* A builder changes nothing of its tracker. *)
LEMMA BuilderOnlyWatches == [BNext]_bvars => [Next]_vars
BY DEF BNext, bvars, BBefore, BNew, BAddPath, Next

(* What is proved of a tracker so holds of one that a builder feeds. *)
LEMMA BuildersRefine == BSpec => Spec
<1>1. BInit => Init
  BY DEF BInit
<1> QED
  BY <1>1, BuilderOnlyWatches, PTL DEF BSpec, Spec

LEMMA DivergenceOfTracker ==
  ASSUME NEW t \in Trackers, NEW n \in TreeNode
  PROVE  /\ NodeDivergence(t, n).kl \in Nat
         /\ NodeDivergence(t, n).mll \in Int /\ NodeDivergence(t, n).mll <= 0
<1> DEFINE obs == [b \in BucketsOf(n) |-> t.observations[b]]
<1>1. BucketsOf(n) \subseteq Bucket
  BY PathsAssumption DEF BucketsOf
<1>2. \A b \in Bucket : t.observations[b] \in Nat /\ t.observations[b] <= MaxPaths
  BY DEF Trackers, BayesCovertree
<1>3. obs \in [BucketsOf(n) -> 0..MaxPaths]
  BY <1>1, <1>2, WindowsAssumption
<1>4. NodeDivergence(t, n) = DivergenceAt(n, obs)
  BY DEF NodeDivergence
<1> HIDE DEF obs
<1> QED
  BY <1>3, <1>4, GammaAssumption

LEMMA SmallNodes ==
  ASSUME NEW t \in Trackers
  PROVE  /\ DOMAIN Small(t).nodes \subseteq TreeNode
         /\ \A n \in DOMAIN Small(t).nodes : Small(t).nodes[n] = NodeDivergence(t, n)
         /\ \A n \in TreeNode : NodeDivergence(t, n).kl > 0 => n \in DOMAIN Small(t).nodes
BY DEF Small

LEMMA PointsAre ==
  ASSUME NEW d \in Points
  PROVE  /\ DOMAIN d.nodes \subseteq TreeNode
         /\ \A n \in DOMAIN d.nodes : d.nodes[n].kl \in Nat /\ d.nodes[n].mll \in Int /\ d.nodes[n].mll <= 0
         /\ \A n : KlAt(d, n) \in Nat
<1>1. PICK t \in Trackers : d = Small(t)
  BY DEF Points
<1>2. /\ DOMAIN d.nodes \subseteq TreeNode
      /\ \A n \in DOMAIN d.nodes : d.nodes[n] = NodeDivergence(t, n)
  BY <1>1, SmallNodes
<1>3. \A n \in DOMAIN d.nodes : d.nodes[n].kl \in Nat /\ d.nodes[n].mll \in Int /\ d.nodes[n].mll <= 0
  BY <1>2, DivergenceOfTracker
<1> QED
  BY <1>2, <1>3 DEF KlAt

(* The nodes a data point leaves out have nothing to add. *)
LEMMA SmallSum ==
  ASSUME NEW t \in Trackers
  PROVE  KlStats(t).moment1 = SumOver(TreeNode, LAMBDA n : KlAt(Small(t), n))
<1> DEFINE d == Small(t)
           nonZero == {n \in TreeNode : NodeDivergence(t, n).kl > 0}
           f == [n \in nonZero |-> NodeDivergence(t, n).kl]
           g == [n \in TreeNode |-> KlAt(d, n)]
<1>1. \A n \in TreeNode : KlAt(d, n) \in Nat /\ KlAt(d, n) = NodeDivergence(t, n).kl
  <2> SUFFICES ASSUME NEW n \in TreeNode PROVE KlAt(d, n) \in Nat /\ KlAt(d, n) = NodeDivergence(t, n).kl
    OBVIOUS
  <2>1. NodeDivergence(t, n).kl \in Nat
    BY DivergenceOfTracker
  <2>2. n \notin DOMAIN d.nodes => NodeDivergence(t, n).kl = 0
    BY <2>1, SmallNodes
  <2>3. n \in DOMAIN d.nodes => d.nodes[n] = NodeDivergence(t, n)
    BY SmallNodes
  <2> HIDE DEF d
  <2> QED
    BY <2>1, <2>2, <2>3 DEF KlAt
<1>2. KlStats(t).moment1 = SumFunctionOnSet(f, nonZero)
  BY DEF KlStats, SumOver, SumFunction
<1>3. SumOver(TreeNode, LAMBDA n : KlAt(Small(t), n)) = SumFunctionOnSet(g, TreeNode)
  BY DEF SumOver, SumFunction
<1>4. /\ nonZero \in SUBSET TreeNode /\ \A n \in TreeNode : g[n] \in Int
      /\ \A n \in TreeNode \ nonZero : g[n] = 0
      /\ \A n \in nonZero : f[n] = g[n]
  <2>1. \A n \in TreeNode \ nonZero : NodeDivergence(t, n).kl = 0
    BY DivergenceOfTracker
  <2> HIDE DEF d
  <2> QED
    BY <1>1, <2>1
<1>5. IsFiniteSet(TreeNode) /\ IsFiniteSet(nonZero)
  BY <1>4, PathsAssumption, FS_Subset
<1> HIDE DEF f, g, nonZero, d
<1>6. SumFunctionOnSet(g, TreeNode) = SumFunctionOnSet(g, nonZero)
  BY <1>4, <1>5, SumBeyond
<1>7. SumFunctionOnSet(f, nonZero) = SumFunctionOnSet(g, nonZero)
  BY <1>4, <1>5, SumOfSame
<1> QED
  BY <1>2, <1>3, <1>6, <1>7

(* One data point more: it reports the node, or says nothing of it. *)
LEMMA ReportingMore ==
  ASSUME NEW points \in Seq(Points), NEW d \in Points, NEW n
  PROVE  LET more == Append(points, d)
             at == Reporting(points, n)
             k == Len(points) + 1
         IN  /\ Len(points) \in Nat /\ IsFiniteSet(at) /\ k \notin at
             /\ more \in Seq(Points) /\ Len(more) = k /\ more[k] = d
             /\ \A j \in 1..Len(points) : more[j] = points[j]
             /\ \A j \in at : j \in 1..Len(points)
             /\ Reporting(more, n) = IF n \in DOMAIN d.nodes THEN at \cup {k} ELSE at
             /\ \A j \in 1..Len(points) : KlSeries(more, n)[j] = KlSeries(points, n)[j]
             /\ \A j \in 1..k : KlSeries(more, n)[j] = KlAt(more[j], n) /\ KlAt(more[j], n) \in Nat
<1> DEFINE more == Append(points, d)
           at == Reporting(points, n)
           k == Len(points) + 1
<1>1. /\ Len(points) \in Nat /\ more \in Seq(Points) /\ Len(more) = k /\ more[k] = d
      /\ \A j \in 1..Len(points) : more[j] = points[j]
  OBVIOUS
<1>2. at \in SUBSET (1..Len(points))
  BY DEF Reporting
<1>3. IsFiniteSet(at) /\ k \notin at
  <2>1. IsFiniteSet(1..Len(points)) /\ k \notin 1..Len(points)
    BY <1>1, FS_Interval
  <2> HIDE DEF at, k
  <2> QED
    BY <1>2, <2>1, FS_Subset
<1> HIDE DEF more
<1>4. Reporting(more, n) = IF n \in DOMAIN d.nodes THEN at \cup {k} ELSE at
  <2>1. \A j : j \in Reporting(more, n) <=> j \in 1..k /\ n \in DOMAIN more[j].nodes
    BY <1>1 DEF Reporting
  <2>2. \A j : j \in at <=> j \in 1..Len(points) /\ n \in DOMAIN points[j].nodes
    BY DEF Reporting
  <2>3. \A j : j \in 1..k <=> j \in 1..Len(points) \/ j = k
    BY <1>1
  <2> HIDE DEF at, k
  <2>4. \A j : j \in Reporting(more, n) <=> j \in at \/ (j = k /\ n \in DOMAIN d.nodes)
    BY <2>1, <2>2, <2>3, <1>1, <1>3
  <2> QED
    BY <2>4
<1>5. \A j \in 1..k : more[j] \in Points
  BY <1>1
<1>6. \A j \in 1..k : KlSeries(more, n)[j] = KlAt(more[j], n) /\ KlAt(more[j], n) \in Nat
  <2>1. \A j \in 1..k : KlSeries(more, n)[j] = KlAt(more[j], n)
    BY <1>1 DEF KlSeries
  <2> HIDE DEF k
  <2> QED
    BY <2>1, <1>5, PointsAre
<1>7. \A j \in 1..Len(points) : KlSeries(more, n)[j] = KlSeries(points, n)[j]
  <2>1. \A j \in 1..Len(points) : j \in 1..k
    BY <1>1
  <2>2. \A j \in 1..Len(points) : KlSeries(points, n)[j] = KlAt(points[j], n)
    BY DEF KlSeries
  <2>3. \A j \in 1..Len(points) : KlSeries(more, n)[j] = KlAt(more[j], n)
    BY <1>6, <2>1
  <2> QED
    BY <1>1, <2>2, <2>3
<1> HIDE DEF at, k
<1> QED
  BY <1>1, <1>2, <1>3, <1>4, <1>6, <1>7 DEF more, at, k

LEMMA UpdatedMoments ==
  ASSUME NEW points \in Seq(Points), NEW d \in Points, NEW n \in DOMAIN d.nodes, NEW m,
         MomentsOf(m, points, n)
  PROVE  MomentsOf(Update(m, d.nodes[n]), Append(points, d), n)
<1> DEFINE more == Append(points, d)
           at == Reporting(points, n)
           k == Len(points) + 1
           x == d.nodes[n]
           u == Update(m, x)
           f == KlSeries(points, n)
           g == KlSeries(more, n)
<1>1. /\ Len(points) \in Nat /\ IsFiniteSet(at) /\ k \notin at /\ more[k] = d
      /\ \A j \in 1..Len(points) : more[j] = points[j]
      /\ \A j \in at : j \in 1..Len(points)
      /\ Reporting(more, n) = at \cup {k}
      /\ \A j \in 1..Len(points) : g[j] = f[j]
      /\ \A j \in 1..k : g[j] = KlAt(more[j], n) /\ KlAt(more[j], n) \in Nat
  BY ReportingMore
<1>2. x.kl \in Nat /\ x.mll \in Int /\ KlAt(d, n) = x.kl
  BY PointsAre DEF KlAt
<1>3. /\ m.count = Cardinality(at)
      /\ m.kl1 = SumFunctionOnSet(f, at)
      /\ m.max1 \in Nat /\ m.max2 \in Nat /\ (m.max1 = 0 \/ m.max2 < m.max1)
      /\ m.min1 \in Int /\ m.min1 <= 0
      /\ \A j \in at : points[j].nodes[n].kl <= m.max1 /\ m.min1 <= points[j].nodes[n].mll
      /\ m.max1 # 0 => \E j \in at : points[j].nodes[n].kl = m.max1
  BY DEF MomentsOf
<1>4. /\ u.kl1 = m.kl1 + x.kl /\ u.count = m.count + 1
      /\ u.max1 = IF x.kl > m.max1 THEN x.kl ELSE m.max1
      /\ u.max2 = IF x.kl > m.max1 THEN m.max1 ELSE m.max2
      /\ u.min1 = IF x.mll < m.min1 THEN x.mll ELSE m.min1
  BY DEF Update
<1>5. \A j \in at : points[j].nodes[n].kl \in Nat /\ points[j].nodes[n].mll \in Int
  <2>1. \A j \in at : points[j] \in Points /\ n \in DOMAIN points[j].nodes
    BY DEF Reporting
  <2> QED
    BY <2>1, PointsAre
<1>6. \A j \in 1..k : g[j] \in Int
  BY <1>1
<1>7. g[k] = x.kl
  BY <1>1, <1>2
<1> HIDE DEF more, at, x, u, f, g
<1>8. Cardinality(at \cup {k}) = Cardinality(at) + 1
  BY <1>1, FS_AddElement
<1>9. SumFunctionOnSet(g, at \cup {k}) = SumFunctionOnSet(f, at) + x.kl
  <2>1. \A j \in at \cup {k} : g[j] \in Int
    BY <1>1, <1>6
  <2>2. \A j \in at : g[j] = f[j]
    BY <1>1
  <2> HIDE DEF k
  <2>3. SumFunctionOnSet(g, at \cup {k}) = SumFunctionOnSet(g, at) + g[k]
    BY <1>1, <2>1, SumWith
  <2>4. SumFunctionOnSet(g, at) = SumFunctionOnSet(f, at)
    BY <1>1, <2>2, SumOfSame
  <2> QED
    BY <2>3, <2>4, <1>7
<1>10. /\ u.max1 \in Nat /\ u.max2 \in Nat /\ (u.max1 = 0 \/ u.max2 < u.max1)
       /\ u.min1 \in Int /\ u.min1 <= 0
       /\ x.kl <= u.max1 /\ u.min1 <= x.mll /\ m.max1 <= u.max1 /\ u.min1 <= m.min1
       /\ u.max1 # 0 => u.max1 = x.kl \/ (u.max1 = m.max1 /\ m.max1 # 0)
  BY <1>2, <1>3, <1>4
<1>11. \A j \in at \cup {k} : more[j].nodes[n].kl <= u.max1 /\ u.min1 <= more[j].nodes[n].mll
  <2> SUFFICES ASSUME NEW j \in at \cup {k}
               PROVE  more[j].nodes[n].kl <= u.max1 /\ u.min1 <= more[j].nodes[n].mll
    OBVIOUS
  <2>1. CASE j = k
    <3>1. more[j].nodes[n] = x
      BY <2>1, <1>1 DEF x
    <3> QED
      BY <3>1, <1>10
  <2>2. CASE j \in at
    <3>1. more[j] = points[j]
      BY <2>2, <1>1
    <3>2. points[j].nodes[n].kl <= m.max1 /\ m.min1 <= points[j].nodes[n].mll
          /\ points[j].nodes[n].kl \in Nat /\ points[j].nodes[n].mll \in Int
      BY <2>2, <1>3, <1>5
    <3> DEFINE y == points[j].nodes[n]
    <3> HIDE DEF y
    <3>3. y.kl <= u.max1 /\ u.min1 <= y.mll
      BY <3>2, <1>10, <1>3 DEF y
    <3> QED
      BY <3>1, <3>3 DEF y
  <2> QED
    BY <2>1, <2>2
<1>12. u.max1 # 0 => \E j \in at \cup {k} : more[j].nodes[n].kl = u.max1
  <2>1. u.max1 = x.kl => more[k].nodes[n].kl = u.max1
    BY <1>1 DEF x
  <2>2. u.max1 = m.max1 /\ m.max1 # 0 => \E j \in at : more[j].nodes[n].kl = u.max1
    BY <1>1, <1>3
  <2> QED
    BY <2>1, <2>2, <1>10
<1>13. /\ u.count = Cardinality(Reporting(more, n))
       /\ u.kl1 = SumFunctionOnSet(KlSeries(more, n), Reporting(more, n))
  BY <1>1, <1>3, <1>4, <1>8, <1>9 DEF g
<1> QED
  BY <1>1, <1>10, <1>11, <1>12, <1>13 DEF MomentsOf, more, u, x

LEMMA SameMoments ==
  ASSUME NEW points \in Seq(Points), NEW d \in Points, NEW n, n \notin DOMAIN d.nodes, NEW m,
         MomentsOf(m, points, n)
  PROVE  MomentsOf(m, Append(points, d), n)
<1> DEFINE more == Append(points, d)
           at == Reporting(points, n)
           f == KlSeries(points, n)
           g == KlSeries(more, n)
<1>1. /\ IsFiniteSet(at) /\ Reporting(more, n) = at
      /\ \A j \in at : more[j] = points[j] /\ g[j] = f[j]
  BY ReportingMore
<1> HIDE DEF more, at, f, g
<1>2. SumFunctionOnSet(g, at) = SumFunctionOnSet(f, at)
  BY <1>1, SumOfSame
<1>3. /\ m.count = Cardinality(at)
      /\ m.kl1 = SumFunctionOnSet(f, at)
      /\ m.max1 \in Nat /\ m.max2 \in Nat /\ (m.max1 = 0 \/ m.max2 < m.max1)
      /\ m.min1 \in Int /\ m.min1 <= 0
      /\ \A j \in at : points[j].nodes[n].kl <= m.max1 /\ m.min1 <= points[j].nodes[n].mll
      /\ m.max1 # 0 => \E j \in at : points[j].nodes[n].kl = m.max1
  BY DEF MomentsOf, at, f
<1>4. /\ \A j \in at : more[j].nodes[n].kl <= m.max1 /\ m.min1 <= more[j].nodes[n].mll
      /\ m.max1 # 0 => \E j \in at : more[j].nodes[n].kl = m.max1
  BY <1>1, <1>3
<1> QED
  BY <1>1, <1>2, <1>3, <1>4 DEF MomentsOf, more, g

(* What a builder is after a path: whatever it was, if this is no path to  *)
(* take a data point at, and with one data point more if it is.            *)
LEMMA CountedIs ==
  ASSUME NEW bl, IsBuilder(bl), NEW t
  PROVE  LET u == Counted(bl, t)
             d == Small(t)
         IN  /\ IsBuilder(u) /\ u.count = bl.count + 1 /\ u.interval = bl.interval
             /\ u.count % u.interval # 0 => u.points = bl.points /\ u.nodes = bl.nodes
             /\ u.count % u.interval = 0 =>
                  /\ u.points = Append(bl.points, d)
                  /\ DOMAIN u.nodes = DOMAIN bl.nodes \cup DOMAIN d.nodes
                  /\ \A n \in DOMAIN u.nodes :
                       u.nodes[n] = IF n \in DOMAIN d.nodes THEN Update(MomentsAt(bl, n), d.nodes[n])
                                    ELSE MomentsAt(bl, n)
<1> DEFINE d == Small(t)
           c == bl.count + 1
           one == [interval |-> bl.interval, count |-> c, points |-> bl.points,
                   overall |-> bl.overall, nodes |-> bl.nodes]
           nodes == [n \in DOMAIN bl.nodes \cup DOMAIN d.nodes |->
                       IF n \in DOMAIN d.nodes THEN Update(MomentsAt(bl, n), d.nodes[n])
                       ELSE MomentsAt(bl, n)]
           taken == [interval |-> bl.interval, count |-> c, points |-> Append(bl.points, d),
                     overall |-> Update(bl.overall, d.overall), nodes |-> nodes]
           u == Counted(bl, t)
<1>1. [bl EXCEPT !.count = @ + 1] = one
  <2> DEFINE k == bl.count + 1
  <2>1. [bl EXCEPT !.count = @ + 1] = [bl EXCEPT !.count = k]
    OBVIOUS
  <2> HIDE DEF k
  <2>2. bl = [interval |-> bl.interval, count |-> bl.count, points |-> bl.points,
              overall |-> bl.overall, nodes |-> bl.nodes]
    BY DEF IsBuilder
  <2>3. [bl EXCEPT !.count = k] = [interval |-> bl.interval, count |-> k, points |-> bl.points,
                                   overall |-> bl.overall, nodes |-> bl.nodes]
    BY <2>2
  <2> QED
    BY <2>1, <2>3 DEF k
<1>2. Observed(one, d) = taken
  <2> DEFINE ps == Append(bl.points, d)
             ov == Update(bl.overall, d.overall)
             ns == [n \in DOMAIN bl.nodes \cup DOMAIN d.nodes |->
                      LET m == IF n \in DOMAIN bl.nodes THEN bl.nodes[n] ELSE NoMoments
                      IN IF n \in DOMAIN d.nodes THEN Update(m, d.nodes[n]) ELSE m]
  <2>1. Observed(one, d) = [one EXCEPT !.points = ps, !.overall = ov, !.nodes = ns]
    <3> HIDE DEF d
    <3> QED
      BY DEF Observed
  <2>2. ns = nodes
    <3> HIDE DEF d
    <3> QED
      BY DEF MomentsAt
  <2> HIDE DEF ps, ov, ns, c, nodes
  <2>3. Observed(one, d) = [interval |-> bl.interval, count |-> c, points |-> ps,
                            overall |-> ov, nodes |-> ns]
    BY <2>1
  <2> QED
    BY <2>2, <2>3 DEF ps, ov
<1>3. u = IF c % bl.interval = 0 THEN taken ELSE one
  <2>1. u = IF one.count % bl.interval = 0 THEN Observed(one, d) ELSE one
    <3> HIDE DEF one, d
    <3> QED
      BY <1>1 DEF Counted, d
  <2> QED
    BY <2>1, <1>2
<1>4. DOMAIN nodes = DOMAIN bl.nodes \cup DOMAIN d.nodes
  OBVIOUS
<1>5. \A n \in DOMAIN nodes : nodes[n] =
        IF n \in DOMAIN d.nodes THEN Update(MomentsAt(bl, n), d.nodes[n]) ELSE MomentsAt(bl, n)
  OBVIOUS
<1> HIDE DEF c, u, d, nodes
<1>6. CASE c % bl.interval = 0
  <2>1. u = taken
    BY <1>3, <1>6
  <2>2. /\ IsBuilder(u) /\ u.count = c /\ u.interval = bl.interval
        /\ u.points = Append(bl.points, d) /\ u.nodes = nodes
    BY <2>1 DEF IsBuilder
  <2> QED
    BY <1>4, <1>5, <1>6, <2>2 DEF c, u, d
<1>7. CASE c % bl.interval # 0
  <2>1. u = one
    BY <1>3, <1>7
  <2>2. /\ IsBuilder(u) /\ u.count = c /\ u.interval = bl.interval
        /\ u.points = bl.points /\ u.nodes = bl.nodes
    BY <2>1 DEF IsBuilder
  <2> QED
    BY <1>7, <2>2 DEF c, u, d
<1> QED
  BY <1>6, <1>7

LEMMA CountedKeeps ==
  ASSUME NEW bl, IsBuilder(bl), NodesAreOfPoints(bl), NEW t \in Trackers
  PROVE  LET u == Counted(bl, t)
         IN  IsBuilder(u) /\ NodesAreOfPoints(u) /\ JustTaken(u, t)
<1> DEFINE u == Counted(bl, t)
           d == Small(t)
<1>1. /\ IsBuilder(u) /\ u.count = bl.count + 1 /\ u.interval = bl.interval
      /\ u.count % u.interval # 0 => u.points = bl.points /\ u.nodes = bl.nodes
      /\ u.count % u.interval = 0 =>
           /\ u.points = Append(bl.points, d)
           /\ DOMAIN u.nodes = DOMAIN bl.nodes \cup DOMAIN d.nodes
           /\ \A n \in DOMAIN u.nodes :
                u.nodes[n] = IF n \in DOMAIN d.nodes THEN Update(MomentsAt(bl, n), d.nodes[n])
                             ELSE MomentsAt(bl, n)
  BY CountedIs
<1>2. d \in Points /\ DOMAIN d.nodes \subseteq TreeNode
  BY PointsAre DEF Points
<1>3. /\ bl.points \in Seq(Points)
      /\ DOMAIN bl.nodes = {n \in TreeNode : Reporting(bl.points, n) # {}}
      /\ \A n \in TreeNode : MomentsOf(MomentsAt(bl, n), bl.points, n)
  BY DEF NodesAreOfPoints
<1> HIDE DEF u, d
<1>4. CASE u.count % u.interval # 0
  <2>1. u.points = bl.points /\ u.nodes = bl.nodes
    BY <1>1, <1>4
  <2>2. NodesAreOfPoints(u)
    BY <1>3, <2>1 DEF NodesAreOfPoints, MomentsAt
  <2> QED
    BY <1>1, <1>4, <2>2 DEF JustTaken, u
<1>5. CASE u.count % u.interval = 0
  <2> DEFINE more == Append(bl.points, d)
  <2>1. /\ u.points = more
        /\ DOMAIN u.nodes = DOMAIN bl.nodes \cup DOMAIN d.nodes
        /\ \A n \in DOMAIN u.nodes :
             u.nodes[n] = IF n \in DOMAIN d.nodes THEN Update(MomentsAt(bl, n), d.nodes[n])
                          ELSE MomentsAt(bl, n)
    BY <1>1, <1>5
  <2>2. /\ Len(bl.points) \in Nat /\ more \in Seq(Points) /\ Len(more) = Len(bl.points) + 1
        /\ more[Len(bl.points) + 1] = d
        /\ \A n : Reporting(more, n) =
                  IF n \in DOMAIN d.nodes THEN Reporting(bl.points, n) \cup {Len(bl.points) + 1}
                  ELSE Reporting(bl.points, n)
    <3> DEFINE ps == bl.points
    <3>1. ps \in Seq(Points) /\ d \in Points
      BY <1>2, <1>3
    <3> HIDE DEF ps
    <3>2. /\ Len(ps) \in Nat /\ Append(ps, d) \in Seq(Points) /\ Len(Append(ps, d)) = Len(ps) + 1
          /\ Append(ps, d)[Len(ps) + 1] = d
      BY <3>1
    <3>3. \A n : Reporting(Append(ps, d), n) =
                  IF n \in DOMAIN d.nodes THEN Reporting(ps, n) \cup {Len(ps) + 1}
                  ELSE Reporting(ps, n)
      BY <3>1, ReportingMore
    <3> QED
      BY <3>2, <3>3 DEF ps
  <2>3. ASSUME NEW n \in TreeNode PROVE MomentsOf(MomentsAt(u, n), more, n)
    <3>1. CASE n \in DOMAIN d.nodes
      <4>1. MomentsAt(u, n) = Update(MomentsAt(bl, n), d.nodes[n])
        BY <2>1, <3>1 DEF MomentsAt
      <4> DEFINE m == MomentsAt(bl, n)
      <4>2. MomentsOf(m, bl.points, n)
        BY <1>3
      <4> HIDE DEF m
      <4>3. MomentsOf(Update(m, d.nodes[n]), Append(bl.points, d), n)
        BY <4>2, <3>1, <1>2, <1>3, UpdatedMoments
      <4> QED
        BY <4>1, <4>3 DEF m
    <3>2. CASE n \notin DOMAIN d.nodes
      <4>1. MomentsAt(u, n) = MomentsAt(bl, n)
        BY <2>1, <3>2 DEF MomentsAt
      <4> DEFINE m == MomentsAt(bl, n)
      <4>2. MomentsOf(m, bl.points, n)
        BY <1>3
      <4> HIDE DEF m
      <4>3. MomentsOf(m, Append(bl.points, d), n)
        BY <4>2, <3>2, <1>2, <1>3, SameMoments
      <4> QED
        BY <4>1, <4>3 DEF m
    <3> QED
      BY <3>1, <3>2
  <2> HIDE DEF more
  <2>4. DOMAIN u.nodes = {n \in TreeNode : Reporting(u.points, n) # {}}
    BY <1>2, <1>3, <2>1, <2>2
  <2>5. NodesAreOfPoints(u)
    BY <2>1, <2>2, <2>3, <2>4 DEF NodesAreOfPoints
  <2>6. Len(u.points) > 0 /\ u.points[Len(u.points)] = Small(t)
    BY <2>1, <2>2 DEF d
  <2> QED
    BY <1>1, <2>5, <2>6 DEF JustTaken, u
<1> QED
  BY <1>4, <1>5

LEMMA NewBuilderKept ==
  ASSUME NEW interval, NEW t
  PROVE  LET u == NewBuilder(interval)
         IN  IsBuilder(u) /\ NodesAreOfPoints(u) /\ JustTaken(u, t)
<1> DEFINE u == NewBuilder(interval)
<1>1. IsBuilder(u) /\ u.points = <<>> /\ u.count = 0 /\ DOMAIN u.nodes = {}
  BY DEF IsBuilder, NewBuilder
<1> HIDE DEF u
<1>2. \A n : Reporting(<<>>, n) = {}
  BY DEF Reporting
<1>3. \A n \in TreeNode : MomentsAt(u, n) = NoMoments
  BY <1>1 DEF MomentsAt
<1>4. \A n \in TreeNode : MomentsOf(NoMoments, <<>>, n)
  <2> SUFFICES ASSUME NEW n \in TreeNode PROVE MomentsOf(NoMoments, <<>>, n)
    OBVIOUS
  <2> DEFINE f == KlSeries(<<>>, n)
  <2>1. SumFunctionOnSet(f, {}) = 0
    BY SumOfNone
  <2> HIDE DEF f
  <2>2. Cardinality({}) = 0
    BY FS_EmptySet
  <2> QED
    BY <2>1, <2>2, <1>2 DEF MomentsOf, NoMoments, f
<1>5. NodesAreOfPoints(u)
  BY <1>1, <1>2, <1>3, <1>4 DEF NodesAreOfPoints
<1> QED
  BY <1>1, <1>5 DEF JustTaken, u

LEMMA NextBuilder ==
  TypeOK' /\ CountsAreOfPaths' /\ BuilderKept /\ [BNext]_bvars => BuilderKept'
<1> SUFFICES ASSUME TypeOK', CountsAreOfPaths', BuilderKept, [BNext]_bvars PROVE BuilderKept'
  OBVIOUS
<1>1. CASE BBefore
  BY <1>1 DEF BBefore, BuilderKept
<1>2. ASSUME NEW i \in Intervals, BNew(i) PROVE BuilderKept'
  <2>1. builder' = NewBuilder(i)
    BY <1>2 DEF BNew
  <2> QED
    BY <2>1, NewBuilderKept DEF BuilderKept
<1>3. ASSUME NEW p \in Paths, BAddPath(p) PROVE BuilderKept'
  <2>1. /\ IsBuilder(builder) /\ NodesAreOfPoints(builder)
        /\ builder' = Counted(builder, tracker')
    BY <1>3 DEF BAddPath, BuilderKept
  <2>2. tracker' \in Trackers
    BY TrackerIsBounded DEF TypeOK, CountsAreOfPaths
  <2> QED
    BY <2>1, <2>2, CountedKeeps DEF BuilderKept
<1>4. CASE UNCHANGED bvars
  BY <1>4 DEF bvars, vars, BuilderKept
<1> QED
  BY <1>1, <1>2, <1>3, <1>4 DEF BNext

(* What the moments of a node say, read at its data points. *)
MomentsRead(m, points, n) ==
  LET at == Reporting(points, n)
      f == KlSeries(points, n)
  IN  /\ DOMAIN points = 1..Len(points) /\ IsFiniteSet(at) /\ at \subseteq 1..Len(points)
      /\ m.count = Cardinality(at) /\ m.kl1 = SumFunctionOnSet(f, at)
      /\ m.max1 \in Nat /\ m.max2 \in Nat /\ (m.max1 = 0 \/ m.max2 < m.max1)
      /\ m.min1 \in Int /\ m.min1 <= 0
      /\ \A k \in 1..Len(points) :
           /\ KlAt(points[k], n) \in Nat /\ f[k] = KlAt(points[k], n)
           /\ MllAt(points[k], n) \in Int
           /\ k \notin at => KlAt(points[k], n) = 0 /\ MllAt(points[k], n) = 0
           /\ k \in at => /\ KlAt(points[k], n) = points[k].nodes[n].kl
                          /\ MllAt(points[k], n) = points[k].nodes[n].mll
           /\ KlAt(points[k], n) <= m.max1 /\ m.min1 <= MllAt(points[k], n)
      /\ m.max1 # 0 => \E k \in at : KlAt(points[k], n) = m.max1

LEMMA MomentsAre ==
  ASSUME NEW m, NEW points \in Seq(Points), NEW n, MomentsOf(m, points, n)
  PROVE  MomentsRead(m, points, n)
<1> DEFINE at == Reporting(points, n)
           f == KlSeries(points, n)
<1>1. /\ DOMAIN points = 1..Len(points) /\ Len(points) \in Nat
      /\ \A k \in 1..Len(points) : points[k] \in Points
  OBVIOUS
<1>2. \A k : k \in at <=> k \in 1..Len(points) /\ n \in DOMAIN points[k].nodes
  BY DEF Reporting
<1>3. at \subseteq 1..Len(points) /\ IsFiniteSet(at)
  <2>1. at \in SUBSET (1..Len(points)) /\ IsFiniteSet(1..Len(points))
    BY <1>1, <1>2, FS_Interval
  <2> HIDE DEF at
  <2> QED
    BY <2>1, FS_Subset
<1>4. /\ m.count = Cardinality(at) /\ m.kl1 = SumFunctionOnSet(f, at)
      /\ m.max1 \in Nat /\ m.max2 \in Nat /\ (m.max1 = 0 \/ m.max2 < m.max1)
      /\ m.min1 \in Int /\ m.min1 <= 0
      /\ \A k \in at : points[k].nodes[n].kl <= m.max1 /\ m.min1 <= points[k].nodes[n].mll
      /\ m.max1 # 0 => \E k \in at : points[k].nodes[n].kl = m.max1
  BY DEF MomentsOf
<1>5. \A k \in 1..Len(points) : f[k] = KlAt(points[k], n)
  BY DEF KlSeries
<1> HIDE DEF at, f
<1>6. \A k \in at : /\ KlAt(points[k], n) = points[k].nodes[n].kl
                    /\ MllAt(points[k], n) = points[k].nodes[n].mll
                    /\ points[k].nodes[n].kl \in Nat /\ points[k].nodes[n].mll \in Int
  BY <1>1, <1>2, PointsAre DEF KlAt, MllAt
<1>7. \A k \in 1..Len(points) : k \notin at => KlAt(points[k], n) = 0 /\ MllAt(points[k], n) = 0
  BY <1>2 DEF KlAt, MllAt
<1>8. ASSUME NEW k \in 1..Len(points)
      PROVE  /\ KlAt(points[k], n) \in Nat /\ MllAt(points[k], n) \in Int
             /\ KlAt(points[k], n) <= m.max1 /\ m.min1 <= MllAt(points[k], n)
  <2>1. CASE k \in at
    <3>1. /\ KlAt(points[k], n) = points[k].nodes[n].kl
          /\ MllAt(points[k], n) = points[k].nodes[n].mll
          /\ points[k].nodes[n].kl \in Nat /\ points[k].nodes[n].mll \in Int
          /\ points[k].nodes[n].kl <= m.max1 /\ m.min1 <= points[k].nodes[n].mll
      BY <2>1, <1>4, <1>6
    <3> QED
      BY <3>1
  <2>2. CASE k \notin at
    BY <2>2, <1>4, <1>7
  <2> QED
    BY <2>1, <2>2
<1>9. m.max1 # 0 => \E k \in at : KlAt(points[k], n) = m.max1
  BY <1>4, <1>6
<1> QED
  BY <1>1, <1>3, <1>4, <1>5, <1>6, <1>7, <1>8, <1>9 DEF MomentsRead, at, f

LEMMA BaselineReports ==
  ASSUME NodesAreOfPoints(builder), JustTaken(builder, tracker), tracker \in Trackers
  PROVE  BaselineIsOfPoints
<1> DEFINE points == builder.points
           at(n) == Reporting(points, n)
<1>1. /\ points \in Seq(Points) /\ DOMAIN points = 1..Len(points)
      /\ DOMAIN builder.nodes = {n \in TreeNode : at(n) # {}}
      /\ \A n \in TreeNode : MomentsOf(MomentsAt(builder, n), points, n)
  BY DEF NodesAreOfPoints
<1>2. ASSUME NEW n \in DOMAIN builder.nodes
      PROVE  /\ {k \in DOMAIN points : n \in DOMAIN points[k].nodes} = at(n)
             /\ Stats(builder.nodes[n]).of = Cardinality(at(n))
             /\ Stats(builder.nodes[n]).klSum = SumOver(at(n), LAMBDA k : KlAt(points[k], n))
             /\ Stats(builder.nodes[n]).maxKl = Max({KlAt(points[k], n) : k \in at(n)})
  <2> DEFINE m == builder.nodes[n]
             f == KlSeries(points, n)
             g == [k \in at(n) |-> KlAt(points[k], n)]
             T == {KlAt(points[k], n) : k \in at(n)}
  <2>1. n \in TreeNode /\ at(n) # {} /\ MomentsOf(m, points, n)
    BY <1>1 DEF MomentsAt
  <2>2. {k \in DOMAIN points : n \in DOMAIN points[k].nodes} = at(n)
    BY <1>1 DEF Reporting
  <2> HIDE DEF points, m
  <2>3. /\ IsFiniteSet(at(n)) /\ at(n) \subseteq 1..Len(points)
        /\ m.count = Cardinality(at(n)) /\ m.kl1 = SumFunctionOnSet(f, at(n))
        /\ m.max1 \in Nat
        /\ \A k \in 1..Len(points) : /\ KlAt(points[k], n) \in Nat /\ f[k] = KlAt(points[k], n)
                                     /\ KlAt(points[k], n) <= m.max1
        /\ m.max1 # 0 => \E k \in at(n) : KlAt(points[k], n) = m.max1
    <3>1. MomentsRead(m, points, n)
      BY <1>1, <2>1, MomentsAre
    <3> QED
      BY <3>1 DEF MomentsRead
  <2> HIDE DEF f, at
  <2>4. SumFunctionOnSet(f, at(n)) = SumFunctionOnSet(g, at(n))
    <3>1. \A k \in at(n) : f[k] = g[k]
      BY <2>3
    <3> HIDE DEF g
    <3> QED
      BY <3>1, <2>3, SumOfSame
  <2>5. SumOver(at(n), LAMBDA k : KlAt(points[k], n)) = SumFunctionOnSet(g, at(n))
    BY DEF SumOver, SumFunction
  <2>6. Max(T) \in T /\ \A x \in T : Max(T) >= x
    <3>1. T \in SUBSET Int /\ T # {}
      BY <2>1, <2>3
    <3>2. IsFiniteSet(T)
      <4>1. T = {g[k] : k \in at(n)} /\ DOMAIN g = at(n)
        OBVIOUS
      <4> HIDE DEF g, T
      <4> QED
        BY <4>1, <2>3, FiniteImage
    <3> HIDE DEF T
    <3> QED
      BY <3>1, <3>2, MaxOfIntegers
  <2>7. m.max1 \in T /\ \A x \in T : x \in Nat /\ x <= m.max1
    <3>1. \A k \in at(n) : KlAt(points[k], n) \in Nat /\ KlAt(points[k], n) <= m.max1
      BY <2>3
    <3>2. \E k \in at(n) : KlAt(points[k], n) = m.max1
      <4>1. PICK k \in at(n) : TRUE
        BY <2>1
      <4>2. KlAt(points[k], n) \in Nat /\ KlAt(points[k], n) <= m.max1
        BY <3>1
      <4>3. m.max1 = 0 => KlAt(points[k], n) = m.max1
        BY <4>2, <2>3
      <4> QED
        BY <4>3, <2>3
    <3> QED
      BY <3>1, <3>2
  <2>8. Max(T) = m.max1
    <3> HIDE DEF T
    <3> QED
      BY <2>6, <2>7
  <2>9. Stats(m).of = m.count /\ Stats(m).klSum = m.kl1 /\ Stats(m).maxKl = m.max1
    BY DEF Stats
  <2> QED
    BY <2>2, <2>3, <2>4, <2>5, <2>8, <2>9 DEF m, points
<1>3. builder.count > 0 /\ builder.count % builder.interval = 0 =>
        KlStats(tracker).moment1 =
          SumOver(TreeNode, LAMBDA n : KlAt(builder.points[Len(builder.points)], n))
  <2> SUFFICES ASSUME builder.count > 0 /\ builder.count % builder.interval = 0
               PROVE  KlStats(tracker).moment1 =
                        SumOver(TreeNode, LAMBDA n : KlAt(builder.points[Len(builder.points)], n))
    OBVIOUS
  <2>1. builder.points[Len(builder.points)] = Small(tracker)
    BY DEF JustTaken
  <2>2. KlStats(tracker).moment1 = SumOver(TreeNode, LAMBDA n : KlAt(Small(tracker), n))
    BY SmallSum
  <2> QED
    BY <2>1, <2>2
<1> QED
  BY <1>2, <1>3 DEF BaselineIsOfPoints

(* A point that alone diverges most is found: it has set the largest, and  *)
(* so the second largest is below it.  One that others exceed on both      *)
(* counts is below the largest and above the least, and these are others'. *)
LEMMA OutliersAreLeftOut ==
  ASSUME NodesAreOfPoints(builder)
  PROVE  LeaveOneOut
<1> DEFINE points == builder.points
<1>1. /\ points \in Seq(Points) /\ DOMAIN points = 1..Len(points)
      /\ DOMAIN builder.nodes = {n \in TreeNode : Reporting(points, n) # {}}
      /\ \A n \in TreeNode : MomentsOf(MomentsAt(builder, n), points, n)
  BY DEF NodesAreOfPoints
<1>0. ~LooPanics(builder)
  <2> SUFFICES ASSUME NEW k \in DOMAIN points, NEW n \in DOMAIN points[k].nodes
               PROVE  points[k].nodes[n].mll \in Int /\ points[k].nodes[n].mll <= 0
    BY DEF LooPanics
  <2>1. points[k] \in Points
    BY <1>1
  <2> QED
    BY <2>1, PointsAre
<1> SUFFICES ASSUME NEW k \in DOMAIN points, NEW n \in DOMAIN points[k].nodes
             PROVE  LET d == points[k]
                        others == {points[j] : j \in DOMAIN points \ {k}}
                    IN /\ builder.nodes[n].count > 1 /\ (\A o \in others : KlAt(o, n) < KlAt(d, n))
                            => <<k, n>> \in Violators(builder)
                       /\ (\E o \in others : KlAt(o, n) > KlAt(d, n)) /\ (\E o \in others : MllAt(o, n) < MllAt(d, n))
                            => <<k, n>> \notin Violators(builder)
  BY <1>0 DEF LeaveOneOut
<1> DEFINE at == Reporting(points, n)
           m == builder.nodes[n]
           d == points[k].nodes[n]
           sans == StatsSans(m, d)
           kl(j) == KlAt(points[j], n)
           mll(j) == MllAt(points[j], n)
<1>2. k \in 1..Len(points) /\ points[k] \in Points
  BY <1>1
<1>3. n \in TreeNode
  BY <1>2, PointsAre
<1>4. k \in at
  BY <1>2 DEF Reporting
<1>5. n \in DOMAIN builder.nodes /\ MomentsAt(builder, n) = m
  BY <1>1, <1>3, <1>4 DEF MomentsAt
<1>6. <<k, n>> \in Violators(builder) <=> m.count > 1 /\ (d.kl > sans.maxKl \/ d.mll < sans.minMll)
  <2>1. k \in DOMAIN builder.points /\ n \in TreeNode /\ n \in DOMAIN builder.points[k].nodes
    BY <1>3
  <2> QED
    BY <2>1 DEF Violators
<1>7. /\ sans.maxKl = IF m.max1 = d.kl THEN m.max2 ELSE m.max1
      /\ sans.minMll = IF m.min1 = d.mll THEN m.min2 ELSE m.min1
  BY DEF StatsSans
<1> HIDE DEF points, m, sans
<1>8. /\ IsFiniteSet(at) /\ at \subseteq 1..Len(points) /\ m.count = Cardinality(at)
      /\ m.max1 \in Nat /\ m.max2 \in Nat /\ (m.max1 = 0 \/ m.max2 < m.max1)
      /\ m.min1 \in Int /\ m.min1 <= 0
      /\ \A j \in 1..Len(points) : /\ kl(j) \in Nat /\ mll(j) \in Int
                                   /\ kl(j) <= m.max1 /\ m.min1 <= mll(j)
      /\ m.max1 # 0 => \E j \in at : kl(j) = m.max1
      /\ kl(k) = d.kl /\ mll(k) = d.mll
  <2>1. MomentsOf(m, points, n)
    BY <1>1, <1>3, <1>5
  <2>2. MomentsRead(m, points, n)
    BY <2>1, <1>1, MomentsAre
  <2> QED
    BY <2>2, <1>2, <1>4 DEF MomentsRead
<1>9. ASSUME m.count > 1, \A j \in DOMAIN points \ {k} : kl(j) < kl(k)
      PROVE  d.kl > sans.maxKl
  <2>1. \E j \in at : j # k
    <3> SUFFICES ASSUME \A j \in at : j = k PROVE FALSE
      OBVIOUS
    <3>1. at = {k}
      BY <1>4
    <3> HIDE DEF at
    <3>2. Cardinality(at) = 1
      BY <3>1, FS_Singleton
    <3> QED
      BY <3>2, <1>8, <1>9
  <2>2. \A j \in 1..Len(points) : j # k => kl(j) < kl(k)
    BY <1>1, <1>9
  <2> HIDE DEF at, kl, mll, d
  <2>3. PICK i \in at : i # k
    BY <2>1
  <2>4. kl(k) > 0
    BY <2>2, <2>3, <1>2, <1>8
  <2>5. kl(k) <= m.max1 /\ kl(k) \in Nat
    BY <1>2, <1>8
  <2>6. PICK j \in at : kl(j) = m.max1
    BY <2>4, <2>5, <1>8
  <2>7. j = k
    BY <2>2, <2>5, <2>6, <1>8
  <2> QED
    BY <2>4, <2>6, <2>7, <1>7, <1>8
<1>10. ASSUME NEW i \in DOMAIN points, kl(i) > kl(k), NEW j \in DOMAIN points, mll(j) < mll(k)
       PROVE  ~(d.kl > sans.maxKl) /\ ~(d.mll < sans.minMll)
  <2>1. i \in 1..Len(points) /\ j \in 1..Len(points)
    BY <1>1
  <2> HIDE DEF at, kl, mll, d
  <2>2. /\ kl(i) \in Nat /\ kl(k) \in Nat /\ kl(i) <= m.max1
        /\ mll(j) \in Int /\ mll(k) \in Int /\ m.min1 <= mll(j)
    BY <2>1, <1>2, <1>8
  <2> QED
    BY <2>2, <1>10, <1>7, <1>8
<1> DEFINE others == {points[j] : j \in DOMAIN points \ {k}}
<1>11. m.count > 1 /\ (\A o \in others : KlAt(o, n) < KlAt(points[k], n)) => <<k, n>> \in Violators(builder)
  <2> SUFFICES ASSUME m.count > 1, \A o \in others : KlAt(o, n) < KlAt(points[k], n)
               PROVE  <<k, n>> \in Violators(builder)
    OBVIOUS
  <2>1. \A j \in DOMAIN points \ {k} : kl(j) < kl(k)
    OBVIOUS
  <2>2. d.kl > sans.maxKl
    <3> HIDE DEF kl, d
    <3> QED
      BY <2>1, <1>9
  <2> QED
    BY <2>2, <1>6
<1>12. (\E o \in others : KlAt(o, n) > KlAt(points[k], n))
         /\ (\E o \in others : MllAt(o, n) < MllAt(points[k], n)) => <<k, n>> \notin Violators(builder)
  <2> SUFFICES ASSUME NEW o1 \in others, KlAt(o1, n) > KlAt(points[k], n),
                      NEW o2 \in others, MllAt(o2, n) < MllAt(points[k], n)
               PROVE  <<k, n>> \notin Violators(builder)
    OBVIOUS
  <2>1. PICK i \in DOMAIN points : o1 = points[i]
    OBVIOUS
  <2>2. PICK j \in DOMAIN points : o2 = points[j]
    OBVIOUS
  <2>3. kl(i) > kl(k) /\ mll(j) < mll(k)
    BY <2>1, <2>2
  <2> HIDE DEF kl, mll, d
  <2>4. ~(d.kl > sans.maxKl) /\ ~(d.mll < sans.minMll)
    BY <2>3, <1>10
  <2> QED
    BY <2>4, <1>6
<1> QED
  BY <1>11, <1>12 DEF points, m

(* A baseline keeps of its data points only sums, counts and two extremes  *)
(* (baseline.rs): these are the points' own, and leaving one out by them   *)
(* finds a point that alone diverges most and spares one that others       *)
(* exceed, for every tree, sequence of paths and window.                   *)
THEOREM OutliersStandOut == BSpec => []OutliersAreFound
<1>1. BInit => BuilderKept
  BY DEF BInit, BuilderKept
<1>2. IInv => TypeOK
  BY DEF IInv
<1>3. TypeOK /\ CountsAreOfPaths /\ BuilderKept => OutliersAreFound
  <2> SUFFICES ASSUME TypeOK, CountsAreOfPaths, BuilderKept, builder # NoBuilder
               PROVE  BaselineIsOfPoints /\ LeaveOneOut
    BY DEF OutliersAreFound
  <2>1. NodesAreOfPoints(builder) /\ JustTaken(builder, tracker)
    BY DEF BuilderKept
  <2>2. tracker \in Trackers
    BY TrackerIsBounded DEF TypeOK, CountsAreOfPaths
  <2> QED
    BY <2>1, <2>2, BaselineReports, OutliersAreLeftOut
<1> QED
  BY <1>1, <1>2, <1>3, InitIInv, NextIInv, InitCounts, NextCounts, NextBuilder, BuildersRefine,
     PTL DEF BSpec, Spec

=============================================================================
