---------------------------- MODULE TrackerWindow ----------------------------
(***************************************************************************)
(* One tracker over its life: paths are added, and its owner may go on     *)
(* with a clone that has another window (BayesCovertree::add_path,         *)
(* clone_new_window).                                                      *)
(***************************************************************************)
EXTENDS Tracker, FiniteSetsExt

CONSTANTS
  Windows,    \* window sizes, 0 for no window
  NewWindows, \* the windows a clone may be given
  MaxPaths    \* the paths added

ASSUME WindowsAssumption ==
  Windows \subseteq Nat /\ NewWindows \subseteq Nat /\ MaxPaths \in Nat

VARIABLES
  tracker,
  added,      \* history: every path that was added, in order
  cloned      \* history: whether the window has been changed

vars == <<tracker, added, cloned>>

Init ==
  /\ \E w \in Windows : tracker = NewTracker(w)
  /\ added = <<>>
  /\ cloned = FALSE

Add(p) ==
  /\ Len(added) < MaxPaths
  /\ ~Panics(p)
  /\ tracker' = AddPath(tracker, p)
  /\ added' = Append(added, p)
  /\ UNCHANGED cloned

NewWindow(w) ==
  /\ tracker' = CloneNewWindow(tracker, w)
  /\ cloned' = TRUE
  /\ UNCHANGED added

Next == (\E p \in Paths : Add(p)) \/ (\E w \in NewWindows : NewWindow(w))

Spec == Init /\ [][Next]_vars

-----------------------------------------------------------------------------
(* The tracker keeps its type: counts are never negative, and the queue is *)
(* within the window.                                                      *)
TypeOK ==
  /\ tracker \in BayesCovertree
  /\ added \in Seq(Paths) /\ cloned \in BOOLEAN
  /\ ~cloned /\ tracker.window # 0 => Len(tracker.queue) <= tracker.window

InWindow(k) == tracker.window = 0 \/ k + tracker.window > Len(added)

(* The counts are those of the paths in the window, and of no others: the  *)
(* last window_size that were added, or all of them without a window.      *)
PosteriorIsWindow ==
  ~cloned =>
    /\ \A b \in Bucket : tracker.observations[b] =
         Cardinality({k \in DOMAIN added : InWindow(k) /\ b \in StepsOf(added[k])})
    /\ tracker.overallTotal = Cardinality({k \in DOMAIN added : InWindow(k)})

(* Whatever the windows were: every path counted into a node is counted    *)
(* out of it or ends there, and the totals and the overall tracker agree.  *)
FlowIsConserved ==
  \A n \in TreeNode :
    LET out == SumFunctionOnSet(tracker.observations, {n} \X (TreeNode \cup {Singleton}))
        in == IF n = TreeRoot THEN tracker.overallTotal
              ELSE SumFunctionOnSet(tracker.observations, TreeNode \X {n})
    IN /\ in = out
       /\ tracker.total[n] = out
       /\ tracker.overall[n] = tracker.observations[<<n, Singleton>>]

=============================================================================
