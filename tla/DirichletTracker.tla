--------------------------- MODULE DirichletTracker ---------------------------
(***************************************************************************)
(* Counts are collected (DiscreteData), become a prior (Dirichlet), and    *)
(* the prior is followed by a tracker, made from it whole or bucket by     *)
(* bucket.  From then on data is the evidence: every observation that the  *)
(* tracker is told of, and those taken back, collected beside it.          *)
(***************************************************************************)
EXTENDS Dirichlet

CONSTANTS
  MaxTotal,  \* bound: what is collected before, and after, there is a tracker
  Merged     \* pairs of address and count that may be merged in one call

ASSUME TrackerAssumption ==
  /\ MaxTotal \in Nat /\ Merged \subseteq Seq(Loc \X Nat) /\ None \notin Loc
  /\ \A table \in {LnGamma, Digamma, Ln} : \A n \in 1..2*MaxTotal + 1 : table[n] \in Int

VARIABLES
  data,    \* DiscreteData
  prior,   \* Dirichlet, or None before there is one
  tracker  \* DirichletTracker, or None before there is one

vars == <<data, prior, tracker>>

Init == data = NewParams /\ prior = None /\ tracker = None

AddData(loc, n) ==
  /\ tracker = None /\ data.total + n <= MaxTotal
  /\ data' = AddPop(data, loc, n)
  /\ UNCHANGED <<prior, tracker>>

RemoveData(loc, n) ==
  /\ tracker = None
  /\ data' = RemovePop(data, loc, n)
  /\ UNCHANGED <<prior, tracker>>

MergeData(pairs) ==
  /\ tracker = None /\ data.total + FromPairs(pairs).total <= MaxTotal
  /\ data' = Merge(data, FromPairs(pairs))
  /\ UNCHANGED <<prior, tracker>>

(* A Dirichlet takes the data over.  No count is zero: the plugin of a     *)
(* node adds one to each.                                                  *)
MakePrior ==
  /\ prior = None /\ data.total > 0 /\ \A j \in Places(data) : data.values[j] > 0
  /\ prior' = data
  /\ data' = NewParams
  /\ UNCHANGED tracker

ObservePrior(loc) ==
  /\ prior # None /\ tracker = None /\ prior.total < MaxTotal
  /\ prior' = AddObservation(prior, loc)
  /\ UNCHANGED <<data, tracker>>

StartTracker ==
  /\ prior # None /\ tracker = None
  /\ tracker' = TrackerOf(prior)
  /\ data' = NewParams
  /\ UNCHANGED prior

StartSparse ==
  /\ prior # None /\ tracker = None
  /\ tracker' = EmptyTracker(prior.total, Len(prior.values))
  /\ data' = NewParams
  /\ UNCHANGED prior

SetPrior(loc) ==
  /\ tracker # None /\ Holds(prior, loc) /\ ~Holds(tracker.store, loc)
  /\ CanSetAlpha(tracker, loc, ValueOf(prior, loc))
  /\ tracker' = SetAlpha(tracker, loc, ValueOf(prior, loc))
  /\ UNCHANGED <<data, prior>>

(* inc_observation panics at an address without a prior. *)
Observe(loc, n) ==
  /\ tracker # None /\ Index(tracker.store, loc) # 0 /\ data.total + n <= MaxTotal
  /\ tracker' = IncObservation(tracker, loc, n)
  /\ data' = AddPop(data, loc, n)
  /\ UNCHANGED prior

(* Only what was observed is taken back (a debug_assert of update). *)
Forget(loc) ==
  /\ tracker # None /\ Get(data, loc, 0) > 0
  /\ tracker' = IncObservation(tracker, loc, -1)
  /\ data' = RemovePop(data, loc, 1)
  /\ UNCHANGED prior

Next ==
  \/ \E loc \in Loc, n \in 1..2 : AddData(loc, n) \/ RemoveData(loc, n) \/ Observe(loc, n)
  \/ \E pairs \in Merged : MergeData(pairs)
  \/ \E loc \in Loc : ObservePrior(loc) \/ SetPrior(loc) \/ Forget(loc)
  \/ MakePrior \/ StartTracker \/ StartSparse

Spec == Init /\ [][Next]_vars

-----------------------------------------------------------------------------
(* The sorted addresses, their values, the table of positions that may     *)
(* stand in for a search, and the total are together one count per address *)
(* and the sum: every operation of DiscreteData is one of theirs.          *)
Abstract == INSTANCE DiscreteCounts
  WITH Amounts <- 1..2,
       Others <- {[l \in Loc |-> Get(FromPairs(pairs), l, 0)] : pairs \in Merged},
       counts <- [l \in Loc |-> Get(data, l, 0)], total <- data.total
DataIsCounts == Abstract!Spec

(* The divergence and the likelihood that the tracker keeps up to date     *)
(* bucket by bucket are those of the prior and of all the evidence at      *)
(* once, whatever was observed and taken back in between.                  *)
IncrementalIsBatch ==
  tracker # None =>
    /\ NotBelowZero(tracker.kl) = PosteriorKlDiv(prior, data)
    /\ LET likelihood == LnLikelihood(prior, data)
       IN likelihood # None => tracker.mll = likelihood

(* The three ways to KL(prior || posterior) agree: from the evidence, from *)
(* the two distributions, and from the two zipped if they have the same    *)
(* addresses.  So do the two of a Categorical.  (An address emptied again  *)
(* that has no prior is left out: kl_div has no number there.)             *)
DivergencesAgree ==
  prior # None /\ (\A j \in Places(data) : data.values[j] > 0 \/ Holds(prior, data.indexes[j])) =>
    LET posterior == AddObservations(prior, data)
        zipped == SupportedKlDiv(prior, posterior)
        categorical == CatSupportedKlDiv(posterior, prior)
    IN /\ KlDiv(prior, posterior) = PosteriorKlDiv(prior, data)
       /\ zipped # None => zipped = KlDiv(prior, posterior)
       /\ categorical # None => categorical = CatKlDiv(posterior, prior)

(* A sample over the total finds an address, and each address in as many   *)
(* of the draws as it counts: values and total never disagree.             *)
SampleFollowsCounts ==
  \A s \in {data} \cup ({prior} \ {None}) :
    /\ \A drawn \in 0..s.total - 1 : SampledAt(s, drawn) # None
    /\ \A j \in Places(s) :
         Cardinality({drawn \in 0..s.total - 1 : SampledAt(s, drawn) = s.indexes[j]}) = s.values[j]
=============================================================================
