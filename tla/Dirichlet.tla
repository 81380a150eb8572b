------------------------------ MODULE Dirichlet ------------------------------
(***************************************************************************)
(* Dirichlet and categorical distributions over node addresses, and the    *)
(* tracker that keeps a Dirichlet's posterior (stats_goko/src/discrete).   *)
(* What is computed from counts is a sum of values of ln_gamma and digamma *)
(* at whole numbers, two tables here (stats_consts.rs has them for small   *)
(* arguments): everything but the rounding of reals is kept.               *)
(***************************************************************************)
EXTENDS ParameterStore

CONSTANTS LnGamma, Digamma, Ln, None

SumOver(S, f(_)) == SumFunction([x \in S |-> f(x)])
NotBelowZero(x) == IF x < 0 THEN 0 ELSE x
Places(s) == DOMAIN s.values

AddObservation(prior, loc) == [AddValue(prior, loc, 1) EXCEPT !.total = prior.total + 1]

AddObservations(prior, data) ==
  FoldLeft(LAMBDA s, p : AddValue(s, p[1], p[2]),
           [prior EXCEPT !.total = @ + data.total], Iter(data))

(* KL(prior || posterior) from the evidence alone: only the buckets that   *)
(* were observed contribute, and each must have a prior.                   *)
PosteriorKlDiv(prior, data) ==
  LET alpha(p) == Get(prior, p[1], 0)
      total == prior.total
      sum == SumOver(ToSet(Iter(data)),
               LAMBDA p : LnGamma[p[2] + alpha(p)] - LnGamma[alpha(p)]
                          - p[2] * (Digamma[alpha(p)] - Digamma[total]))
  IN IF \E p \in ToSet(Iter(data)) : alpha(p) = 0 THEN None
     ELSE NotBelowZero(LnGamma[total] - LnGamma[data.total + total] + sum)

(* A bucket's part in the divergence of two Dirichlets. *)
KlTerm(a, b, total) == LnGamma[b] - LnGamma[a] + (a - b) * (Digamma[a] - Digamma[total])

(* Both zip the values in order: the addresses must be the same. *)
SupportedKlDiv(p, q) ==
  IF p.indexes # q.indexes \/ p.hashed # q.hashed \/ p.total = 0
     \/ \E j \in Places(p) : p.values[j] = 0 THEN None
  ELSE NotBelowZero(LnGamma[p.total] - LnGamma[SumOver(Places(p), LAMBDA j : q.values[j])]
         + SumOver(Places(p), LAMBDA j : KlTerm(p.values[j], q.values[j], p.total)))

KlDiv(p, q) ==
  LET both == DoubleIter(p, q)
  IN IF p.total = 0 \/ \E j \in DOMAIN both : both[j][2] = 0 /\ both[j][3] > 0 THEN None
     ELSE NotBelowZero(LnGamma[p.total] - LnGamma[SumOver(DOMAIN both, LAMBDA j : both[j][3])]
            + SumOver(DOMAIN both, LAMBDA j : KlTerm(both[j][2], both[j][3], p.total)))

LnLikelihood(prior, data) ==
  IF prior.indexes # data.indexes \/ prior.hashed # data.hashed \/ prior.total = 0 THEN None
  ELSE LnGamma[prior.total] + LnGamma[data.total + 1] - LnGamma[data.total + prior.total]
       + SumOver({j \in Places(prior) : data.values[j] > 0},
           LAMBDA j : LnGamma[prior.values[j] + data.values[j]] - LnGamma[prior.values[j]]
                      - LnGamma[data.values[j] + 1])

(* Categorical: divergences times the two totals, which keeps them whole.  *)
LnTotals(p, q) == Ln[p.total] - Ln[q.total]
CatTerm(a, b, p, q) == a * (Ln[a] - Ln[b] - LnTotals(p, q))

CatSupportedKlDiv(p, q) ==
  IF p.total = 0 \/ q.total = 0 \/ Len(p.values) # Len(q.values) \/ p.indexes # q.indexes
     \/ \E j \in Places(p) : p.values[j] = 0 THEN None
  ELSE SumOver(Places(p), LAMBDA j : CatTerm(p.values[j], q.values[j], p, q))

CatKlDiv(p, q) ==
  LET both == DoubleIter(p, q)
  IN IF p.total = 0 \/ q.total = 0 \/ \E j \in DOMAIN both : both[j][2] = 0 /\ both[j][3] > 0
     THEN None
     ELSE SumOver(DOMAIN both, LAMBDA j : CatTerm(both[j][2], both[j][3], p, q))

(* Categorical::sample and Dirichlet::marginal_sample, for the drawn       *)
(* number: the first address at which the counts have passed it.           *)
SampledAt(s, drawn) ==
  LET passed == {j \in Places(s) : drawn < SumOver(1..j, LAMBDA i : s.values[i])}
  IN IF passed = {} THEN None ELSE s.indexes[CHOOSE j \in passed : \A i \in passed : j <= i]

-----------------------------------------------------------------------------
(* DirichletTracker.  Its sums are kept up to date bucket by bucket.       *)
NewEntry(alpha) ==
  [alpha |-> alpha, observations |-> 0, digamma |-> Digamma[alpha], lnGamma |-> LnGamma[alpha],
   mll |-> 0, kl |-> 0]

EmptyTracker(totalAlpha, numBuckets) ==
  [store |-> NewParams, totalAlpha |-> totalAlpha, sparseAlpha |-> 0, observed |-> 0,
   kl |-> 0, klConst |-> 0, mll |-> 0, mllConst |-> 0, buckets |-> numBuckets,
   digammaTotal |-> Digamma[totalAlpha], lnGammaTotal |-> LnGamma[totalAlpha]]

TrackerOf(prior) ==
  [EmptyTracker(prior.total, Len(prior.values)) EXCEPT
     !.sparseAlpha = prior.total,
     !.store = [prior EXCEPT !.values = [j \in Places(prior) |-> NewEntry(prior.values[j])],
                             !.total = 0]]

(* The asserts of set_alpha: a prior is set once, unless it was zero, and  *)
(* the priors stay within the total that was announced.                    *)
CanSetAlpha(t, loc, alpha) ==
  LET at == IndexToUpdate(t.store, loc)
      old == IF at = 0 THEN 0 ELSE t.store.values[at].alpha
  IN old \in {0, alpha} /\ t.sparseAlpha + alpha - old <= t.totalAlpha

SetAlpha(t, loc, alpha) ==
  LET at == IndexToUpdate(t.store, loc)
  IN IF at = 0
     THEN [t EXCEPT !.sparseAlpha = @ + alpha, !.store = InsertLoc(@, loc, NewEntry(alpha))]
     ELSE [t EXCEPT !.sparseAlpha = @ + alpha - t.store.values[at].alpha,
                    !.store.values[at] = [@ EXCEPT !.alpha = alpha, !.digamma = Digamma[alpha]]]

(* Mutant: a bucket that is empty again keeps its part. *)
UpdateKeepsLast(e, change, digammaTotal) ==
  LET n == e.observations + change
      lng == LnGamma[e.alpha + n] - e.lnGamma
  IN IF n > 0
     THEN [e EXCEPT !.observations = n,
                    !.mll = lng - LnGamma[n + 1],
                    !.kl = lng - n * (e.digamma - digammaTotal)]
     ELSE [e EXCEPT !.observations = 0]

UpdateEntry(e, change, digammaTotal) ==
  LET n == e.observations + change
      lng == LnGamma[e.alpha + n] - e.lnGamma
  IN IF n > 0
     THEN [e EXCEPT !.observations = n,
                    !.mll = lng - LnGamma[n + 1],
                    !.kl = lng - n * (e.digamma - digammaTotal)]
     ELSE [e EXCEPT !.observations = 0, !.mll = 0, !.kl = 0]

IncObservation(t, loc, change) ==
  LET at == Index(t.store, loc)
      old == t.store.values[at]
      new == UpdateEntry(old, change, t.digammaTotal)
      observed == t.observed + change
      lng == LnGamma[observed + t.totalAlpha]
      mllConst == t.lnGammaTotal + LnGamma[observed + 1] - lng
      klConst == t.lnGammaTotal - lng
  IN [t EXCEPT
        !.store.values[at] = new, !.observed = observed,
        !.mllConst = mllConst, !.klConst = klConst,
        !.kl = @ - (t.klConst + old.kl) + klConst + new.kl,
        !.mll = @ - (t.mllConst + old.mll) + mllConst + new.mll]
=============================================================================
