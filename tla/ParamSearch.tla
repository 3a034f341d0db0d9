----------------------------- MODULE ParamSearch -----------------------------
(***************************************************************************)
(* What the optimizer and the sensitivity test share: the values a         *)
(* parameter can take, how they are drawn, and how samples are ranked      *)
(* (optimizer/sampler.rs, param_extractor.rs, optimizer_core.rs).          *)
(*                                                                         *)
(* Values are whole numbers of a small unit, One of which make 1.  A       *)
(* dimension is a parameter marked for optimization: [min, max, step,      *)
(* dtype].  A sample is [values, metric], a metric a number or NaN.        *)
(* Logarithmic parameters, whose strata and noise are drawn on another     *)
(* scale, are left out.                                                    *)
(***************************************************************************)
EXTENDS Pipeline, Functions, TLC

CONSTANT One

Nearest(a, b) == IF a >= 0 THEN (2 * a + b) \div (2 * b) ELSE -((b - 2 * a) \div (2 * b))

Quantized(v, dim) ==
  LET raw == IF dim.step > 0 THEN Nearest(v, dim.step) * dim.step ELSE v
  IN  CASE dim.dtype = "integer" -> Nearest(raw, One) * One
        [] dim.dtype = "boolean" -> IF 2 * raw >= One THEN One ELSE 0
        [] OTHER -> raw

(* The values a sample is evaluated with, and handed out as: they are      *)
(* quantized once more as they are set.                                    *)
Applied(dims, values) == [d \in DOMAIN dims |-> Quantized(values[d], dims[d])]
-----------------------------------------------------------------------------
(* Drawing                                                                 *)

Within(dim) == {Quantized(v, dim) : v \in dim.min..dim.max}
Inside(dims) == [d \in DOMAIN dims |-> Within(dims[d])]

(* The i-th of n equal parts of the range.                                 *)
Stratum(dim, i, n) ==
  {v \in dim.min..dim.max :
     \/ dim.min = dim.max
     \/ /\ (i - 1) * (dim.max - dim.min) <= (v - dim.min) * n
        /\ (v - dim.min) * n < i * (dim.max - dim.min)}

(* One value for each dimension, out of its set.                           *)
Tuples(sets) ==
  {t \in [DOMAIN sets -> UNION {sets[d] : d \in DOMAIN sets}] :
     \A d \in DOMAIN sets : t[d] \in sets[d]}

(* A Latin hypercube: in each dimension, each stratum has one sample.      *)
Hypercube(dims, n) ==
  {samples \in [1..n -> Tuples(Inside(dims))] :
     \A d \in DOMAIN dims : \E order \in Permutations(1..n) :
       \A i \in 1..n :
         \E v \in Stratum(dims[d], order[i], n) : samples[i][d] = Quantized(v, dims[d])}

(* Around the best samples, normally distributed and cut to the range.     *)
Around(dims, n) == [1..n -> Tuples(Inside(dims))]

(* Within the ratio, in percent, of the value, and cut to the range.       *)
Between(low, v, high) == IF v < low THEN low ELSE IF v > high THEN high ELSE v
Jittered(dim, distribution, ratio) ==
  LET far == ((IF dim.value < 0 THEN -dim.value ELSE dim.value) * ratio) \div 100
      noisy == IF distribution = "normal" /\ dim.value # 0 THEN dim.min..dim.max
               ELSE dim.value - far..dim.value + far
  IN  {Quantized(Between(dim.min, v, dim.max), dim) : v \in noisy}
-----------------------------------------------------------------------------
(* Ranking.  partial_cmp is no order where a metric is NaN: then a sort    *)
(* may leave any order, and one that is long enough may panic.             *)

Numbers(samples) == \A i \in DOMAIN samples : samples[i].metric # NaN

(* The best first, or the worst first; equal ones as they came.            *)
Before(samples, bestFirst, j, i) ==
  \/ IF bestFirst THEN samples[j].metric > samples[i].metric
     ELSE samples[j].metric < samples[i].metric
  \/ samples[j].metric = samples[i].metric /\ j < i
Rank(samples, bestFirst, i) ==
  Cardinality({j \in DOMAIN samples : Before(samples, bestFirst, j, i)}) + 1
Ranked(samples, bestFirst) ==
  [r \in DOMAIN samples |->
     samples[CHOOSE i \in DOMAIN samples : Rank(samples, bestFirst, i) = r]]

Orders(samples, bestFirst) ==
  IF Numbers(samples) THEN {Ranked(samples, bestFirst)}
  ELSE {[i \in DOMAIN samples |-> samples[p[i]]] : p \in Bijection(DOMAIN samples, DOMAIN samples)}

(* The samples at some places, as they came.                               *)
Picked(samples, places) ==
  [r \in 1..Cardinality(places) |->
     samples[CHOOSE i \in places : Cardinality({j \in places : j < i}) = r - 1]]

(* merge_top_k: what is kept competes with what is new.  The variant cuts  *)
(* what is new first.                                                      *)
First(samples, k) == SubSeq(samples, 1, IF k < Len(samples) THEN k ELSE Len(samples))
MergedNewest(top, samples, k) == {First(s, k) : s \in Orders(samples, TRUE)}
Merged(top, samples, k) == {First(s, k) : s \in Orders(top \o samples, TRUE)}

(* quantile_from_sorted, q in percent.                                     *)
QuantileOff(sorted, q) == sorted[(Len(sorted) * q) \div 100 + 1]
Quantile(sorted, q) == sorted[Nearest((Len(sorted) - 1) * q, 100) + 1]
MedianOf(sorted) == sorted[Len(sorted) \div 2 + 1]
=============================================================================
