------------------------------ MODULE QuerySplit ------------------------------
(***************************************************************************)
(* How a step is divided into groups.  A splitter asks the Butler for the  *)
(* ids of the step's data along one dimension and yields a predicate for   *)
(* each group; here a predicate is what it selects.  The ids are numbers,  *)
(* given in order: the one at position 0, 1, ... n - 1 of sorted.          *)
(***************************************************************************)
EXTENDS Integers

-----------------------------------------------------------------------------
(* QuerySplitter: at least min groups of at most max ids each.             *)
Splittable(n, min, max) == min > 0 /\ max > 0 /\ n >= min

GroupSize(n, min, max) ==
  IF max < n \div min THEN max ELSE n \div min

GroupCount(n, size) == n \div size + (IF n % size # 0 THEN 1 ELSE 0)

(* Where group i of k begins: linspace computes i * (n / k) in floating    *)
(* point and rounds it down.  Where n / k has no exact representation a    *)
(* product that should be whole may come out below, and so one less.       *)
Boundary(n, k, i) ==
  {b \in 0..n : \/ b = (i * n) \div k
                \/ b + 1 = (i * n) \div k /\ (i * n) % k = 0 /\ n % k # 0}

IsPartition(B, n, k) == \A i \in 0..(k - 1) : B[i] \in Boundary(n, k, i)

(* Group i selects an interval of ids, the last one all from its first on. *)
Selects(B, k, sorted, i, id) ==
  /\ sorted[B[i]] <= id
  /\ i < k - 1 => id < sorted[B[i + 1]]

-----------------------------------------------------------------------------
(* The splitter of the first generation goes through the ids in steps of a *)
(* group's size.  With fewer ids than groups the step is zero, and where   *)
(* there are ids at all the loop does not end.                             *)
LegacyStep(n, min, max) == GroupSize(n, min, max)

LegacyEnds(n, min, max) == n = 0 \/ LegacyStep(n, min, max) > 0

LegacyGroups(n, step) == {j \in 0..n : j * step < n}

(* The ids need not differ: two instruments have exposures of one number.  *)
LegacySelects(n, step, sorted, j, id) ==
  LET first == sorted[j * step]
      next  == (j + 1) * step
  IN  /\ first <= id
      /\ next < n => id < sorted[next] \/ id < first + 1

-----------------------------------------------------------------------------
(* ValuesSplitter: a group for each value of the configuration, an id or a *)
(* range of ids.  The predicate for a sequence lacks a closing parenthesis *)
(* and is accepted by no query.                                            *)
ValueSelects(value, id) ==
  \/ value.kind = "scalar" /\ id = value.is
  \/ value.kind = "range"  /\ value.min <= id
       /\ IF value.endpoint THEN id <= value.max ELSE id < value.max
=============================================================================
