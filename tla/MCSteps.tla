------------------------------- MODULE MCSteps -------------------------------
(* A small graph around a step, on which TLC checks StepExpansion; and the *)
(* arithmetic of the splitters, for small numbers of ids.                  *)
EXTENDS StepExpansion

CONSTANTS s, a, c, f, g, h, k, e

Kinds == [n \in Nodes |-> CASE n = s -> "start" [] n = e -> "end"
                            [] n = a -> "step" [] n = c -> "collect_groups"
                            [] n = f -> "other" [] OTHER -> "group"]

(* s -> a -> f -> e beside a -> e: the step has two successors. *)
Around == {<<s, a>>, <<a, f>>, <<f, e>>, <<a, e>>}

(* No group, one, two or three, and other ones in another process. *)
SomeSplits == {<<>>, <<g>>, <<g, h>>, <<h, k, g>>, <<k>>}

(* The theorem that committed graphs are valid applies to this instance.   *)
ASSUME TheoremsApply == StartsValid

-----------------------------------------------------------------------------
Splitter == INSTANCE QuerySplit

Least(S)    == CHOOSE b \in S : \A o \in S : b <= o
Greatest(S) == CHOOSE b \in S : \A o \in S : b >= o

Partitions(n, groups) ==
  { [i \in 0..(groups - 1) |-> Least(Splitter!Boundary(n, groups, i))],
    [i \in 0..(groups - 1) |-> Greatest(Splitter!Boundary(n, groups, i))] }

(* A query split keeps its bounds and selects every id once, for every way *)
(* to round the boundaries (SplitKeepsBounds, EveryIdInOneGroup).          *)
ASSUME SplitsAreSound ==
  \A n \in 1..16 : \A min, max \in 1..n :
    LET groups == Splitter!GroupCount(n, Splitter!GroupSize(n, min, max))
    IN  /\ Splitter!Splittable(n, min, max) /\ groups >= min
        /\ \A B \in Partitions(n, groups) :
             /\ Splitter!IsPartition(B, n, groups)
             /\ \A i \in 0..(groups - 1) :
                  (IF i < groups - 1 THEN B[i + 1] ELSE n) - B[i] \in 1..max
             /\ \A id \in 0..(n - 1) : \E i \in 0..(groups - 1) :
                  \A j \in 0..(groups - 1) : Splitter!Selects(B, groups, [x \in 0..(n - 1) |-> x], j, id) <=> i = j

(* The legacy split ends unless there are ids, and fewer than groups; it   *)
(* then selects every id, once if no two are the same.                     *)
ASSUME LegacySplitsCover ==
  /\ \A n \in 0..9, min, max \in 1..9 : Splitter!LegacyEnds(n, min, max) <=> n = 0 \/ n >= min
  /\ \A n \in 1..4, step \in 1..4 : \A ids \in [0..(n - 1) -> 1..4] :
       (\A x \in 0..(n - 2) : ids[x] <= ids[x + 1]) =>
         \A x \in 0..(n - 1) :
           LET holding == {j \in Splitter!LegacyGroups(n, step) :
                             Splitter!LegacySelects(n, step, ids, j, ids[x])}
           IN  /\ holding # {}
               /\ (\A y \in 0..(n - 2) : ids[y] < ids[y + 1]) => \A i, j \in holding : i = j

(* Ranges that meet share no id, unless the first is closed.               *)
ASSUME RangesMeet ==
  \A low, middle, high, id \in 0..4, closed, endpoint \in BOOLEAN :
    LET first  == [kind |-> "range", min |-> low, max |-> middle, endpoint |-> closed]
        second == [kind |-> "range", min |-> middle, max |-> high, endpoint |-> endpoint]
    IN  Splitter!ValueSelects(first, id) /\ Splitter!ValueSelects(second, id) => closed /\ id = middle
=============================================================================
