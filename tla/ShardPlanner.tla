---------------------------- MODULE ShardPlanner ----------------------------
(***************************************************************************)
(* _pack_into_shards (sharding/planner.py): first-fit decreasing packing   *)
(* of the datasets of a plan into at most max_shards shards, one dataset   *)
(* per step of the loop.  _pack (partition/planner.py) packs the files of  *)
(* a dataset into partitions the same way, without a limit on their number *)
(* (here: a limit no smaller than the number of files).                    *)
(***************************************************************************)
EXTENDS Integers, FiniteSets

CONSTANTS
  N,         \* datasets discovered, numbered in the order of discovery
  MaxSize,   \* bound: bytes of a dataset
  Targets,   \* target_bytes the callers ask for
  Caps       \* max_shards the callers ask for

ASSUME PlannerAssumption ==
  N \in Nat /\ MaxSize \in Nat /\ Targets \subseteq Nat /\ Caps \subseteq Nat

VARIABLES
  size,    \* input_bytes of each dataset
  target,  \* target_bytes
  cap,     \* max_shards
  n,       \* number of shards
  place,   \* the shard of each dataset (0: not placed yet)
  total,   \* total_bytes of each shard
  pc       \* "packing", "done", or "error": min() of an empty list

input == <<size, target, cap>>
vars == <<input, n, place, total, pc>>

Datasets == 1 .. N
Slots == 1 .. N

Init ==
  /\ size \in [Datasets -> 0 .. MaxSize]
  /\ target \in Targets
  /\ cap \in Caps
  /\ n = 0
  /\ place = [d \in Datasets |-> 0]
  /\ total = [i \in Slots |-> 0]
  /\ pc = "packing"

-----------------------------------------------------------------------------
(* The loop.                                                               *)

Unplaced == {d \in Datasets : place[d] = 0}

\* sorted(..., reverse=True) keeps datasets of one size in their order.
Before(c, d) == size[c] > size[d] \/ (size[c] = size[d] /\ c <= d)
NextDataset == {d \in Unplaced : \A e \in Unplaced : Before(d, e)}

Shards == {i \in Slots : i <= n}
FitsBelow(i, d) == total[i] + size[d] < target                      \* mutant
Fits(i, d) == total[i] + size[d] <= target
FirstFit(d) == {i \in Shards : Fits(i, d) /\ \A j \in 1 .. i - 1 : ~Fits(j, d)}
FitsNowhere(d) == \A i \in Shards : ~Fits(i, d)
FullEarly == n >= cap - 1                                           \* mutant
Full == n >= cap
Smallest == {i \in Shards : /\ \A j \in Shards : total[i] <= total[j]
                            /\ \A j \in 1 .. i - 1 : total[i] < total[j]}

Put(d, i) == /\ place' = [place EXCEPT ![d] = i]
             /\ total' = [total EXCEPT ![i] = @ + size[d]]

\* The first shard the dataset fits into.
PlaceFirst ==
  /\ pc = "packing"
  /\ \E d \in NextDataset : \E i \in FirstFit(d) : Put(d, i)
  /\ UNCHANGED <<input, n, pc>>

\* It fits nowhere and a shard may be opened.
PlaceNew ==
  /\ pc = "packing"
  /\ \E d \in NextDataset : FitsNowhere(d) /\ ~Full /\ Put(d, n + 1)
  /\ n' = n + 1
  /\ UNCHANGED <<input, pc>>

\* It fits nowhere and no shard may be opened: the smallest takes it.
PlaceOverflow ==
  /\ pc = "packing"
  /\ \E d \in NextDataset : FitsNowhere(d) /\ Full /\ \E i \in Smallest : Put(d, i)
  /\ UNCHANGED <<input, n, pc>>

\* max_shards = 0: min() of no shard raises ValueError.
Raise ==
  /\ pc = "packing" /\ Unplaced # {} /\ n = 0 /\ Full
  /\ pc' = "error"
  /\ UNCHANGED <<input, n, place, total>>

\* A plan has at least one shard, also without a dataset.
Finish ==
  /\ pc = "packing" /\ Unplaced = {}
  /\ pc' = "done"
  /\ n' = IF n = 0 THEN 1 ELSE n
  /\ UNCHANGED <<input, place, total>>

Next == PlaceFirst \/ PlaceNew \/ PlaceOverflow \/ Raise \/ Finish

Spec == Init /\ [][Next]_vars

-----------------------------------------------------------------------------
(* Properties.                                                             *)

\* The types; and max_shards is a hard limit, but for the empty shard of an
\* empty plan.
TypeOK ==
  /\ size \in [Datasets -> 0 .. MaxSize]
  /\ target \in Targets /\ cap \in Caps
  /\ n \in Nat
  /\ n <= N \/ Datasets = {}
  /\ n <= cap \/ (n = 1 /\ Datasets = {})
  /\ place \in [Datasets -> 0 .. n]
  /\ total \in [Slots -> Nat]
  /\ pc \in {"packing", "done", "error"}

Members(i) == {d \in Datasets : place[d] = i}

\* A shard is above the target only when it holds one dataset that is, or
\* when no shard could be opened any more.
OverTargetOnlyIfForced ==
  \A i \in Shards : total[i] > target => Cardinality(Members(i)) = 1 \/ n = cap

\* No two shards of a plan would fit into one.
NoTwoMergeable ==
  \A i, j \in Shards : i # j /\ N > 0 => total[i] + total[j] > target

\* What overflows is spread: a shard that was filled beyond the target has
\* at most one dataset more than any other.
Balanced ==
  \A i, j \in Shards :
    total[i] > target /\ Cardinality(Members(i)) > 1 =>
      \E d \in Members(i) : total[i] <= total[j] + size[d]

\* The target is exceeded only where the cap leaves no choice, and then evenly
\* (_pack_into_shards: the smallest shard takes what fits nowhere).
OverflowIsSpread == OverTargetOnlyIfForced /\ Balanced
=============================================================================
