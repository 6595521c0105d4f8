------------------------------- MODULE Pacing -------------------------------
(***************************************************************************)
(* GcOptions of src/src/heap.rs: the switches that turn the collector off  *)
(* and the arithmetic that decides when a collection is due.  Sizes are    *)
(* usize values, 0..UsizeMax, and wrap as they do in a release build.      *)
(***************************************************************************)
EXTENDS Integers

CONSTANTS
  ThresholdPercent,        \* threshold_percent
  ThresholdShrinkPercent,  \* threshold_shrink_percent
  MinThresholdBytes,       \* min_threshold_bytes
  LimitBytes,              \* limit_bytes
  CollectionInterval,      \* collection_interval in milliseconds
  UsizeMax                 \* usize::MAX

ASSUME PacingAssumption ==
  /\ UsizeMax \in Nat \ {0}
  /\ ThresholdPercent \in 0..UsizeMax
  /\ ThresholdShrinkPercent \in 0..UsizeMax
  /\ MinThresholdBytes \in 0..UsizeMax
  /\ LimitBytes \in 0..UsizeMax
  /\ CollectionInterval \in Nat

Usize == 0..UsizeMax

Wrap(n) == n % (UsizeMax + 1)

is_threshold_off == ThresholdPercent \in {0, UsizeMax}

is_limit_off == LimitBytes = UsizeMax

is_background_collection_off == is_threshold_off \/ CollectionInterval = 0

is_completely_off == is_threshold_off /\ is_limit_off

\* Variant for a mutation test: the percentage is of the whole, not on top.
GrownThresholdShare(live) == Wrap(live * ThresholdPercent) \div 100

(***************************************************************************)
(* The threshold the live bytes ask for, before the shrink rule and the    *)
(* minimum are applied.                                                    *)
(***************************************************************************)
GrownThreshold(live) == Wrap(live + Wrap(live * ThresholdPercent) \div 100)

\* Variant for a mutation test: the shrink test is the wrong way round.
ShrinksBackwards(old, new) ==
  /\ new < old
  /\ \/ ThresholdShrinkPercent = 0
     \/ /\ ThresholdShrinkPercent < 100
        /\ new <= Wrap(old * ThresholdShrinkPercent) \div 100

KeepsOldThreshold(old, new) ==
  /\ new < old
  /\ \/ ThresholdShrinkPercent = 0
     \/ /\ ThresholdShrinkPercent < 100
        /\ new > Wrap(old * ThresholdShrinkPercent) \div 100

\* Variant for a mutation test: the minimum is forgotten.
calculate_threshold_no_min(old, live) ==
  LET new == GrownThreshold(live)
  IN  CASE is_threshold_off            -> UsizeMax
        [] ~ is_threshold_off /\ KeepsOldThreshold(old, new) -> old
        [] OTHER -> new

calculate_threshold(old, live) ==
  LET new == GrownThreshold(live)
  IN  CASE is_threshold_off            -> UsizeMax
        [] ~ is_threshold_off /\ KeepsOldThreshold(old, new) -> old
        [] OTHER -> IF new < MinThresholdBytes THEN MinThresholdBytes ELSE new

should_collect(allocated, threshold) ==
  /\ ~ is_completely_off
  /\ \/ ~ is_limit_off /\ allocated > LimitBytes
     \/ allocated > threshold

=============================================================================
