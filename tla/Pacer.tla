-------------------------------- MODULE Pacer -------------------------------
(***************************************************************************)
(* When a heap collects: the two counters of Heap that Pacing decides on,  *)
(* with objects of several sizes.  What marking finds live is any part of  *)
(* the heap.  GcHeap has the same counters with objects of size 1, and the *)
(* threads that race on them.                                              *)
(***************************************************************************)
EXTENDS Pacing

CONSTANTS
  Sizes,      \* layout.size() of the types the program allocates
  MaxHeap     \* bound on bytes_allocated

ASSUME PacerAssumption ==
  /\ MaxHeap \in Usize
  /\ Sizes \subseteq Usize \ {0}

VARIABLES bytes_allocated, current_threshold

vars == <<bytes_allocated, current_threshold>>

TypeOK == bytes_allocated \in 0..MaxHeap /\ current_threshold \in Usize

Init == bytes_allocated = 0 /\ current_threshold = MinThresholdBytes

Allocate ==
  \E size \in Sizes :
    /\ bytes_allocated + size <= MaxHeap
    /\ bytes_allocated' = bytes_allocated + size
    /\ UNCHANGED current_threshold

(***************************************************************************)
(* force_collect: do_sweep subtracts what it freed, and update_threshold   *)
(* works with the difference.                                              *)
(***************************************************************************)
ForceCollect ==
  \E live \in 0..bytes_allocated :
    /\ bytes_allocated' = live
    /\ current_threshold' = calculate_threshold(current_threshold, live)

Next == Allocate \/ ForceCollect

Spec == Init /\ [][Next]_vars

Due == should_collect(bytes_allocated, current_threshold)

(***************************************************************************)
(* live_usage * threshold_percent and the sum fit in a usize for every     *)
(* heap size, so calculate_threshold does not wrap.                        *)
(***************************************************************************)
NoOverflow == MaxHeap + MaxHeap * ThresholdPercent <= UsizeMax

-----------------------------------------------------------------------------

(***************************************************************************)
(* The threshold never falls below min_threshold_bytes, "Initial & minimum *)
(* threshold in bytes to trigger collection", whatever sequence of         *)
(* allocations and collections led there.                                  *)
(***************************************************************************)
ThresholdAtLeastMin == current_threshold >= MinThresholdBytes

(***************************************************************************)
(* A collection is not due again right after it ended, unless what is live *)
(* is over the limit: background_gc_thread does not collect at every       *)
(* interval while nothing is allocated.                                    *)
(***************************************************************************)
NotDueAgain ==
  [][bytes_allocated' <= bytes_allocated /\ bytes_allocated' <= LimitBytes
       => ~ Due']_vars

(***************************************************************************)
(* The threshold shrinks only when the live bytes, grown by                *)
(* threshold_percent, are at most threshold_shrink_percent of the old one. *)
(* "At most" is the code's boundary: it keeps the old threshold only when  *)
(* the new one is above the limit, so equality shrinks, although the       *)
(* option is documented as "below this percentage".  The formula is free   *)
(* of the code's divisions: + 100 is what the one in new_threshold rounds  *)
(* away, and the one in shrink_limit rounds nothing that an integer        *)
(* comparison could see.                                                   *)
(***************************************************************************)
ShrinksSignificantly ==
  [][current_threshold' < current_threshold =>
       \/ ThresholdShrinkPercent >= 100
       \/ bytes_allocated' * (100 + ThresholdPercent)
            < current_threshold * ThresholdShrinkPercent + 100]_vars

=============================================================================
