---------------------------- MODULE PacerProofs -----------------------------
(***************************************************************************)
(* The pacing of collections, for every setting of GcOptions.              *)
(***************************************************************************)
EXTENDS Pacer, PacingLemmas

(***************************************************************************)
(* Without overflow the live bytes are grown by threshold_percent, rounded *)
(* down.                                                                   *)
(***************************************************************************)
LEMMA GrownExactly ==
  ASSUME NoOverflow, NEW live \in 0..MaxHeap
  PROVE  /\ live * ThresholdPercent \in Usize
         /\ GrownThreshold(live) = live + (live * ThresholdPercent) \div 100
<1> DEFINE grown == live * ThresholdPercent
<1>1. /\ live \in Nat /\ MaxHeap \in Nat /\ ThresholdPercent \in Nat
      /\ UsizeMax \in Nat /\ live <= MaxHeap /\ MaxHeap <= UsizeMax
  BY PacingAssumption, PacerAssumption DEF Usize
<1>2. grown \in Nat /\ grown <= MaxHeap * ThresholdPercent
  <2>1. grown \in Nat
    BY <1>1
  <2>2. MaxHeap * ThresholdPercent - grown = (MaxHeap - live) * ThresholdPercent
    BY <1>1
  <2>3. (MaxHeap - live) \in Nat
    BY <1>1
  <2>4. (MaxHeap - live) * ThresholdPercent \in Nat
    BY <2>3, <1>1
  <2> QED
    BY <1>1, <2>1, <2>2, <2>4
<1>3. MaxHeap * ThresholdPercent \in Nat
  BY <1>1
<1>4. live + grown <= UsizeMax
  BY <1>1, <1>2, <1>3 DEF NoOverflow
<1>5. Wrap(grown) = grown /\ grown \in Usize
  <2>1. grown \in Usize
    BY <1>1, <1>2, <1>4 DEF Usize
  <2> QED
    BY <1>2, <2>1, WrapUsize
<1>6. grown \div 100 \in Nat /\ grown \div 100 <= grown
  BY <1>5, DivUsize
<1>7. live + grown \div 100 \in Usize
  BY <1>1, <1>2, <1>4, <1>6 DEF Usize
<1>8. Wrap(live + grown \div 100) = live + grown \div 100
  BY <1>1, <1>6, <1>7, WrapUsize
<1> QED
  BY <1>5, <1>8 DEF GrownThreshold

(***************************************************************************)
(* Without overflow the threshold calculate_threshold returns covers the   *)
(* live bytes it was given.                                                *)
(***************************************************************************)
LEMMA ThresholdCoversLive ==
  ASSUME NoOverflow, NEW old \in Usize, NEW live \in 0..MaxHeap
  PROVE  calculate_threshold(old, live) >= live
<1> DEFINE new == GrownThreshold(live)
<1>1. live \in Nat /\ UsizeMax \in Nat /\ live <= UsizeMax
  BY PacingAssumption, PacerAssumption DEF Usize
<1>2. new >= live /\ new \in Nat
  <2>1. (live * ThresholdPercent) \div 100 \in Nat
    BY GrownExactly, DivUsize
  <2> QED
    BY <1>1, <2>1, GrownExactly
<1>3. CASE is_threshold_off
  BY <1>1, <1>3 DEF calculate_threshold
<1>4. CASE ~ is_threshold_off /\ KeepsOldThreshold(old, new)
  <2>1. calculate_threshold(old, live) = old
    BY <1>4 DEF calculate_threshold
  <2>2. new < old
    BY <1>4 DEF KeepsOldThreshold
  <2> QED
    BY <1>1, <1>2, <2>1, <2>2 DEF Usize
<1>5. CASE ~ is_threshold_off /\ ~ KeepsOldThreshold(old, new)
  <2>1. calculate_threshold(old, live)
          = IF new < MinThresholdBytes THEN MinThresholdBytes ELSE new
    BY <1>5 DEF calculate_threshold
  <2> QED
    BY <1>1, <1>2, <2>1, PacingAssumption DEF Usize
<1> QED
  BY <1>3, <1>4, <1>5

(***************************************************************************)
(* Wrapping never makes a product of usize values larger.                  *)
(***************************************************************************)
LEMMA WrapShrinks ==
  ASSUME NEW n \in Nat
  PROVE  Wrap(n) \in Nat /\ Wrap(n) <= n
<1>1. CASE n <= UsizeMax
  BY <1>1, WrapUsize, PacingAssumption DEF Usize
<1>2. CASE n > UsizeMax
  BY <1>2, WrapUsize, PacingAssumption DEF Usize
<1> QED
  BY <1>1, <1>2, PacingAssumption

(***************************************************************************)
(* The division by 100 of the percentages rounds down, by less than one.   *)
(***************************************************************************)
LEMMA DivBounds ==
  ASSUME NEW n \in Nat
  PROVE  /\ n \div 100 \in Nat
         /\ 100 * (n \div 100) <= n
         /\ n < 100 * (n \div 100) + 100
OBVIOUS

(***************************************************************************)
(* calculate_threshold returns less than the old threshold only when the   *)
(* grown live bytes are at most threshold_shrink_percent of it.            *)
(***************************************************************************)
LEMMA SmallerThreshold ==
  ASSUME NoOverflow, NEW old \in Usize, NEW live \in 0..MaxHeap,
         calculate_threshold(old, live) < old,
         ~ (ThresholdShrinkPercent >= 100)
  PROVE  live * (100 + ThresholdPercent) < old * ThresholdShrinkPercent + 100
<1> DEFINE new == GrownThreshold(live)
           grown == live * ThresholdPercent
           share == old * ThresholdShrinkPercent
<1>1. /\ live \in Nat /\ old \in Nat /\ old <= UsizeMax /\ UsizeMax \in Nat
      /\ ThresholdPercent \in Nat /\ ThresholdShrinkPercent \in Nat
      /\ MinThresholdBytes \in Nat /\ ThresholdShrinkPercent < 100
  BY PacingAssumption, PacerAssumption DEF Usize
<1>2. grown \in Nat /\ share \in Nat
  BY <1>1
<1>3. new \in Nat /\ new = live + grown \div 100
  BY <1>1, <1>2, GrownExactly, DivBounds
<1>4. ~ is_threshold_off
  BY <1>1 DEF calculate_threshold
<1>5. ~ KeepsOldThreshold(old, new)
  <2> SUFFICES ASSUME KeepsOldThreshold(old, new) PROVE FALSE
    OBVIOUS
  <2>1. calculate_threshold(old, live) = old
    BY <1>4 DEF calculate_threshold
  <2> QED
    BY <1>1, <2>1
<1>6. calculate_threshold(old, live)
        = IF new < MinThresholdBytes THEN MinThresholdBytes ELSE new
  BY <1>4, <1>5 DEF calculate_threshold
<1>7. new < old
  BY <1>1, <1>3, <1>6
<1>8. Wrap(share) \in Nat /\ Wrap(share) <= share
  BY <1>2, WrapShrinks
<1>9. new <= Wrap(share) \div 100
  <2>1. ~ (new > Wrap(share) \div 100)
    BY <1>1, <1>5, <1>7 DEF KeepsOldThreshold
  <2> QED
    BY <1>3, <1>8, <2>1, DivBounds
<1>10. 100 * new <= share
  BY <1>2, <1>3, <1>8, <1>9, DivBounds
<1>11. 100 * live + grown < 100 * new + 100
  BY <1>1, <1>2, <1>3, DivBounds
<1>12. live * (100 + ThresholdPercent) = 100 * live + grown
  BY <1>1
<1> QED
  BY <1>1, <1>2, <1>3, <1>10, <1>11, <1>12

-----------------------------------------------------------------------------

(***************************************************************************)
(* The counters keep their types: update_threshold stores a usize.         *)
(***************************************************************************)
LEMMA PacerTypeCorrect == Spec => []TypeOK
<1>1. Init => TypeOK
  BY PacingAssumption, PacerAssumption DEF Init, TypeOK, Usize
<1>2. TypeOK /\ [Next]_vars => TypeOK'
  <2> SUFFICES ASSUME TypeOK, [Next]_vars PROVE TypeOK'
    OBVIOUS
  <2> USE DEF TypeOK
  <2>1. CASE Allocate
    BY <2>1, PacerAssumption DEF Allocate, Usize
  <2>2. CASE ForceCollect
    <3>1. PICK live \in 0..bytes_allocated :
            /\ bytes_allocated' = live
            /\ current_threshold' = calculate_threshold(current_threshold, live)
      BY <2>2 DEF ForceCollect
    <3>2. live \in 0..MaxHeap /\ live \in Usize
      BY <3>1, PacingAssumption, PacerAssumption DEF Usize
    <3> QED
      BY <3>1, <3>2, ThresholdBounds
  <2>3. CASE UNCHANGED vars
    BY <2>3 DEF vars
  <2> QED
    BY <2>1, <2>2, <2>3 DEF Next
<1> QED
  BY <1>1, <1>2, PTL DEF Spec

(***************************************************************************)
(* current_threshold is never below min_threshold_bytes, with or without   *)
(* overflow in calculate_threshold.                                        *)
(***************************************************************************)
THEOREM MinimumKept == Spec => []ThresholdAtLeastMin
<1>1. Init => ThresholdAtLeastMin
  BY PacingAssumption DEF Init, ThresholdAtLeastMin, Usize
<1>2. TypeOK /\ ThresholdAtLeastMin /\ [Next]_vars => ThresholdAtLeastMin'
  <2> SUFFICES ASSUME TypeOK, ThresholdAtLeastMin, [Next]_vars
               PROVE  ThresholdAtLeastMin'
    OBVIOUS
  <2> USE DEF TypeOK, ThresholdAtLeastMin
  <2>1. CASE Allocate
    BY <2>1 DEF Allocate
  <2>2. CASE ForceCollect
    <3>1. PICK live \in 0..bytes_allocated :
            current_threshold' = calculate_threshold(current_threshold, live)
      BY <2>2 DEF ForceCollect
    <3>2. live \in Usize
      BY <3>1, PacingAssumption, PacerAssumption DEF Usize
    <3> QED
      BY <3>1, <3>2, ThresholdBounds
  <2>3. CASE UNCHANGED vars
    BY <2>3 DEF vars
  <2> QED
    BY <2>1, <2>2, <2>3 DEF Next
<1> QED
  BY <1>1, <1>2, PacerTypeCorrect, PTL DEF Spec

(***************************************************************************)
(* Right after a collection none is due, unless the live bytes are over    *)
(* the limit: provided live_usage * threshold_percent fits in a usize.     *)
(***************************************************************************)
THEOREM CollectionPays == ASSUME NoOverflow PROVE Spec => NotDueAgain
<1>1. TypeOK /\ [Next]_vars =>
        [bytes_allocated' <= bytes_allocated /\ bytes_allocated' <= LimitBytes
           => ~ Due']_vars
  <2> SUFFICES ASSUME TypeOK, Next, bytes_allocated' <= bytes_allocated,
                      bytes_allocated' <= LimitBytes
               PROVE  ~ Due'
    OBVIOUS
  <2> USE DEF TypeOK
  <2>1. CASE Allocate
    BY <2>1, PacerAssumption, PacingAssumption DEF Allocate, Usize
  <2>2. CASE ForceCollect
    <3>1. PICK live \in 0..bytes_allocated :
            /\ bytes_allocated' = live
            /\ current_threshold' = calculate_threshold(current_threshold, live)
      BY <2>2 DEF ForceCollect
    <3>2. live \in 0..MaxHeap /\ live \in Usize
      BY <3>1, PacingAssumption, PacerAssumption DEF Usize
    <3>3. current_threshold' >= live /\ current_threshold' \in Usize
      BY <3>1, <3>2, ThresholdCoversLive, ThresholdBounds
    <3>4. ~ (bytes_allocated' > current_threshold')
      BY <3>1, <3>2, <3>3 DEF Usize
    <3>5. ~ (bytes_allocated' > LimitBytes)
      BY <3>1, <3>2, PacingAssumption DEF Usize
    <3> QED
      BY <3>4, <3>5 DEF Due, should_collect
  <2> QED
    BY <2>1, <2>2 DEF Next
<1> QED
  BY <1>1, PacerTypeCorrect, PTL DEF Spec, NotDueAgain

(***************************************************************************)
(* update_threshold lowers the threshold only when the live bytes, grown   *)
(* by threshold_percent, are at most threshold_shrink_percent of it, equal *)
(* included, up to what new_threshold rounds away: provided                *)
(* live_usage * threshold_percent fits in a usize.  The product with       *)
(* threshold_shrink_percent may wrap, which only keeps the threshold.      *)
(***************************************************************************)
THEOREM ShrinkingIsSignificant ==
  ASSUME NoOverflow PROVE Spec => ShrinksSignificantly
<1> DEFINE Significant ==
      current_threshold' < current_threshold =>
        \/ ThresholdShrinkPercent >= 100
        \/ bytes_allocated' * (100 + ThresholdPercent)
             < current_threshold * ThresholdShrinkPercent + 100
<1>1. TypeOK /\ [Next]_vars => [Significant]_vars
  <2> SUFFICES ASSUME TypeOK, Next, current_threshold' < current_threshold,
                      ~ (ThresholdShrinkPercent >= 100)
               PROVE  bytes_allocated' * (100 + ThresholdPercent)
                        < current_threshold * ThresholdShrinkPercent + 100
    OBVIOUS
  <2>1. CASE Allocate
    BY <2>1, PacingAssumption DEF Allocate, Usize, TypeOK
  <2>2. CASE ForceCollect
    <3>1. PICK live \in 0..bytes_allocated :
            /\ bytes_allocated' = live
            /\ current_threshold' = calculate_threshold(current_threshold, live)
      BY <2>2 DEF ForceCollect
    <3>2. live \in 0..MaxHeap
      BY <3>1, PacingAssumption, PacerAssumption DEF Usize, TypeOK
    <3>3. live * (100 + ThresholdPercent)
            < current_threshold * ThresholdShrinkPercent + 100
      BY <3>1, <3>2, SmallerThreshold DEF TypeOK
    <3> QED
      BY <3>1, <3>3
  <2> QED
    BY <2>1, <2>2 DEF Next
<1> QED
  BY <1>1, PacerTypeCorrect, PTL DEF Spec, ShrinksSignificantly

=============================================================================
