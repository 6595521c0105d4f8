---------------------------- MODULE PacingLemmas ----------------------------
(***************************************************************************)
(* What calculate_threshold returns, for every setting of GcOptions.       *)
(***************************************************************************)
EXTENDS Pacing, TLAPS

(***************************************************************************)
(* An unsigned division by 100 yields a usize.                             *)
(***************************************************************************)
LEMMA DivUsize ==
  ASSUME NEW n \in Usize
  PROVE  /\ n \div 100 \in Nat
         /\ n \div 100 <= n
BY PacingAssumption DEF Usize

(***************************************************************************)
(* Wrapping yields a usize, and leaves a usize alone.                      *)
(***************************************************************************)
LEMMA WrapUsize ==
  ASSUME NEW n \in Int
  PROVE  /\ Wrap(n) \in Usize
         /\ n \in Usize => Wrap(n) = n
BY PacingAssumption DEF Wrap, Usize

(***************************************************************************)
(* The threshold before the shrink rule is a usize.                        *)
(***************************************************************************)
LEMMA GrownUsize ==
  ASSUME NEW live \in Int
  PROVE  GrownThreshold(live) \in Usize
<1>1. ThresholdPercent \in Int
  BY PacingAssumption DEF Usize
<1>2. live * ThresholdPercent \in Int
  BY <1>1
<1>3. Wrap(live * ThresholdPercent) \in Usize
  BY <1>2, WrapUsize
<1>4. Wrap(live * ThresholdPercent) \div 100 \in Nat
  BY <1>3, DivUsize
<1>5. live + Wrap(live * ThresholdPercent) \div 100 \in Int
  BY <1>1, <1>4
<1> QED
  BY <1>5, WrapUsize DEF GrownThreshold

(***************************************************************************)
(* calculate_threshold returns a usize that is not below the minimum, if   *)
(* the old threshold was not.                                              *)
(***************************************************************************)
LEMMA ThresholdBounds ==
  ASSUME NEW old \in Usize, NEW live \in Int
  PROVE  /\ calculate_threshold(old, live) \in Usize
         /\ old >= MinThresholdBytes
              => calculate_threshold(old, live) >= MinThresholdBytes
<1> DEFINE new == GrownThreshold(live)
<1>1. new \in Usize
  BY GrownUsize
<1>2. MinThresholdBytes \in Usize /\ UsizeMax \in Usize
      /\ UsizeMax >= MinThresholdBytes
  BY PacingAssumption DEF Usize
<1>3. CASE is_threshold_off
  BY <1>2, <1>3 DEF calculate_threshold
<1>4. CASE ~ is_threshold_off /\ KeepsOldThreshold(old, new)
  BY <1>4 DEF calculate_threshold
<1>5. CASE ~ is_threshold_off /\ ~ KeepsOldThreshold(old, new)
  <2>1. calculate_threshold(old, live)
          = IF new < MinThresholdBytes THEN MinThresholdBytes ELSE new
    BY <1>5 DEF calculate_threshold
  <2> QED
    BY <1>1, <1>2, <2>1 DEF Usize
<1> QED
  BY <1>3, <1>4, <1>5

=============================================================================
