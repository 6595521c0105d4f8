----------------------------- MODULE Refinement -----------------------------
(***************************************************************************)
(* GcHeap as an implementation of AbstractHeap.  An allocation is there    *)
(* for the program when allocate returns its GcRoot; until then neither    *)
(* the box nor its data can be seen.                                       *)
(***************************************************************************)
EXTENDS GcHeap

AbstractMem ==
  [o \in Objects |-> CASE mem[o] = "freed" -> "dropped"
                       [] mem[o] = "live" /\ ~ InAllocate(o) -> "live"
                       [] OTHER -> "unborn"]

AbstractRef ==
  [o \in Objects |-> IF AbstractMem[o] = "unborn"
                     THEN [f \in Fields |-> Null] ELSE ref[o]]

Abstract == INSTANCE AbstractHeap WITH mem <- AbstractMem, ref <- AbstractRef

(***************************************************************************)
(* Every step of the collector and of the threads that share it is one of  *)
(* the promised steps, or invisible: do_sweep drops only what is out of    *)
(* reach at that very moment, allocate hands out a box that was never      *)
(* touched, and set stores what it was given.                              *)
(***************************************************************************)
ImplementsAbstractHeap == Abstract!Spec

=============================================================================
