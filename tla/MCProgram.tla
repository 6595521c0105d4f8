----------------------------- MODULE MCProgram ------------------------------
(***************************************************************************)
(* Instances of Program for TLC.                                           *)
(***************************************************************************)
EXTENDS Program, TLC

(***************************************************************************)
(* Threads that share heaps make every call, and are interchangeable.      *)
(***************************************************************************)
SharedHeaps == [t \in Threads |-> ApiCalls]

SameThreads == Permutations(Threads)

=============================================================================
