---------------------------- MODULE AbstractHeap ----------------------------
(***************************************************************************)
(* What a garbage-collected heap promises its program, without colors,     *)
(* lists, phases or threads inside the collector: every call is one step,  *)
(* and an object is dropped only when the program cannot reach it.         *)
(***************************************************************************)
EXTENDS Naturals

CONSTANTS
  Objects,      \* every allocation the program can make
  Fields,       \* the cells of an object
  Null,         \* None in a cell
  Threads

VARIABLES
  mem,          \* what has become of each allocation
  handles,      \* the GcRoots each thread owns
  ref           \* the pointer in each cell

vars == <<mem, handles, ref>>

TypeOK ==
  /\ mem \in [Objects -> {"unborn", "live", "dropped"}]
  /\ handles \in [Threads -> [Objects -> Nat]]
  /\ ref \in [Objects -> [Fields -> Objects \cup {Null}]]

HeldBy(t) == {o \in Objects : handles[t][o] > 0}

Held == {o \in Objects : \E t \in Threads : handles[t][o] > 0}

Successors(o) == {ref[o][f] : f \in Fields} \ {Null}

(***************************************************************************)
(* A set the program cannot leave by following pointers.                   *)
(***************************************************************************)
Closed(S) == Held \subseteq S /\ \A o \in S : Successors(o) \subseteq S

Reachable == {o \in Objects : \A S \in SUBSET Objects : Closed(S) => o \in S}

Live == {o \in Objects : mem[o] = "live"}

(***************************************************************************)
(* Nothing has been dropped yet, and pointers lead to live objects.        *)
(***************************************************************************)
Init ==
  /\ TypeOK
  /\ \A o \in Objects : mem[o] # "dropped"
  /\ Held \subseteq Live
  /\ \A o \in Objects : Successors(o) \subseteq Live

-----------------------------------------------------------------------------

(***************************************************************************)
(* allocate: a new object, whose cells hold pointers the thread has roots  *)
(* of, and one root of it.                                                 *)
(***************************************************************************)
Allocate(t, o) ==
  /\ mem[o] = "unborn"
  /\ mem' = [mem EXCEPT ![o] = "live"]
  /\ handles' = [handles EXCEPT ![t][o] = 1]
  /\ \E d \in [Fields -> HeldBy(t) \cup {Null}] : ref' = [ref EXCEPT ![o] = d]

(***************************************************************************)
(* A root more: a clone of one the thread owns, given to u, or GcPtr::root *)
(* of a pointer that still leads to a reachable object.                    *)
(***************************************************************************)
Root(u, o) ==
  /\ o \in Reachable
  /\ handles' = [handles EXCEPT ![u][o] = @ + 1]
  /\ UNCHANGED <<mem, ref>>

DropRoot(t, o) ==
  /\ handles[t][o] > 0
  /\ handles' = [handles EXCEPT ![t][o] = @ - 1]
  /\ UNCHANGED <<mem, ref>>

(***************************************************************************)
(* GcCell::set of a cell of an object the thread has a root of.            *)
(***************************************************************************)
Store(t, o, f, v) ==
  /\ o \in HeldBy(t)
  /\ v \in Reachable \cup {Null}
  /\ ref' = [ref EXCEPT ![o][f] = v]
  /\ UNCHANGED <<mem, handles>>

(***************************************************************************)
(* The collector may drop any object that is out of reach, at any time.    *)
(***************************************************************************)
Collect(o) ==
  /\ o \in Live \ Reachable
  /\ mem' = [mem EXCEPT ![o] = "dropped"]
  /\ UNCHANGED <<handles, ref>>

Next ==
  \E o \in Objects :
    \/ Collect(o)
    \/ \E t \in Threads :
         \/ Allocate(t, o) \/ Root(t, o) \/ DropRoot(t, o)
         \/ \E f \in Fields, v \in Objects \cup {Null} : Store(t, o, f, v)

Spec == Init /\ [][Next]_vars

(***************************************************************************)
(* What the promise is for: a GcRoot, and every pointer reached from one,  *)
(* leads to a live object.                                                 *)
(***************************************************************************)
NoDangling == Reachable \subseteq Live

=============================================================================
