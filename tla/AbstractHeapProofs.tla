------------------------- MODULE AbstractHeapProofs -------------------------
(***************************************************************************)
(* The promised steps are enough for memory safety: no order of them makes *)
(* a pointer dangle, for any number of objects, cells and threads.         *)
(***************************************************************************)
EXTENDS AbstractHeap, TLAPS

(***************************************************************************)
(* TypeOK bounds what pointers refer to; without it reachable objects      *)
(* would not have to be objects at all.                                    *)
(***************************************************************************)
Inv == TypeOK /\ NoDangling

-----------------------------------------------------------------------------

(***************************************************************************)
(* What the program reaches is the least closed set.                       *)
(***************************************************************************)
LEMMA ReachableIsLeast ==
  ASSUME NEW S \in SUBSET Objects, Closed(S)
  PROVE  Reachable \subseteq S
  BY DEF Reachable

(***************************************************************************)
(* The reachable objects are themselves such a set.                        *)
(***************************************************************************)
LEMMA ReachableIsClosed ==
  ASSUME TypeOK
  PROVE  Closed(Reachable)
<1>1. Held \subseteq Reachable
  BY DEF Reachable, Closed, Held
<1>2. ASSUME NEW o \in Reachable, NEW x \in Successors(o)
      PROVE  x \in Reachable
  <2>1. x \in Objects
    BY DEF TypeOK, Successors, Reachable
  <2>2. ASSUME NEW S \in SUBSET Objects, Closed(S)
        PROVE  x \in S
    BY <2>2 DEF Reachable, Closed
  <2>3. QED
    BY <2>1, <2>2 DEF Reachable
<1>3. QED
  BY <1>1, <1>2 DEF Closed

(***************************************************************************)
(* The initial states, and steps that only give up roots or drop what is   *)
(* out of reach.                                                           *)
(***************************************************************************)
LEMMA InitSafe == Init => Inv
<1> SUFFICES ASSUME Init PROVE Inv
  OBVIOUS
<1>1. Closed(Live)
  BY DEF Init, Closed, Live
<1>2. Live \in SUBSET Objects
  BY DEF Live
<1>3. QED
  BY <1>1, <1>2, ReachableIsLeast DEF Init, Inv, NoDangling

(***************************************************************************)
(* Every promised step keeps the types.                                    *)
(***************************************************************************)
LEMMA TypeStep ==
  ASSUME TypeOK, [Next]_vars
  PROVE  TypeOK'
<1>1. CASE UNCHANGED vars
  BY <1>1 DEF TypeOK, vars
<1>2. ASSUME NEW o \in Objects, Collect(o) PROVE TypeOK'
  BY <1>2 DEF TypeOK, Collect
<1>3. ASSUME NEW o \in Objects, NEW t \in Threads, Allocate(t, o)
      PROVE  TypeOK'
  <2>1. PICK d \in [Fields -> HeldBy(t) \cup {Null}] :
          ref' = [ref EXCEPT ![o] = d]
    BY <1>3 DEF Allocate
  <2>2. d \in [Fields -> Objects \cup {Null}]
    BY DEF HeldBy
  <2>3. ref' \in [Objects -> [Fields -> Objects \cup {Null}]]
    BY <2>1, <2>2 DEF TypeOK
  <2>4. QED
    BY <1>3, <2>3 DEF TypeOK, Allocate
<1>4. ASSUME NEW o \in Objects, NEW t \in Threads, Root(t, o) PROVE TypeOK'
  BY <1>4 DEF TypeOK, Root
<1>5. ASSUME NEW o \in Objects, NEW t \in Threads, DropRoot(t, o)
      PROVE  TypeOK'
  BY <1>5 DEF TypeOK, DropRoot
<1>6. ASSUME NEW o \in Objects, NEW t \in Threads, NEW f \in Fields,
             NEW v \in Objects \cup {Null}, Store(t, o, f, v)
      PROVE  TypeOK'
  BY <1>6 DEF TypeOK, Store
<1>7. QED
  BY <1>1, <1>2, <1>3, <1>4, <1>5, <1>6 DEF Next

-----------------------------------------------------------------------------

(***************************************************************************)
(* A step keeps NoDangling when some set of live objects is closed after   *)
(* it.                                                                     *)
(***************************************************************************)
LEMMA ClosedAfter ==
  ASSUME NEW S \in SUBSET Objects, Closed(S)', S \subseteq Live'
  PROVE  NoDangling'
  BY DEF NoDangling, Reachable

(***************************************************************************)
(* R is what was reachable before the step, as a set that does not change  *)
(* with it.                                                                *)
(***************************************************************************)
LEMMA SafeStep ==
  ASSUME Inv, [Next]_vars
  PROVE  NoDangling'
<1>1. PICK R \in SUBSET Objects : R = Reachable
  BY DEF Reachable
<1>2. Closed(R) /\ R \subseteq Live /\ TypeOK
  BY <1>1, ReachableIsClosed DEF NoDangling, Inv
<1>3. CASE UNCHANGED vars
  <2>1. Closed(R)' /\ R \subseteq Live'
    BY <1>2, <1>3 DEF vars, Live, Closed, Held, Successors
  <2>2. QED
    BY <2>1, ClosedAfter
<1>4. ASSUME NEW o \in Objects, Collect(o) PROVE NoDangling'
  <2>1. Closed(R)'
    BY <1>2, <1>4 DEF Collect, Closed, Held, Successors
  <2>2. R \subseteq Live'
    BY <1>1, <1>2, <1>4 DEF Collect, Live, TypeOK
  <2>3. QED
    BY <2>1, <2>2, ClosedAfter
<1>5. ASSUME NEW o \in Objects, NEW t \in Threads, Allocate(t, o)
      PROVE  NoDangling'
  <2>1. Held' = Held \cup {o}
    BY <1>2, <1>5 DEF Allocate, Held, TypeOK
  <2>2. Successors(o)' \subseteq R
    <3>1. HeldBy(t) \subseteq R
      BY <1>2 DEF HeldBy, Held, Closed
    <3>2. PICK d \in [Fields -> HeldBy(t) \cup {Null}] : ref'[o] = d
      BY <1>2, <1>5 DEF Allocate, TypeOK
    <3>3. QED
      BY <3>1, <3>2 DEF Successors
  <2>3. \A x \in R \ {o} : Successors(x)' = Successors(x)
    BY <1>2, <1>5 DEF Allocate, Successors, TypeOK
  <2>4. Closed(R \cup {o})'
    BY <1>2, <2>1, <2>2, <2>3 DEF Closed
  <2>5. R \cup {o} \subseteq Live'
    BY <1>2, <1>5 DEF Allocate, Live, TypeOK
  <2>6. QED
    BY <2>4, <2>5, ClosedAfter
<1>6. ASSUME NEW o \in Objects, NEW t \in Threads, Root(t, o)
      PROVE  NoDangling'
  <2>1. Held' \subseteq Held \cup {o}
    BY <1>2, <1>6 DEF Root, Held, TypeOK
  <2>2. Closed(R)' /\ R \subseteq Live'
    BY <1>1, <1>2, <1>6, <2>1 DEF Root, Closed, Live, Successors
  <2>3. QED
    BY <2>2, ClosedAfter
<1>7. ASSUME NEW o \in Objects, NEW t \in Threads, DropRoot(t, o)
      PROVE  NoDangling'
  <2>1. Held' \subseteq Held
    BY <1>2, <1>7 DEF DropRoot, Held, TypeOK
  <2>2. Closed(R)' /\ R \subseteq Live'
    BY <1>2, <1>7, <2>1 DEF DropRoot, Closed, Live, Successors
  <2>3. QED
    BY <2>2, ClosedAfter
<1>8. ASSUME NEW o \in Objects, NEW t \in Threads, NEW f \in Fields,
             NEW v \in Objects \cup {Null}, Store(t, o, f, v)
      PROVE  NoDangling'
  <2>1. \A x \in R : Successors(x)' \subseteq Successors(x) \cup ({v} \ {Null})
    BY <1>2, <1>8 DEF Store, Successors, TypeOK
  <2>2. {v} \ {Null} \subseteq R
    BY <1>1, <1>8 DEF Store
  <2>3. Closed(R)' /\ R \subseteq Live'
    BY <1>2, <1>8, <2>1, <2>2 DEF Store, Closed, Live, Held
  <2>4. QED
    BY <2>3, ClosedAfter
<1>9. QED
  BY <1>3, <1>4, <1>5, <1>6, <1>7, <1>8 DEF Next

(***************************************************************************)
(* A heap that keeps the promise never drops what its program can reach:   *)
(* whatever the order of allocations, roots, stores and collections, and   *)
(* whatever the threads, no GcRoot and no cell it leads to dangles.        *)
(***************************************************************************)
THEOREM PromiseIsSafe == Spec => []NoDangling
<1>1. Init => Inv
  BY InitSafe
<1>2. Inv /\ [Next]_vars => Inv'
  BY TypeStep, SafeStep DEF Inv
<1>3. Inv => NoDangling
  BY DEF Inv
<1>4. QED
  BY <1>1, <1>2, <1>3, PTL DEF Spec

=============================================================================
