------------------------------ MODULE MCGcHeap ------------------------------
(***************************************************************************)
(* Instances of GcHeap for TLC: which threads make which calls, and what   *)
(* the program has built before the run starts.                            *)
(***************************************************************************)
EXTENDS Refinement, TLC

CONSTANTS t1, t2, t3, o1, o2, o3

NothingBuilt == <<>>
TwoBuilt     == <<o1, o2>>
ThreeBuilt   == <<o1, o2, o3>>

NothingOwned == [t \in Threads |-> {}]
FirstOwned   == [t \in Threads |-> IF t = t1 THEN {o1} ELSE {}]
AllOwned     == [t \in Threads |-> IF t = t1 THEN {o1, o2, o3} ELSE {}]
EachOwns     == [t \in Threads |-> {o1, o3}]
ShareFirst   == [t \in Threads |-> IF t = t3 THEN {} ELSE {o1}]

(***************************************************************************)
(* Every thread but t3 makes the calls in cs; t3 only collects.            *)
(***************************************************************************)
WithCollector(cs) ==
  [t \in Threads |-> IF t = t3 THEN {"force_collect"} ELSE cs]

EveryCall == [t \in Threads |->
                {"allocate", "link", "clone", "drop", "set", "move", "clear",
                 "root", "force_collect", "collect", "allocation_count"}]

Allocating == WithCollector({"allocate", "clone", "drop", "clear"})

LeafCells == [t \in Threads |-> {"clone", "drop", "set_leaf", "clear"}]

(***************************************************************************)
(* Nobody gives up a GcRoot, so a leaf that is stored stays rooted.        *)
(***************************************************************************)
FreshLeaves == WithCollector({"allocate", "set_leaf"})

StartAndStop ==
  [t \in Threads |->
     IF t = t3 THEN {"allocate", "drop", "force_collect", "start"}
               ELSE {"stop"}]

OnlyCollecting == [t \in Threads |-> {"force_collect"}]

Linking == WithCollector({"link", "drop"})

AllocatingAndDropping == WithCollector({"allocate", "drop"})

ObjectSymmetry == Permutations(Objects \ NoTrace)

ThreadSymmetry == Permutations(Threads \ {t3})

LeafSymmetry == Permutations(NoTrace) \cup ThreadSymmetry

MutatorSymmetry == ObjectSymmetry \cup ThreadSymmetry

=============================================================================
