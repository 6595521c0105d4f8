----------------------------- MODULE CycleProofs ----------------------------
(***************************************************************************)
(* A whole collection, for a program in which one thread collects and      *)
(* allocates while others use the graph: what the program can reach is     *)
(* never dropped.  The invariant says at every step of a cycle which boxes *)
(* will be left when it ends, and that they hold all the program can       *)
(* reach; when no other thread disturbs the cycle, they are exactly that.  *)
(***************************************************************************)
EXTENDS GcHeapProofs

USE DEF listVars, objectVars, counterVars

-----------------------------------------------------------------------------

(***************************************************************************)
(* A program in which one thread collects and allocates, and the others    *)
(* clone and drop GcRoots, clear cells and store pointers to leaves in     *)
(* them: a program of one thread that makes any call, or one that works on *)
(* a graph while the background thread collects.  A work budget of 0 would *)
(* make every round of marking the last one.                               *)
(***************************************************************************)
LeafCalls == {"clone", "drop", "set_leaf", "clear"}

LeafMutators(c) ==
  /\ SoleCollector(c)
  /\ \A t \in Threads \ {c} : Calls[t] \subseteq LeafCalls
  /\ IncrementalWorkBudget > 0

(***************************************************************************)
(* Where such a thread is: between two calls, or in the set of a cell of   *)
(* an object it holds, with a leaf it holds as the value.                  *)
(***************************************************************************)
SetLabel == {"busy_check", "busy_dec", "shade", "shade_merge", "store"}

LeafStore(t) ==
  /\ pc[t] \in SetLabel \cup {"ready"}
  /\ local[t].tracer = <<>>
  /\ pc[t] # "ready" =>
       /\ local[t].op = "set"
       /\ local[t].current \in HeldBy(t) \ NoTrace
       /\ local[t].field \in Fields
       /\ local[t].value \in (HeldBy(t) \cap NoTrace) \cup {Null}

(***************************************************************************)
(* The phase is where the collector is, and nobody stops the collector in  *)
(* the middle of a cycle.                                                  *)
(***************************************************************************)
ScanLabel == {"roots_head", "roots"}

MarkingLabel == ScanLabel \cup MarkLabel

SweepingLabel == SweepLabel \cup {"finish_sweep"}

InPhase(c) ==
  /\ pc[c] \in MarkingLabel => phase = "Marking" /\ local[c].op = "collect"
  /\ pc[c] \in SweepingLabel => phase = "Sweeping"
  /\ pc[c] \notin MarkingLabel \cup SweepingLabel => phase = "Idle"
  /\ pc[c] \notin {"bg_abort", "shade", "shade_merge"}
  /\ c \in Background => ~ is_stopped(c)

(***************************************************************************)
(* What the collector has in hand: objects are in the shared queue only    *)
(* between the root scan and a round of marking that finds none, and walks *)
(* stand at nodes of the list.                                             *)
(***************************************************************************)
Hands(c) ==
  /\ pc[c] \notin {"mark", "trace", "bg_check"} => gray_queue = <<>>
  /\ pc[c] = "trace" => local[c].tracing \in Objects
  /\ pc[c] \in MarkLabel \cup {"sweep_head"} => local[c].current = Null
  /\ pc[c] \in {"roots", "count"} => local[c].current \in InList \cup {Null}

(***************************************************************************)
(* What the calls of the collecting thread work on.                        *)
(***************************************************************************)
OwnCalls(c) ==
  /\ pc[c] \in {"busy_check", "busy_dec"} => local[c].op \in {"allocate", "set"}
  /\ pc[c] = "store" => local[c].op = "set"
  /\ pc[c] \in SetLabel /\ local[c].op = "set" =>
       /\ c \in Threads
       /\ local[c].current \in HeldBy(c) \ NoTrace
       /\ local[c].field \in Fields

ControlInv(c) == /\ \A t \in Threads \ {c} : LeafStore(t)
                 /\ InPhase(c)
                 /\ Hands(c)
                 /\ OwnCalls(c)

-----------------------------------------------------------------------------

(***************************************************************************)
(* A step of a thread that only stores leaves.                             *)
(***************************************************************************)
LeafMove(t) == \/ CloneRoot(t) \/ DropRoot(t) \/ CellSet(t) \/ BusyCheck(t)
               \/ DecrementBusyMarking(t) \/ CellShade(t) \/ CellMergeWork(t)
               \/ CellStore(t)

(***************************************************************************)
(* Of such a thread, these are all the steps.                              *)
(***************************************************************************)
LEMMA LeafMoves ==
  ASSUME NEW c, LeafMutators(c), NEW t \in Threads \ {c}, TypeOK,
         LeafStore(t), MutatorCall(t) \/ CollectorCall(t) \/ ThreadStep(t)
  PROVE  LeafMove(t)
<1>0. Calls[t] \subseteq LeafCalls
  BY DEF LeafMutators
<1>1. ~ CollectorCall(t)
  BY <1>0 DEF LeafCalls, CollectorCall, ForceCollect,
     StartBackgroundCollection, StopBackgroundCollection
<1>2. ~ CycleStep(t) /\ ~ JoinBackgroundThread(t)
  BY DEF LeafStore, SetLabel, CycleStep, SweepStep, MarkStep, MarkPop,
     MarkSteal, TraceField, MarkBlack, MarkNoWork, MarkBudgetSpent,
     TryStartMarking, RootsLoadHead, RootsVisit, RootsMerge, BusyTest,
     StartSweeping, SweepLoadHead, SweepColor, SweepRoot, SweepKeep,
     SweepFree, SweepSubtract, FinishSweep, UpdateThreshold, FinishGc,
     JoinBackgroundThread, Goto
<1>3. CASE MutatorCall(t)
  BY <1>0, <1>3 DEF LeafCalls, MutatorCall, Allocate, CellGet, CountLoadHead,
     LeafMove
<1>4. CASE MutatorStep(t)
  BY <1>4 DEF LeafStore, SetLabel, MutatorStep, AllocateBox,
     AllocateLoadHead, AllocatePublish, AllocateRetry, AllocateReturn,
     RootPointer, ForgetPointer, CountNode, LeafMove, Goto
<1> QED
  BY <1>1, <1>2, <1>3, <1>4 DEF ThreadStep

(***************************************************************************)
(* All it does to the heap is to shade a leaf it holds, or to store one.   *)
(***************************************************************************)
Leaf == Held \cap NoTrace

ShadesLeaf == \/ color' = color
              \/ \E v \in Leaf : color' = [color EXCEPT ![v] = "Black"]

StoresLeaf ==
  \/ ref' = ref
  \/ \E o \in Held \ NoTrace, f \in Fields, v \in Leaf \cup {Null} :
       ref' = [ref EXCEPT ![o][f] = v]

LeafEffect(c) ==
  /\ UNCHANGED <<phase, head, next, mem, gray_queue, bg_thread>>
  /\ pc'[c] = pc[c] /\ local'[c] = local[c]
  /\ c \in Threads => HeldBy(c) \subseteq HeldBy(c)'
  /\ Held' \subseteq Held
  /\ ShadesLeaf
  /\ StoresLeaf

(***************************************************************************)
(* All that any of its steps does to the heap is one of the two.           *)
(***************************************************************************)
LEMMA LeafMoveEffect ==
  ASSUME NEW c \in Procs, LeafMutators(c), TypeOK, TypeOK',
         \A u \in Threads \ {c} : LeafStore(u),
         NEW t \in Threads \ {c}, LeafMove(t)
  PROVE  LeafEffect(c) /\ \A u \in Threads \ {c} : LeafStore(u)'
<1> DEFINE l == local[t]
<1>0. /\ t \in Procs /\ l \in Locals /\ LeafStore(t) /\ c \in Procs \ {t}
      /\ Threads \subseteq Procs
  BY LocalType DEF Procs
<1>a. handles \in [Threads -> [Objects -> 0..MaxHandles]] /\ MaxHandles \in Nat
  BY HeapAssumption DEF TypeOK
<1>b. HeldBy(t) \subseteq Held
  BY DEF HeldBy, Held
<1>1. Others(t)
  BY <1>0, MutatorCallCounts, MutatorStepCounts
  DEF LeafMove, BusyStep, MutatorCall, MutatorStep
<1>2. pc'[c] = pc[c] /\ local'[c] = local[c]
  BY <1>0, <1>1 DEF Others
<1>3. ASSUME pc'[t] \notin PushLabel, handles' = handles
      PROVE  Held' \subseteq Held
  <2>1. \A o \in Objects : InAllocate(o)' => InAllocate(o)
    BY <1>0, <1>1, <1>3 DEF InAllocate, Others, PushLabel
  <2> QED
    BY <1>3, <2>1 DEF Held
<1>4. ASSUME handles' = handles, LeafStore(t)'
      PROVE  \A u \in Threads \ {c} : LeafStore(u)'
  <2> SUFFICES ASSUME NEW u \in Threads \ {c, t} PROVE LeafStore(u)'
    BY <1>4
  <2>1. pc'[u] = pc[u] /\ local'[u] = local[u]
    BY <1>0, <1>1 DEF Others
  <2> QED
    BY <1>4, <2>1 DEF LeafStore, HeldBy
<1>5. CASE CloneRoot(t) \/ DropRoot(t)
  <2>1. /\ pc[t] = "ready" /\ pc' = pc /\ local' = local
        /\ UNCHANGED <<phase, head, next, color, ref, mem, gray_queue,
                       bg_thread>>
    BY <1>5 DEF CloneRoot, DropRoot
  <2>2. \A u \in Threads \ {t} : HeldBy(u) \subseteq HeldBy(u)'
    <3>1. CASE CloneRoot(t)
      <4>1. PICK o \in HeldBy(t), u \in Threads :
              handles' = [handles EXCEPT ![u][o] = @ + 1]
        BY <3>1 DEF CloneRoot
      <4> QED
        BY <1>a, <4>1 DEF HeldBy
    <3>2. CASE DropRoot(t)
      <4>1. PICK o \in HeldBy(t) : handles' = [handles EXCEPT ![t][o] = @ - 1]
        BY <3>2 DEF DropRoot
      <4> QED
        BY <1>a, <4>1 DEF HeldBy
    <3> QED
      BY <1>5, <3>1, <3>2
  <2>3. Held' \subseteq Held
    <3>1. \A o \in Objects : InAllocate(o)' => InAllocate(o)
      BY <2>1 DEF InAllocate
    <3>2. CASE CloneRoot(t)
      <4>1. PICK o \in HeldBy(t), u \in Threads :
              handles' = [handles EXCEPT ![u][o] = @ + 1]
        BY <3>2 DEF CloneRoot
      <4> QED
        BY <1>a, <1>b, <3>1, <4>1 DEF HeldBy, Held
    <3>3. CASE DropRoot(t)
      <4>1. PICK o \in HeldBy(t) : handles' = [handles EXCEPT ![t][o] = @ - 1]
        BY <3>3 DEF DropRoot
      <4> QED
        BY <1>a, <1>b, <3>1, <4>1 DEF HeldBy, Held
    <3> QED
      BY <1>5, <3>2, <3>3
  <2>4. \A u \in Threads \ {c} : LeafStore(u)'
    <3>1. LeafStore(t)'
      BY <1>0, <2>1 DEF LeafStore
    <3> QED
      BY <2>1, <2>2, <3>1 DEF LeafStore
  <2> QED
    BY <2>1, <2>2, <2>3, <2>4 DEF LeafEffect, ShadesLeaf, StoresLeaf
<1>6. CASE CellSet(t)
  <2>1. PICK o \in HeldBy(t) \ NoTrace, f \in Fields, v \in NewValues(t) :
          SetLocal(t, [l EXCEPT !.op = "set", !.current = o, !.field = f,
                                !.value = v])
    BY <1>6 DEF CellSet
  <2>a. local'[t] = [l EXCEPT !.op = "set", !.current = o, !.field = f,
                              !.value = v]
    BY <1>0, <2>1, SetLocalMoves
  <2>2. /\ pc'[t] = "busy_check"
        /\ UNCHANGED <<phase, head, next, color, ref, mem, gray_queue,
                       bg_thread, handles>>
    BY <1>0, <1>6, GotoMoves DEF CellSet
  <2>3. v \in (HeldBy(t) \cap NoTrace) \cup {Null}
    BY DEF NewValues, LeafMutators, LeafCalls
  <2>4. LeafStore(t)'
    BY <1>0, <2>a, <2>2, <2>3 DEF LeafStore, SetLabel, HeldBy, Locals
  <2> QED
    BY <1>2, <1>3, <1>4, <2>2, <2>4
    DEF LeafEffect, ShadesLeaf, StoresLeaf, PushLabel, HeldBy
<1>7. CASE BusyCheck(t) \/ DecrementBusyMarking(t)
  <2>1. /\ pc'[t] \in {"mark", "shade", "busy_dec", "alloc_box", "store"}
        /\ pc'[t] \in {"mark", "alloc_box"} => l.op = "allocate"
        /\ local' = local /\ pc[t] # "ready"
        /\ UNCHANGED <<phase, head, next, color, ref, mem, gray_queue,
                       bg_thread, handles>>
    BY <1>0, <1>7, GotoMoves
    DEF BusyCheck, DecrementBusyMarking, AfterBusy, TypeOK
  <2>2. LeafStore(t)'
    BY <1>0, <2>1 DEF LeafStore, SetLabel, HeldBy
  <2> QED
    BY <1>2, <1>3, <1>4, <2>1, <2>2
    DEF LeafEffect, ShadesLeaf, StoresLeaf, PushLabel, HeldBy
<1>8. CASE CellShade(t) \/ CellMergeWork(t)
  <2>1. pc[t] \in {"shade", "shade_merge"} /\ l.tracer = <<>>
        /\ l.value \in (HeldBy(t) \cap NoTrace) \cup {Null}
    BY <1>0, <1>8 DEF CellShade, CellMergeWork, Goto, LeafStore
  <2>2. MarkTracer(<<>>, l.value) = <<>>
    BY <2>1, HeapAssumption DEF MarkTracer
  <2>3. local'[t] = [l EXCEPT !.tracer = <<>>]
    BY <1>0, <1>8, <2>1, <2>2, SetLocalMoves DEF CellShade, CellMergeWork
  <2>4. /\ pc'[t] \in {"shade_merge", "busy_dec"}
        /\ UNCHANGED <<phase, head, next, ref, mem, bg_thread, handles>>
    BY <1>0, <1>8, GotoMoves DEF CellShade, CellMergeWork
  <2>5. LeafStore(t)'
    BY <1>0, <2>1, <2>3, <2>4 DEF LeafStore, SetLabel, HeldBy, Locals
  <2>6. gray_queue' = gray_queue
    <3>1. gray_queue \in Seq(Objects)
      BY DEF TypeOK
    <3>2. gray_queue \o <<>> = gray_queue
      BY <3>1
    <3> QED
      BY <1>8, <2>1, <3>2 DEF CellShade, CellMergeWork
  <2>7. ShadesLeaf
    <3>1. CASE CellShade(t) /\ l.value # Null
      <4>1. l.value \in Leaf
        BY <1>b, <2>1, <3>1 DEF Leaf
      <4>2. color' = [color EXCEPT ![l.value] = "Black"]
        BY <2>1, <3>1 DEF CellShade, MarkColor
      <4> QED
        BY <4>1, <4>2 DEF ShadesLeaf
    <3>2. CASE CellShade(t) /\ l.value = Null
      <4>1. color' = MarkColor(Null) /\ Null \notin NoTrace
        BY <3>2, HeapAssumption DEF CellShade
      <4> QED
        BY <4>1 DEF MarkColor, ShadesLeaf
    <3>3. CASE CellMergeWork(t)
      BY <3>3 DEF CellMergeWork, ShadesLeaf
    <3> QED
      BY <1>8, <3>1, <3>2, <3>3
  <2> QED
    BY <1>2, <1>3, <1>4, <2>4, <2>5, <2>6, <2>7
    DEF LeafEffect, StoresLeaf, PushLabel, HeldBy
<1>9. CASE CellStore(t)
  <2>1. /\ pc[t] = "store" /\ pc'[t] = "ready" /\ local'[t] = NoLocals
        /\ ref' = [ref EXCEPT ![l.current][l.field] = l.value]
        /\ UNCHANGED <<phase, head, next, color, mem, gray_queue, bg_thread,
                       handles>>
    BY <1>0, <1>9, GotoMoves, SetLocalMoves DEF CellStore
  <2>2. /\ l.current \in Held \ NoTrace /\ l.field \in Fields
        /\ l.value \in Leaf \cup {Null}
    BY <1>0, <1>b, <2>1 DEF LeafStore, Leaf
  <2>3. LeafStore(t)'
    BY <2>1 DEF LeafStore, NoLocals
  <2> QED
    BY <1>2, <1>3, <1>4, <2>1, <2>2, <2>3
    DEF LeafEffect, ShadesLeaf, StoresLeaf, PushLabel, HeldBy
<1> QED
  BY <1>5, <1>6, <1>7, <1>8, <1>9 DEF LeafMove

(***************************************************************************)
(* Where the collecting thread works for the program, it is not collecting *)
(* and nobody marks.                                                       *)
(***************************************************************************)
LEMMA InitControlInv ==
  ASSUME NEW c \in Procs, LeafMutators(c), Init
  PROVE  ControlInv(c)
<1>0. SoleCollector(c) /\ TypeOK
  BY InitTypeOK DEF LeafMutators
<1>1. /\ \A p \in Procs : local[p] = NoLocals
      /\ \A p \in Threads : pc[p] = "ready"
      /\ gray_queue = <<>> /\ phase = "Idle" /\ Threads \subseteq Procs
  BY DEF Init, Procs
<1>2. c \in Background => /\ c = 1 /\ pc[c] = "bg_enter"
                         /\ bg_thread = [counter |-> 1, handle |-> 1]
  <2> SUFFICES ASSUME c \in Background
               PROVE  /\ c = 1 /\ pc[c] = "bg_enter"
                      /\ bg_thread = [counter |-> 1, handle |-> 1]
    OBVIOUS
  <2>1. ~ is_background_collection_off /\ Background = 1..MaxStarts
    BY DEF Background
  <2>2. 1 \in Background
    BY <2>1, HeapAssumption
  <2>3. c = 1
    BY <1>0, <2>2 DEF SoleCollector
  <2>4. c \notin Threads
    BY HeapAssumption
  <2> QED
    BY <2>1, <2>3, <2>4 DEF Init
<1>3. pc[c] \in {"ready", "bg_enter"}
  BY <1>1, <1>2 DEF Procs
<1>4. InPhase(c)
  BY <1>1, <1>2, <1>3 DEF InPhase, MarkingLabel, SweepingLabel, ScanLabel,
     MarkLabel, SweepLabel, is_stopped
<1>5. Hands(c) /\ OwnCalls(c)
  BY <1>1, <1>3 DEF Hands, OwnCalls, MarkLabel, SetLabel
<1>6. \A t \in Threads : LeafStore(t)
  BY <1>1 DEF LeafStore, NoLocals
<1> QED
  BY <1>4, <1>5, <1>6 DEF ControlInv

(***************************************************************************)
(* The others leave the collector where it is.                             *)
(***************************************************************************)
LEMMA LeafEffectKeepsControl ==
  ASSUME NEW c \in Procs, ControlInv(c), LeafEffect(c),
         \A u \in Threads \ {c} : LeafStore(u)'
  PROVE  ControlInv(c)'
<1>1. InPhase(c)'
  BY DEF ControlInv, InPhase, LeafEffect, is_stopped
<1>2. Hands(c)'
  BY DEF ControlInv, Hands, LeafEffect, InList
<1>3. OwnCalls(c)'
  <2>1. c \in Threads => HeldBy(c) \subseteq HeldBy(c)'
    BY DEF LeafEffect
  <2>2. OwnCalls(c) /\ pc'[c] = pc[c] /\ local'[c] = local[c]
    BY DEF ControlInv, LeafEffect
  <2> QED
    BY <2>1, <2>2 DEF OwnCalls
<1> QED
  BY <1>1, <1>2, <1>3 DEF ControlInv

(***************************************************************************)
(* A step of the collecting thread takes no GcRoot from another thread.    *)
(***************************************************************************)
LEMMA OthersKeepTheirStores ==
  ASSUME NEW c \in Procs, TypeOK, Others(c),
         \A u \in Threads \ {c} : LeafStore(u),
         \A u \in Threads \ {c} : HeldBy(u) \subseteq HeldBy(u)'
  PROVE  \A u \in Threads \ {c} : LeafStore(u)'
<1> SUFFICES ASSUME NEW u \in Threads \ {c} PROVE LeafStore(u)'
  OBVIOUS
<1>1. pc'[u] = pc[u] /\ local'[u] = local[u]
  BY DEF Others, Procs
<1> QED
  BY <1>1 DEF LeafStore

(***************************************************************************)
(* The calls of the collecting thread.                                     *)
(***************************************************************************)
LEMMA OwnCallKeepsRoots ==
  ASSUME TypeOK, NEW c \in Threads, MutatorCall(c) \/ MutatorStep(c)
  PROVE  /\ \A u \in Threads \ {c} : HeldBy(u) \subseteq HeldBy(u)'
         /\ DropRoot(c) \/ HeldBy(c) \subseteq HeldBy(c)'
<1>a. handles \in [Threads -> [Objects -> 0..MaxHandles]] /\ MaxHandles \in Nat
  BY HeapAssumption DEF TypeOK
<1>1. CASE handles' = handles
  BY <1>1 DEF HeldBy
<1>2. CASE CloneRoot(c)
  <2>1. PICK o \in HeldBy(c), u \in Threads :
          handles' = [handles EXCEPT ![u][o] = @ + 1]
    BY <1>2 DEF CloneRoot
  <2> QED
    BY <1>a, <2>1 DEF HeldBy
<1>3. CASE DropRoot(c)
  <2>1. PICK o \in HeldBy(c) : handles' = [handles EXCEPT ![c][o] = @ - 1]
    BY <1>3 DEF DropRoot
  <2> QED
    BY <1>a, <1>3, <2>1 DEF HeldBy
<1>4. CASE AllocateReturn(c)
  <2>1. handles' = [handles EXCEPT ![c][local[c].current] = 1]
    BY <1>4 DEF AllocateReturn
  <2> QED
    BY <1>a, <2>1 DEF HeldBy
<1>5. CASE RootPointer(c)
  <2>1. handles' = [handles EXCEPT ![c][local[c].value] = @ + 1]
    BY <1>5 DEF RootPointer
  <2> QED
    BY <1>a, <2>1 DEF HeldBy
<1>6. CASE \/ Allocate(c) \/ CellSet(c) \/ CellGet(c) \/ CountLoadHead(c)
           \/ BusyCheck(c) \/ DecrementBusyMarking(c) \/ AllocateBox(c)
           \/ AllocateLoadHead(c) \/ AllocatePublish(c) \/ AllocateRetry(c)
           \/ CellShade(c) \/ CellMergeWork(c) \/ CellStore(c)
           \/ ForgetPointer(c) \/ CountNode(c)
  <2>1. handles' = handles
    BY <1>6 DEF Allocate, CellSet, CellGet, CountLoadHead, BusyCheck,
       DecrementBusyMarking, AllocateBox, AllocateLoadHead, AllocatePublish,
       AllocateRetry, CellShade, CellMergeWork, CellStore, ForgetPointer,
       CountNode
  <2> QED
    BY <1>1, <2>1
<1> QED
  BY <1>2, <1>3, <1>4, <1>5, <1>6 DEF MutatorCall, MutatorStep

(***************************************************************************)
(* Where the steps of its calls take it.                                   *)
(***************************************************************************)
CallLabel == {"ready", "busy_check", "busy_dec", "alloc_box", "alloc_load",
              "alloc_cas", "alloc_add", "store", "rooting", "count"}

(***************************************************************************)
(* The calls of the collecting thread, between two of its collections.     *)
(***************************************************************************)
LEMMA OwnCallKeepsControl ==
  ASSUME NEW c \in Threads, LeafMutators(c), ControlInv(c), TypeOK, TypeOK',
         InList' = InList \/ AllocatePublish(c), ListClosed(InList),
         MutatorCall(c) \/ MutatorStep(c)
  PROVE  /\ ControlInv(c)'
         /\ pc[c] \in CallLabel /\ pc'[c] \in CallLabel
         /\ ~ CellShade(c) /\ ~ CellMergeWork(c)
         /\ UNCHANGED <<phase, gray_queue, bg_thread>>
<1> DEFINE l == local[c]
<1>0. /\ c \in Procs /\ l \in Locals /\ NoLocals \in Locals
      /\ InPhase(c) /\ OwnCalls(c) /\ Hands(c)
  BY LocalType DEF Procs, ControlInv
<1>1. ~ CellShade(c) /\ ~ CellMergeWork(c)
  BY <1>0 DEF InPhase, CellShade, CellMergeWork, Goto
<1>2. Others(c)
  BY <1>0, MutatorCallCounts, MutatorStepCounts DEF BusyStep
<1>3. \A u \in Threads \ {c} : LeafStore(u)'
  BY <1>0, <1>2, OwnCallKeepsRoots, OthersKeepTheirStores DEF ControlInv
<1>4. pc[c] \in CallLabel
  BY <1>0, <1>1 DEF MutatorCall, MutatorStep, CloneRoot, DropRoot, Allocate,
     CellSet, CellGet, CountLoadHead, BusyCheck, DecrementBusyMarking,
     AllocateBox, AllocateLoadHead, AllocatePublish, AllocateRetry,
     AllocateReturn, CellStore, RootPointer, ForgetPointer, CountNode, Goto,
     CallLabel
<1>5. phase = "Idle" /\ gray_queue = <<>>
  BY <1>0, <1>4 DEF InPhase, Hands, CallLabel, MarkingLabel, SweepingLabel,
     ScanLabel, MarkLabel, SweepLabel
<1>6. UNCHANGED <<phase, gray_queue, bg_thread>>
  BY <1>1 DEF MutatorCall, MutatorStep, CloneRoot, DropRoot, Allocate,
     CellSet, CellGet, CountLoadHead, BusyCheck, DecrementBusyMarking,
     AllocateBox, AllocateLoadHead, AllocatePublish, AllocateRetry,
     AllocateReturn, CellStore, RootPointer, ForgetPointer, CountNode
<1>7. /\ pc'[c] \in CallLabel
      /\ pc'[c] \in {"busy_check", "busy_dec", "store"} =>
           \/ CellSet(c) \/ Allocate(c)
           \/ /\ pc[c] \in {"busy_check", "busy_dec"} /\ local' = local
              /\ handles' = handles
              /\ pc'[c] = "store" => l.op # "allocate"
      /\ pc'[c] = "count" => CountLoadHead(c) \/ CountNode(c)
  <2>1. CASE MutatorCall(c)
    <3>1. CASE CloneRoot(c) \/ DropRoot(c)
      BY <3>1 DEF CloneRoot, DropRoot, CallLabel
    <3>2. CASE Allocate(c)
      <4>1. pc'[c] \in {"busy_check", "alloc_box"}
        BY <1>0, <3>2, GotoMoves DEF Allocate
      <4> QED
        BY <3>2, <4>1 DEF CallLabel
    <3>3. CASE CellSet(c)
      <4>1. pc'[c] = "busy_check"
        BY <1>0, <3>3, GotoMoves DEF CellSet
      <4> QED
        BY <3>3, <4>1 DEF CallLabel
    <3>4. CASE CellGet(c) \/ CountLoadHead(c)
      <4>1. /\ pc'[c] \in {"rooting", "count"}
            /\ pc'[c] = "count" => CountLoadHead(c)
        BY <1>0, <3>4, GotoMoves DEF CellGet, CountLoadHead
      <4> QED
        BY <4>1 DEF CallLabel
    <3> QED
      BY <2>1, <3>1, <3>2, <3>3, <3>4 DEF MutatorCall
  <2>2. CASE BusyCheck(c)
    BY <1>0, <1>5, <2>2 DEF BusyCheck, is_marking, TypeOK, CallLabel
  <2>3. CASE CountNode(c)
    BY <1>0, <2>3 DEF CountNode, TypeOK, CallLabel
  <2>4. CASE DecrementBusyMarking(c)
    BY <1>0, <2>4, GotoMoves DEF DecrementBusyMarking, AfterBusy, CallLabel
  <2>5. CASE \/ AllocateBox(c) \/ AllocateLoadHead(c) \/ AllocatePublish(c)
             \/ AllocateRetry(c) \/ AllocateReturn(c) \/ CellStore(c)
             \/ RootPointer(c) \/ ForgetPointer(c)
    BY <1>0, <2>5, GotoMoves DEF AllocateBox, AllocateLoadHead,
       AllocatePublish, AllocateRetry, AllocateReturn, CellStore,
       RootPointer, ForgetPointer, CallLabel
  <2> QED
    BY <1>1, <2>1, <2>2, <2>3, <2>4, <2>5 DEF MutatorStep
<1>8. InPhase(c)'
  BY <1>0, <1>5, <1>6, <1>7 DEF InPhase, is_stopped, CallLabel, MarkingLabel,
     SweepingLabel, ScanLabel, MarkLabel, SweepLabel
<1>9. Hands(c)'
  <2>1. pc'[c] = "count" => local'[c].current \in (InList \cup {Null})'
    <3>1. CASE CountLoadHead(c)
      <4>1. local'[c] = [l EXCEPT !.current = head] /\ ~ AllocatePublish(c)
        BY <1>0, <3>1, SetLocalMoves DEF CountLoadHead, AllocatePublish, Goto
      <4>2. local'[c].current = head
        BY <1>0, <4>1 DEF Locals
      <4> QED
        BY <4>1, <4>2 DEF ListClosed
    <3>2. CASE CountNode(c) /\ pc'[c] = "count"
      <4>1. pc[c] = "count" /\ l.current # Null /\ ~ AllocatePublish(c)
            /\ SetLocal(c, [l EXCEPT !.current = next[l.current]])
        BY <1>0, <3>2 DEF CountNode, AllocatePublish, Goto, TypeOK
      <4>2. local'[c] = [l EXCEPT !.current = next[l.current]]
        BY <1>0, <4>1, SetLocalMoves
      <4>3. local'[c].current = next[l.current] /\ l.current \in InList
        BY <1>0, <4>1, <4>2 DEF Locals, Hands
      <4> QED
        BY <4>1, <4>3 DEF ListClosed
    <3> QED
      BY <1>7, <3>1, <3>2
  <2> QED
    BY <1>5, <1>6, <1>7, <2>1 DEF Hands, CallLabel, MarkLabel
<1>10. OwnCalls(c)'
  <2>1. CASE CellSet(c)
    <3>1. PICK o \in HeldBy(c) \ NoTrace, f \in Fields, v \in NewValues(c) :
            SetLocal(c, [l EXCEPT !.op = "set", !.current = o, !.field = f,
                                  !.value = v])
      BY <2>1 DEF CellSet
    <3>2. local'[c] = [l EXCEPT !.op = "set", !.current = o, !.field = f,
                                !.value = v]
      BY <1>0, <3>1, SetLocalMoves
    <3>3. pc'[c] = "busy_check" /\ handles' = handles
      BY <1>0, <2>1, GotoMoves DEF CellSet
    <3> QED
      BY <1>0, <3>2, <3>3 DEF OwnCalls, HeldBy, Locals
  <2>2. CASE Allocate(c)
    <3>1. PICK o \in Objects :
            SetLocal(c, [l EXCEPT !.op = "allocate", !.current = o])
      BY <2>2 DEF Allocate
    <3>2. local'[c] = [l EXCEPT !.op = "allocate", !.current = o]
      BY <1>0, <3>1, SetLocalMoves
    <3>3. local'[c].op = "allocate" /\ pc'[c] \in {"busy_check", "alloc_box"}
      BY <1>0, <2>2, <3>2, GotoMoves DEF Allocate, Locals
    <3> QED
      BY <3>3 DEF OwnCalls
  <2>3. CASE pc'[c] \notin {"busy_check", "busy_dec", "store"}
    BY <1>7, <2>3 DEF OwnCalls, SetLabel, CallLabel
  <2>4. CASE /\ pc[c] \in {"busy_check", "busy_dec"} /\ local' = local
             /\ handles' = handles
             /\ pc'[c] = "store" => l.op # "allocate"
             /\ pc'[c] \in {"busy_check", "busy_dec", "store"}
    BY <1>0, <2>4 DEF OwnCalls, SetLabel, HeldBy
  <2> QED
    BY <1>7, <2>1, <2>2, <2>3, <2>4
<1> QED
  BY <1>1, <1>3, <1>4, <1>6, <1>7, <1>8, <1>9, <1>10 DEF ControlInv

(***************************************************************************)
(* A round of marking ends the loop only when it found both queues empty:  *)
(* one that ends because its budget is spent has done work.                *)
(***************************************************************************)
LEMMA MarkStepKeepsControl ==
  ASSUME NEW c \in Procs, LeafMutators(c), ControlInv(c), TypeOK, TypeOK',
         MarkStep(c)
  PROVE  /\ InPhase(c)' /\ Hands(c)' /\ OwnCalls(c)'
         /\ pc[c] \in {"mark", "trace"}
         /\ pc'[c] \in {"mark", "trace", "busy_test", "bg_check"}
<1> DEFINE l == local[c]
<1> USE DEF MarkingLabel, SweepingLabel, ScanLabel, MarkLabel, SweepLabel
<1>0. /\ l \in Locals /\ InPhase(c) /\ Hands(c)
  BY LocalType DEF ControlInv
<1>1. /\ pc[c] \in {"mark", "trace"}
      /\ UNCHANGED <<phase, head, next, bg_thread>>
  BY DEF MarkStep, MarkPop, MarkSteal, TraceField, MarkBlack, MarkNoWork,
     MarkBudgetSpent, Goto
<1>2. l.op = "collect" /\ l.current = Null /\ phase = "Marking"
  BY <1>0, <1>1 DEF InPhase, Hands
<1>3. local'[c].op = "collect" /\ local'[c].current = Null
  BY <1>2, MarkStepStands DEF SameWalk
<1>4. /\ pc'[c] \in {"mark", "trace", "busy_test", "bg_check"}
      /\ pc'[c] = "trace" => local'[c].tracing \in Objects
      /\ pc'[c] = "busy_test" => gray_queue' = <<>>
  <2>1. CASE MarkPop(c)
    <3>1. /\ pc'[c] = "trace" /\ l.tracer # <<>>
          /\ local'[c] = [l EXCEPT
                            !.tracer = SubSeq(l.tracer, 1, Len(l.tracer) - 1),
                            !.tracing = l.tracer[Len(l.tracer)],
                            !.pending = IF l.tracer[Len(l.tracer)] \in NoTrace
                                        THEN {} ELSE Fields]
      BY <2>1, GotoMoves, SetLocalMoves DEF MarkPop
    <3>2. l.tracer \in Seq(Objects)
      BY <1>0 DEF Locals
    <3>3. l.tracer[Len(l.tracer)] \in Objects
      BY <3>1, <3>2, PopType
    <3>4. local'[c].tracing = l.tracer[Len(l.tracer)]
      BY <1>0, <3>1 DEF Locals
    <3> QED
      BY <3>1, <3>3, <3>4
  <2>2. CASE MarkSteal(c)
    BY <2>2 DEF MarkSteal
  <2>3. CASE TraceField(c)
    <3>1. PICK f \in l.pending :
            SetLocal(c, [l EXCEPT !.tracer = MarkTracer(@, ref[l.tracing][f]),
                                  !.pending = @ \ {f}])
      BY <2>3 DEF TraceField
    <3>2. local'[c] = [l EXCEPT !.tracer = MarkTracer(@, ref[l.tracing][f]),
                                !.pending = @ \ {f}]
      BY <3>1, SetLocalMoves
    <3>3. local'[c].tracing = l.tracing
      BY <1>0, <3>2 DEF Locals
    <3> QED
      BY <1>0, <2>3, <3>3 DEF TraceField, Hands
  <2>4. CASE MarkBlack(c)
    BY <2>4, GotoMoves DEF MarkBlack
  <2>5. CASE MarkNoWork(c)
    <3>1. pc'[c] = AfterMarking(c) /\ gray_queue' = <<>>
      BY <2>5, GotoMoves DEF MarkNoWork
    <3> QED
      BY <1>2, <3>1 DEF AfterMarking
  <2>6. CASE MarkBudgetSpent(c)
    <3>1. pc'[c] = AfterMarking(c) /\ ~ HasBudget(c)
      BY <2>6, GotoMoves DEF MarkBudgetSpent
    <3>2. l.work_done # 0
      BY <1>0, <1>2, <3>1, HeapAssumption
      DEF HasBudget, WorkBudget, LeafMutators, Locals
    <3> QED
      BY <1>2, <3>1, <3>2 DEF AfterMarking
  <2> QED
    BY <2>1, <2>2, <2>3, <2>4, <2>5, <2>6 DEF MarkStep
<1>5. InPhase(c)'
  BY <1>0, <1>1, <1>2, <1>3, <1>4 DEF InPhase, is_stopped
<1>6. Hands(c)'
  BY <1>3, <1>4 DEF Hands
<1>7. OwnCalls(c)'
  BY <1>4 DEF OwnCalls, SetLabel
<1> QED
  BY <1>1, <1>4, <1>5, <1>6, <1>7

(***************************************************************************)
(* The other steps of a cycle that do not sweep.                           *)
(***************************************************************************)
LEMMA ScanKeepsControl ==
  ASSUME NEW c \in Procs, ControlInv(c), TypeOK, TypeOK', ListClosed(InList),
         \/ ForceCollect(c) \/ TryStartMarking(c) \/ RootsLoadHead(c)
         \/ RootsVisit(c) \/ RootsMerge(c) \/ BusyTest(c)
  PROVE  InPhase(c)' /\ Hands(c)' /\ OwnCalls(c)'
<1> DEFINE l == local[c]
<1> USE DEF MarkingLabel, SweepingLabel, ScanLabel, MarkLabel, SweepLabel
<1>0. l \in Locals /\ InPhase(c) /\ Hands(c)
  BY LocalType DEF ControlInv
<1>1. CASE ForceCollect(c) \/ (TryStartMarking(c) /\ phase # "Idle")
  <2>1. /\ pc[c] \in {"ready", "try_mark"}
        /\ pc'[c] \in {"try_mark", "ready", "bg_enter"}
        /\ UNCHANGED <<phase, gray_queue, bg_thread>>
    BY <1>1, GotoMoves DEF ForceCollect, TryStartMarking, CollectorHome
  <2> QED
    BY <1>0, <2>1 DEF InPhase, Hands, OwnCalls, SetLabel, is_stopped
<1>2. CASE TryStartMarking(c) /\ phase = "Idle"
  <2>1. /\ pc[c] = "try_mark" /\ pc'[c] = "roots_head" /\ phase' = "Marking"
        /\ local'[c] = [l EXCEPT !.op = "collect"]
        /\ UNCHANGED <<gray_queue, bg_thread>>
    BY <1>2, GotoMoves, SetLocalMoves DEF TryStartMarking
  <2>2. local'[c].op = "collect"
    BY <1>0, <2>1 DEF Locals
  <2> QED
    BY <1>0, <2>1, <2>2 DEF InPhase, Hands, OwnCalls, SetLabel, is_stopped
<1>3. CASE RootsLoadHead(c)
  <2>1. /\ pc[c] = "roots_head" /\ pc'[c] = "roots"
        /\ local'[c] = [l EXCEPT !.current = head]
        /\ UNCHANGED <<phase, gray_queue, bg_thread, head, next>>
    BY <1>3, GotoMoves, SetLocalMoves DEF RootsLoadHead
  <2>2. local'[c].op = l.op /\ local'[c].current = head
    BY <1>0, <2>1 DEF Locals
  <2>3. InList' = InList
    BY <2>1 DEF InList
  <2>4. InPhase(c)'
    BY <1>0, <2>1, <2>2 DEF InPhase, is_stopped
  <2>5. Hands(c)'
    BY <1>0, <2>1, <2>2, <2>3 DEF Hands, ListClosed
  <2> QED
    BY <2>1, <2>4, <2>5 DEF OwnCalls, SetLabel
<1>4. CASE RootsVisit(c)
  <2>1. /\ pc[c] = "roots" /\ pc'[c] = "roots" /\ l.current # Null
        /\ UNCHANGED <<phase, gray_queue, bg_thread, head, next>>
        /\ \/ SetLocal(c, [l EXCEPT !.tracer = PushIfWhite(@, l.current),
                                    !.current = next[l.current]])
           \/ SetLocal(c, [l EXCEPT !.current = next[l.current]])
    BY <1>4 DEF RootsVisit
  <2>2. \/ local'[c] = [l EXCEPT !.tracer = PushIfWhite(@, l.current),
                                 !.current = next[l.current]]
        \/ local'[c] = [l EXCEPT !.current = next[l.current]]
    BY <2>1, SetLocalMoves
  <2>3. local'[c].op = l.op /\ local'[c].current = next[l.current]
    BY <1>0, <2>2 DEF Locals
  <2>4. InList' = InList /\ l.current \in InList
    BY <1>0, <2>1 DEF InList, Hands
  <2>5. InPhase(c)'
    BY <1>0, <2>1, <2>3 DEF InPhase, is_stopped
  <2>6. Hands(c)'
    BY <1>0, <2>1, <2>3, <2>4 DEF Hands, ListClosed
  <2> QED
    BY <2>1, <2>5, <2>6 DEF OwnCalls, SetLabel
<1>5. CASE RootsMerge(c)
  <2>1. /\ pc[c] = "roots" /\ pc'[c] \in {"bg_check", "mark"}
        /\ l.current = Null
        /\ local'[c] = [l EXCEPT !.tracer = <<>>]
        /\ UNCHANGED <<phase, bg_thread>>
    BY <1>5, GotoMoves, SetLocalMoves DEF RootsMerge
  <2>2. local'[c].op = l.op /\ local'[c].current = Null
    BY <1>0, <2>1 DEF Locals
  <2> QED
    BY <1>0, <2>1, <2>2 DEF InPhase, Hands, OwnCalls, SetLabel, is_stopped
<1>6. CASE BusyTest(c)
  <2>1. /\ pc[c] = "busy_test" /\ pc'[c] \in {"sweep_start", "bg_check", "mark"}
        /\ UNCHANGED <<phase, gray_queue, bg_thread, local>>
    BY <1>6, GotoMoves DEF BusyTest
  <2> QED
    BY <1>0, <2>1 DEF InPhase, Hands, OwnCalls, SetLabel, is_stopped
<1> QED
  BY <1>1, <1>2, <1>3, <1>4, <1>5, <1>6

(***************************************************************************)
(* The sweep.                                                              *)
(***************************************************************************)
LEMMA SweepKeepsControl ==
  ASSUME NEW c \in Procs, ControlInv(c), TypeOK, TypeOK', SweepStep(c)
  PROVE  /\ InPhase(c)' /\ Hands(c)' /\ OwnCalls(c)'
         /\ gray_queue' = gray_queue
<1> USE DEF MarkingLabel, SweepingLabel, ScanLabel, MarkLabel, SweepLabel
<1>0. InPhase(c) /\ Hands(c)
  BY DEF ControlInv
<1>1. UNCHANGED <<gray_queue, bg_thread>>
  BY DEF SweepStep, StartSweeping, SweepLoadHead, SweepColor, SweepRoot,
     SweepKeep, SweepFree, SweepSubtract, FinishSweep, UpdateThreshold,
     FinishGc
<1>2. CASE StartSweeping(c)
  <2>1. /\ pc[c] = "sweep_start" /\ pc'[c] = "sweep_head"
        /\ phase' = "Sweeping" /\ local' = local
    BY <1>2, GotoMoves DEF StartSweeping
  <2> QED
    BY <1>0, <1>1, <2>1 DEF InPhase, Hands, OwnCalls, SetLabel, is_stopped
<1>3. CASE \/ SweepLoadHead(c) \/ SweepColor(c) \/ SweepRoot(c)
           \/ SweepKeep(c) \/ SweepFree(c) \/ SweepSubtract(c)
  <2>1. /\ pc[c] \in SweepLabel /\ phase' = phase
        /\ pc'[c] \in SweepingLabel \ {"sweep_head"}
    BY <1>3, GotoMoves DEF SweepLoadHead, SweepColor, SweepRoot,
       SweepKeep, SweepFree, SweepSubtract
  <2> QED
    BY <1>0, <1>1, <2>1 DEF InPhase, Hands, OwnCalls, SetLabel, is_stopped
<1>4. CASE FinishSweep(c) \/ UpdateThreshold(c) \/ FinishGc(c)
  <2>1. /\ pc[c] \in SweptLabel
        /\ pc'[c] \in {"threshold", "finish", "ready", "bg_enter"}
        /\ phase' = "Idle" \/ (phase' = phase /\ pc[c] = "threshold")
    BY <1>4, GotoMoves DEF FinishSweep, UpdateThreshold, FinishGc,
       CollectorHome, SweptLabel
  <2> QED
    BY <1>0, <1>1, <2>1
    DEF InPhase, Hands, OwnCalls, SetLabel, is_stopped, SweptLabel
<1> QED
  BY <1>1, <1>2, <1>3, <1>4 DEF SweepStep

(***************************************************************************)
(* The background thread, and the calls that start and stop it.            *)
(***************************************************************************)
LEMMA BackgroundKeepsControl ==
  ASSUME NEW c \in Procs, ControlInv(c), TypeOK, TypeOK',
         \/ c \in Background /\ BackgroundStep(c)
         \/ JoinBackgroundThread(c)
  PROVE  /\ InPhase(c)' /\ Hands(c)' /\ OwnCalls(c)'
         /\ pc[c] = "bg_check" => pc'[c] = "mark"
         /\ pc[c] # "bg_check" => pc'[c] \in {"bg_sleep", "try_mark",
                                              "bg_enter", "ready"}
         /\ pc[c] \in {"bg_enter", "bg_sleep", "bg_check", "join"}
         /\ UNCHANGED <<gray_queue, color>>
<1> USE DEF MarkingLabel, SweepingLabel, ScanLabel, MarkLabel, SweepLabel
<1>0. InPhase(c) /\ Hands(c)
  BY DEF ControlInv
<1>1. CASE c \in Background /\ BackgroundStep(c)
  <2>1. ~ is_stopped(c) /\ pc[c] # "bg_abort"
    BY <1>0, <1>1 DEF InPhase
  <2>2. ~ BackgroundNotified(c) /\ ~ BackgroundAbort(c)
    BY <2>1 DEF BackgroundNotified, BackgroundAbort, Goto
  <2>3. CASE BackgroundWait(c) \/ BackgroundTimeout(c)
    <3>1. /\ pc[c] \in {"bg_enter", "bg_sleep"}
          /\ pc'[c] \in {"bg_sleep", "try_mark", "bg_enter"}
          /\ UNCHANGED <<phase, gray_queue, bg_thread, color>>
      BY <2>1, <2>3, GotoMoves DEF BackgroundWait, BackgroundTimeout
    <3> QED
      BY <1>0, <3>1 DEF InPhase, Hands, OwnCalls, SetLabel, is_stopped
  <2>4. CASE BackgroundCheck(c)
    <3>1. /\ pc[c] = "bg_check" /\ pc'[c] = "mark"
          /\ UNCHANGED <<phase, gray_queue, bg_thread, color, local>>
      BY <2>1, <2>4, GotoMoves DEF BackgroundCheck
    <3> QED
      BY <1>0, <3>1 DEF InPhase, Hands, OwnCalls, SetLabel, is_stopped
  <2> QED
    BY <1>1, <2>2, <2>3, <2>4 DEF BackgroundStep
<1>2. CASE JoinBackgroundThread(c)
  <2>1. /\ pc[c] = "join" /\ pc'[c] = "ready"
        /\ UNCHANGED <<phase, gray_queue, bg_thread, color>>
    BY <1>2, GotoMoves DEF JoinBackgroundThread
  <2> QED
    BY <1>0, <2>1 DEF InPhase, Hands, OwnCalls, SetLabel, is_stopped
<1> QED
  BY <1>1, <1>2

(***************************************************************************)
(* An application thread that collects has no background thread to stop.   *)
(***************************************************************************)
LEMMA NothingToStop ==
  ASSUME NEW c \in Threads, SoleCollector(c), TypeOK
  PROVE  /\ Background = {}
         /\ ~ StartBackgroundCollection(c)
         /\ ~ StopBackgroundCollection(c)
<1>1. Background = {}
  BY HeapAssumption DEF SoleCollector
<1>2. bg_thread.handle = 0
  BY <1>1 DEF TypeOK
<1> QED
  BY <1>1, <1>2 DEF StartBackgroundCollection, StopBackgroundCollection

(***************************************************************************)
(* A step of such a program is one of another thread, a step of a call of  *)
(* the collecting thread, or a step of a collection.                       *)
(***************************************************************************)
CollectorMove(c) == \/ CycleStep(c)
                    \/ c \in Threads /\ ForceCollect(c)
                    \/ JoinBackgroundThread(c)
                    \/ c \in Background /\ BackgroundStep(c)

(***************************************************************************)
(* Every step is one of a thread that stores leaves, of a call of the      *)
(* collecting thread, or of its cycle.                                     *)
(***************************************************************************)
LEMMA StepsOfTheProgram ==
  ASSUME NEW c \in Procs, LeafMutators(c), TypeOK, ControlInv(c), Next
  PROVE  \/ \E t \in Threads \ {c} : LeafMove(t)
         \/ c \in Threads /\ (MutatorCall(c) \/ MutatorStep(c))
         \/ CollectorMove(c)
<1>1. ASSUME NEW t \in Threads \ {c},
             MutatorCall(t) \/ CollectorCall(t) \/ ThreadStep(t)
      PROVE  LeafMove(t)
  BY <1>1, LeafMoves DEF ControlInv
<1>2. ASSUME c \in Threads, MutatorCall(c) \/ CollectorCall(c) \/ ThreadStep(c)
      PROVE  MutatorCall(c) \/ MutatorStep(c) \/ CollectorMove(c)
  BY <1>2, NothingToStop
  DEF LeafMutators, CollectorCall, ThreadStep, CollectorMove
<1>3. ASSUME NEW b \in Background, BackgroundThread(b)
      PROVE  CollectorMove(c)
  <2>1. b = c
    BY DEF LeafMutators, SoleCollector
  <2> QED
    BY <1>3, <2>1 DEF BackgroundThread, CollectorMove
<1> QED
  BY <1>1, <1>2, <1>3 DEF Next

(***************************************************************************)
(* While it collects, the other threads stand still and no GcRoot or cell  *)
(* changes.                                                                *)
(***************************************************************************)
LEMMA CollectorMoveFrame ==
  ASSUME NEW c \in Procs, TypeOK, MarksAsCollector(c), CollectorMove(c)
  PROVE  Others(c) /\ UNCHANGED <<root_count, ref, handles>>
<1>1. Others(c)
  BY MarkStepCounts, ScanStepCounts, ControlStepCounts
  DEF CollectorMove, CycleStep, BusyStep
<1>2. UNCHANGED <<root_count, ref, handles>>
  BY DEF CollectorMove, CycleStep, MarkStep, SweepStep, TryStartMarking,
     RootsLoadHead, RootsVisit, RootsMerge, MarkPop, MarkSteal, TraceField,
     MarkBlack, MarkNoWork, MarkBudgetSpent, BusyTest, StartSweeping,
     SweepLoadHead, SweepColor, SweepRoot, SweepKeep, SweepFree,
     SweepSubtract, FinishSweep, UpdateThreshold, FinishGc, ForceCollect,
     JoinBackgroundThread, BackgroundStep, BackgroundWait,
     BackgroundNotified, BackgroundTimeout, BackgroundCheck, BackgroundAbort
<1> QED
  BY <1>1, <1>2

(***************************************************************************)
(* What the proofs below stand on: the list, the queue and the control.    *)
(***************************************************************************)
BaseInv(c) == WholeListInv(c) /\ QueueInv /\ ControlInv(c)

(***************************************************************************)
(* The invariants of the list, of the queue and of the control hold        *)
(* initially.                                                              *)
(***************************************************************************)
LEMMA InitBaseInv ==
  ASSUME NEW c \in Procs, LeafMutators(c), Init
  PROVE  BaseInv(c)
BY InitWholeListInv, InitQueueInv, InitControlInv DEF BaseInv, LeafMutators

(***************************************************************************)
(* Each step of a cycle leads to the next.                                 *)
(***************************************************************************)
LEMMA CollectorMoveKeepsControl ==
  ASSUME NEW c \in Procs, LeafMutators(c), BaseInv(c), TypeOK',
         CollectorMove(c)
  PROVE  ControlInv(c)'
<1>0. /\ TypeOK /\ ControlInv(c) /\ MarksAsCollector(c) /\ ListClosed(InList)
  BY InListIsLeast DEF BaseInv, QueueInv, BusyInv
<1>1. Others(c) /\ handles' = handles
  BY <1>0, CollectorMoveFrame
<1>2. \A u \in Threads \ {c} : LeafStore(u)'
  <2>1. \A u \in Threads \ {c} : HeldBy(u) \subseteq HeldBy(u)'
    BY <1>1 DEF HeldBy
  <2> QED
    BY <1>0, <1>1, <2>1, OthersKeepTheirStores DEF ControlInv
<1>3. InPhase(c)' /\ Hands(c)' /\ OwnCalls(c)'
  BY <1>0, MarkStepKeepsControl, ScanKeepsControl, SweepKeepsControl,
     BackgroundKeepsControl DEF CollectorMove, CycleStep
<1> QED
  BY <1>2, <1>3 DEF ControlInv

(***************************************************************************)
(* What the proof about the list says of a step of the collecting thread.  *)
(***************************************************************************)
LEMMA OwnListStep ==
  ASSUME NEW c \in Threads, BaseInv(c), TypeOK',
         MutatorCall(c) \/ MutatorStep(c)
  PROVE  \/ SameList /\ InList' = InList
         \/ /\ AllocatePublish(c)
            /\ InList' = InList \cup {local[c].current}
            /\ local[c].current \in Objects \ Live
            /\ Live' = Live \cup {local[c].current}
            /\ next' = next
<1>0. TypeOK /\ RootInv /\ AllocationListSound /\ NoNodeTwice
  BY DEF BaseInv, WholeListInv, ListInv, RootInv
<1>1. SameList \/ AllocatePublish(c)
  BY <1>0, MutatorMoveOnList DEF MutatorMove
<1>2. CASE SameList
  BY <1>0, <1>2, SameListKeeps
<1>3. CASE AllocatePublish(c)
  BY <1>0, <1>3, PushKeepsList
<1> QED
  BY <1>1, <1>2, <1>3

(***************************************************************************)
(* Every step keeps the invariants of the list, of the queue and of the    *)
(* control.                                                                *)
(***************************************************************************)
LEMMA NextBaseInv ==
  ASSUME NEW c \in Procs, LeafMutators(c), BaseInv(c), [Next]_vars
  PROVE  BaseInv(c)'
<1>0. TypeOK /\ ControlInv(c) /\ ListClosed(InList)
  BY InListIsLeast DEF BaseInv, QueueInv, BusyInv
<1>1. SoleCollector(c) /\ SoleAllocator(c)
  BY DEF LeafMutators, SoleAllocator, LeafCalls
<1>2. WholeListInv(c)' /\ QueueInv'
  BY <1>1, NextWholeListInv, NextQueueInv DEF BaseInv
<1>3. TypeOK'
  BY <1>2 DEF QueueInv, BusyInv
<1>4. CASE UNCHANGED vars
  <2>1. \A t \in Threads \ {c} : LeafStore(t)'
    BY <1>0, <1>4 DEF vars, ControlInv, LeafStore, HeldBy
  <2>2. InPhase(c)' /\ OwnCalls(c)'
    BY <1>0, <1>4 DEF vars, ControlInv, InPhase, OwnCalls, HeldBy, is_stopped
  <2>3. Hands(c)'
    BY <1>0, <1>4 DEF vars, ControlInv, Hands, InList
  <2> QED
    BY <1>2, <2>1, <2>2, <2>3 DEF BaseInv, ControlInv
<1>5. CASE \E t \in Threads \ {c} : LeafMove(t)
  <2>1. PICK t \in Threads \ {c} : LeafMove(t)
    BY <1>5
  <2>2. LeafEffect(c) /\ \A u \in Threads \ {c} : LeafStore(u)'
    BY <1>0, <1>3, <2>1, LeafMoveEffect DEF ControlInv
  <2> QED
    BY <1>0, <1>2, <2>2, LeafEffectKeepsControl DEF BaseInv
<1>6. CASE c \in Threads /\ (MutatorCall(c) \/ MutatorStep(c))
  <2>1. InList' = InList \/ AllocatePublish(c)
    BY <1>3, <1>6, OwnListStep
  <2> QED
    BY <1>0, <1>2, <1>3, <1>6, <2>1, OwnCallKeepsControl DEF BaseInv
<1>7. CASE CollectorMove(c)
  BY <1>2, <1>3, <1>7, CollectorMoveKeepsControl DEF BaseInv
<1> QED
  BY <1>0, <1>4, <1>5, <1>6, <1>7, StepsOfTheProgram

-----------------------------------------------------------------------------

(***************************************************************************)
(* The nodes a walk meets that stands at n: the rest of the list.          *)
(***************************************************************************)
WalkClosed(nx, n, S) == /\ n \in S \cup {Null}
                        /\ \A m \in S : nx[m] \in S \cup {Null}

Following(nx, n) ==
  {o \in Objects : \A S \in SUBSET Objects : WalkClosed(nx, n, S) => o \in S}

(***************************************************************************)
(* Following is the least set that holds the node and what comes after it. *)
(***************************************************************************)
LEMMA FollowingIsLeast ==
  ASSUME NEW nx \in [Objects -> Pointer], NEW n \in Pointer
  PROVE  /\ Following(nx, n) \in SUBSET Objects
         /\ WalkClosed(nx, n, Following(nx, n))
         /\ \A S \in SUBSET Objects :
              WalkClosed(nx, n, S) => Following(nx, n) \subseteq S
<1>1. Following(nx, n) \in SUBSET Objects
  BY DEF Following
<1>2. \A S \in SUBSET Objects :
        WalkClosed(nx, n, S) => Following(nx, n) \subseteq S
  BY DEF Following
<1>3. n \in Following(nx, n) \cup {Null}
  BY DEF Following, WalkClosed, Pointer
<1>4. ASSUME NEW m \in Following(nx, n)
      PROVE  nx[m] \in Following(nx, n) \cup {Null}
  <2>1. m \in Objects /\ nx[m] \in Objects \cup {Null}
    BY <1>1 DEF Pointer
  <2> SUFFICES ASSUME nx[m] # Null, NEW S \in SUBSET Objects,
                      WalkClosed(nx, n, S)
               PROVE  nx[m] \in S
    BY <2>1 DEF Following
  <2> QED
    BY <1>2 DEF WalkClosed
<1> QED
  BY <1>1, <1>2, <1>3, <1>4 DEF WalkClosed

(***************************************************************************)
(* A walk that has met n goes on with the rest.                            *)
(***************************************************************************)
LEMMA FollowingStep ==
  ASSUME NEW nx \in [Objects -> Pointer]
  PROVE  /\ Following(nx, Null) = {}
         /\ \A n \in Objects :
              Following(nx, n) = {n} \cup Following(nx, nx[n])
<1>1. Following(nx, Null) = {}
  <2>1. WalkClosed(nx, Null, {}) /\ {} \in SUBSET Objects
    BY DEF WalkClosed
  <2> QED
    BY <2>1 DEF Following
<1>2. ASSUME NEW n \in Objects
      PROVE  Following(nx, n) = {n} \cup Following(nx, nx[n])
  <2> DEFINE F == Following(nx, n)
             R == Following(nx, nx[n])
  <2>0. n \in Pointer /\ nx[n] \in Pointer /\ n # Null
    BY HeapAssumption DEF Pointer
  <2>1. /\ F \in SUBSET Objects /\ WalkClosed(nx, n, F)
        /\ \A S \in SUBSET Objects : WalkClosed(nx, n, S) => F \subseteq S
    BY <2>0, FollowingIsLeast
  <2>2. /\ R \in SUBSET Objects /\ WalkClosed(nx, nx[n], R)
        /\ \A S \in SUBSET Objects : WalkClosed(nx, nx[n], S) => R \subseteq S
    BY <2>0, FollowingIsLeast
  <2> HIDE DEF F, R
  <2>3. F \subseteq {n} \cup R
    <3>1. WalkClosed(nx, n, {n} \cup R)
      BY <2>2 DEF WalkClosed
    <3>2. {n} \cup R \in SUBSET Objects
      BY <2>2
    <3> QED
      BY <2>1, <3>1, <3>2
  <2>4. n \in F
    BY <2>0, <2>1 DEF WalkClosed
  <2>5. WalkClosed(nx, nx[n], F)
    BY <2>1, <2>4 DEF WalkClosed
  <2> QED
    BY <2>1, <2>2, <2>3, <2>4, <2>5 DEF F, R
<1> QED
  BY <1>1, <1>2

(***************************************************************************)
(* What changes no node a walk is going to meet does not change the walk.  *)
(***************************************************************************)
LEMMA FollowingUntouched ==
  ASSUME NEW nx \in [Objects -> Pointer], NEW ny \in [Objects -> Pointer],
         NEW n \in Pointer, \A m \in Following(nx, n) : ny[m] = nx[m]
  PROVE  Following(ny, n) = Following(nx, n)
<1> DEFINE F == Following(nx, n)
           G == Following(ny, n)
<1>1. /\ F \in SUBSET Objects /\ WalkClosed(nx, n, F)
      /\ \A S \in SUBSET Objects : WalkClosed(nx, n, S) => F \subseteq S
  BY FollowingIsLeast
<1>2. /\ G \in SUBSET Objects /\ WalkClosed(ny, n, G)
      /\ \A S \in SUBSET Objects : WalkClosed(ny, n, S) => G \subseteq S
  BY FollowingIsLeast
<1>3. \A m \in F : ny[m] = nx[m]
  OBVIOUS
<1> HIDE DEF F, G
<1>4. WalkClosed(ny, n, F)
  BY <1>1, <1>3 DEF WalkClosed
<1>5. G \subseteq F
  BY <1>1, <1>2, <1>4
<1>6. WalkClosed(nx, n, G)
  BY <1>2, <1>3, <1>5 DEF WalkClosed
<1>7. F \subseteq G
  BY <1>1, <1>2, <1>6
<1> QED
  BY <1>5, <1>7 DEF F, G

(***************************************************************************)
(* The walk from the head meets the list, any other walk of it a part, and *)
(* no walk meets the node it has come from.                                *)
(***************************************************************************)
LEMMA FollowingInList ==
  ASSUME TypeOK
  PROVE  /\ Following(next, head) = InList
         /\ \A n \in InList \cup {Null} : Following(next, n) \subseteq InList
         /\ NoNodeTwice => \A n \in InList : n \notin Following(next, next[n])
<1>0. /\ next \in [Objects -> Pointer] /\ head \in Pointer
      /\ InList \in SUBSET Objects /\ ListClosed(InList)
      /\ \A S \in SUBSET Objects : ListClosed(S) => InList \subseteq S
  BY InListIsLeast DEF TypeOK
<1>1. Following(next, head) = InList
  BY DEF Following, InList, WalkClosed
<1>2. \A n \in InList \cup {Null} : Following(next, n) \subseteq InList
  <2> SUFFICES ASSUME NEW n \in InList \cup {Null}
               PROVE  Following(next, n) \subseteq InList
    OBVIOUS
  <2>1. n \in Pointer /\ WalkClosed(next, n, InList)
    BY <1>0 DEF ListClosed, WalkClosed, Pointer
  <2> QED
    BY <1>0, <2>1, FollowingIsLeast
<1>3. ASSUME NoNodeTwice, NEW n \in InList, n \in Following(next, next[n])
      PROVE  FALSE
  <2> DEFINE T == Following(next, next[n])
  <2>0. n \in Objects /\ n # Null /\ next[n] \in Pointer
        /\ next[n] \in InList \cup {Null}
    BY <1>0, HeapAssumption DEF ListClosed
  <2>1. /\ T \in SUBSET Objects /\ WalkClosed(next, next[n], T)
        /\ \A S \in SUBSET Objects :
             WalkClosed(next, next[n], S) => T \subseteq S
    BY <1>0, <2>0, FollowingIsLeast
  <2>2. T \subseteq InList /\ n \in T
    BY <1>2, <1>3, <2>0
  <2> HIDE DEF T
  <2>3. \A m \in T : \E k \in T : next[k] = m
    <3> DEFINE P == {m \in T : \E k \in T : next[k] = m}
    <3>1. WalkClosed(next, next[n], P)
      BY <2>1, <2>2 DEF WalkClosed
    <3>2. P \in SUBSET Objects
      BY <2>1
    <3> QED
      BY <2>1, <3>1, <3>2
  <2>4. head \notin T
    BY <2>1, <2>2, <2>3, HeapAssumption, <1>3 DEF NoNodeTwice
  <2>5. ListClosed(InList \ T)
    <3>1. head \in (InList \ T) \cup {Null}
      BY <1>0, <2>4 DEF ListClosed
    <3>2. ASSUME NEW m \in InList \ T, next[m] \in T
          PROVE  FALSE
      <4>1. PICK k \in T : next[k] = next[m]
        BY <2>3, <3>2
      <4>2. next[m] # Null
        BY <2>1, <3>2, HeapAssumption
      <4> QED
        BY <1>3, <2>2, <4>1, <4>2 DEF NoNodeTwice
    <3> QED
      BY <1>0, <3>1, <3>2 DEF ListClosed
  <2>6. InList \ T \in SUBSET Objects
    BY <1>0
  <2> QED
    BY <1>0, <2>2, <2>5, <2>6
<1> QED
  BY <1>1, <1>2, <1>3

-----------------------------------------------------------------------------

(***************************************************************************)
(* Queue operations add no item from nowhere.                              *)
(***************************************************************************)
LEMMA ItemsStay ==
  ASSUME NEW s \in Seq(Objects), NEW S, SeqRange(s) \subseteq S
  PROVE  /\ \A r \in Seq(Objects) :
              SeqRange(r) \subseteq S => SeqRange(s \o r) \subseteq S
         /\ \A o \in S : SeqRange(Append(s, o)) \subseteq S
         /\ \A n \in 0..Len(s) : SeqRange(SubSeq(s, 1, n)) \subseteq S
<1>1. \A i \in 1..Len(s) : s[i] \in S
  BY DEF SeqRange
<1>2. ASSUME NEW r \in Seq(Objects), SeqRange(r) \subseteq S
      PROVE  SeqRange(s \o r) \subseteq S
  <2>1. \A i \in 1..Len(r) : r[i] \in S
    BY <1>2 DEF SeqRange
  <2>2. /\ Len(s \o r) = Len(s) + Len(r)
        /\ \A i \in 1..(Len(s) + Len(r)) :
             (s \o r)[i] = IF i <= Len(s) THEN s[i] ELSE r[i - Len(s)]
    OBVIOUS
  <2>3. ASSUME NEW i \in 1..(Len(s) + Len(r)) PROVE (s \o r)[i] \in S
    BY <1>1, <2>1, <2>2, LenProperties
  <2> QED
    BY <2>2, <2>3 DEF SeqRange
<1>3. ASSUME NEW o \in S PROVE SeqRange(Append(s, o)) \subseteq S
  <2>1. /\ Len(Append(s, o)) = Len(s) + 1
        /\ \A i \in 1..(Len(s) + 1) :
             Append(s, o)[i] = IF i <= Len(s) THEN s[i] ELSE o
    OBVIOUS
  <2> QED
    BY <1>1, <2>1, LenProperties DEF SeqRange
<1>4. ASSUME NEW n \in 0..Len(s) PROVE SeqRange(SubSeq(s, 1, n)) \subseteq S
  <2>1. /\ Len(SubSeq(s, 1, n)) = n
        /\ \A i \in 1..n : SubSeq(s, 1, n)[i] = s[i]
    BY LenProperties
  <2> QED
    BY <1>1, <2>1, LenProperties DEF SeqRange
<1> QED
  BY <1>2, <1>3, <1>4

(***************************************************************************)
(* What is stolen from the shared queue was in it.                         *)
(***************************************************************************)
LEMMA StolenItems ==
  ASSUME TypeOK, NEW n \in 0..Len(gray_queue), NEW S,
         SeqRange(gray_queue) \subseteq S
  PROVE  SeqRange(LastItems(n)) \subseteq S
<1>1. \A i \in 1..Len(gray_queue) : gray_queue[i] \in S
  BY DEF SeqRange
<1>2. Len(gray_queue) \in Nat
  BY LenProperties DEF TypeOK
<1>3. /\ Len(LastItems(n)) = n
      /\ \A i \in 1..n : LastItems(n)[i] = gray_queue[Len(gray_queue) + 1 - i]
  BY <1>2 DEF LastItems
<1> QED
  BY <1>1, <1>2, <1>3 DEF SeqRange

(***************************************************************************)
(* Marking a pointer enqueues that pointer at most.                        *)
(***************************************************************************)
LEMMA MarkedItems ==
  ASSUME NEW s \in Seq(Objects), NEW S, SeqRange(s) \subseteq S, NEW v \in S
  PROVE  SeqRange(MarkTracer(s, v)) \subseteq S
BY ItemsStay DEF MarkTracer, PushIfWhite

-----------------------------------------------------------------------------

(***************************************************************************)
(* An object has a GcRoot if and only if its root count is not 0.          *)
(***************************************************************************)
LEMMA CountedIsHeld ==
  ASSUME RootInv, NEW o \in Objects, mem[o] \in {"boxed", "live"}
  PROVE  is_root(o) <=> o \in Held
<1>0. /\ MaxHandles \in Nat /\ IsFiniteSet(Threads)
      /\ handles \in [Threads -> [Objects -> 0..MaxHandles]]
  BY HeapAssumption DEF RootInv, TypeOK
<1>1. IsFiniteSet(GcRoots(o))
  <2>1. IsFiniteSet(1..MaxHandles)
    BY <1>0, CountTo
  <2>2. IsFiniteSet(Threads \X (1..MaxHandles))
    BY <1>0, <2>1, FS_Product
  <2> QED
    BY <2>2, FS_Subset DEF GcRoots
<1>2. Cardinality(GcRoots(o)) \in Nat
  BY <1>1, FS_CardinalityType
<1>3. Cardinality(GcRoots(o)) = 0 <=> GcRoots(o) = {}
  BY <1>1, FS_EmptySet
<1>4. GcRoots(o) # {} <=> \E t \in Threads : handles[t][o] > 0
  <2>1. ASSUME NEW t \in Threads, handles[t][o] > 0 PROVE GcRoots(o) # {}
    <3>1. <<t, 1>> \in GcRoots(o)
      BY <1>0, <2>1 DEF GcRoots
    <3> QED
      BY <3>1
  <2>2. ASSUME NEW r \in GcRoots(o)
        PROVE  \E t \in Threads : handles[t][o] > 0
    BY <1>0 DEF GcRoots
  <2> QED
    BY <2>1, <2>2
<1>5. root_count[o] = Cardinality(GcRoots(o))
                        + (IF InAllocate(o) THEN 1 ELSE 0)
  BY DEF RootInv, RootCountExact
<1> QED
  BY <1>2, <1>3, <1>4, <1>5 DEF is_root, Held

-----------------------------------------------------------------------------

(***************************************************************************)
(* What the sweep has yet to meet, what of it is garbage, and what of the  *)
(* heap is going to be left.                                               *)
(***************************************************************************)
Unswept(c) ==
  {o \in Objects : \/ pc[c] = "sweep_head" /\ o \in InList
                   \/ /\ pc[c] \in WalkLabel
                      /\ o \in Following(next, local[c].current)}

Boxes == {o \in Objects : mem[o] \in {"boxed", "live"}}

Kept(c) == {o \in Boxes : ~ (o \in Unswept(c) /\ color[o] = "White")}

(***************************************************************************)
(* The program cannot leave what is kept by following pointers.            *)
(***************************************************************************)
KeptIsClosed(c) == /\ Held \subseteq Kept(c)
                   /\ \A o \in Kept(c) : Successors(o) \subseteq Kept(c)

LeavesAreLeaves == \A o \in NoTrace : Successors(o) = {}

(***************************************************************************)
(* What the collecting thread has in hand is there: the box it pushes, the *)
(* gray objects, the pointer it stores or roots.                           *)
(***************************************************************************)
HandsAreLive(c) ==
  /\ \A o \in Objects : mem[o] = "boxed" =>
       /\ c \in Threads
       /\ pc[c] \in {"alloc_load", "alloc_cas"}
       /\ local[c].current = o
  /\ SeqRange(gray_queue) \subseteq Live
  /\ SeqRange(local[c].tracer) \subseteq Live
  /\ local[c].tracing \in Live \cup {Null}
  /\ (pc[c] \in SetLabel /\ local[c].op = "set") \/ pc[c] = "rooting" =>
       local[c].value \in Live \cup {Null}

(***************************************************************************)
(* Before the marking, nothing but leaves is black.                        *)
(***************************************************************************)
NothingScanned(c) ==
  pc[c] \notin MarkLabel \cup SweepLabel =>
    \A o \in Boxes \ NoTrace : color[o] # "Black"

(***************************************************************************)
(* The scan of the roots has shaded every object with a GcRoot that it has *)
(* met.                                                                    *)
(***************************************************************************)
RootsAhead(c) ==
  pc[c] = "roots" =>
    \A o \in Held : color[o] # "White" \/ o \in Following(next, local[c].current)

(***************************************************************************)
(* From then on, every object with a GcRoot is shaded, and so is every     *)
(* object in a field that has been scanned.                                *)
(***************************************************************************)
MarksFromRoots(c) ==
  pc[c] \in MarkLabel =>
    /\ \A o \in Held : color[o] # "White"
    /\ \A o \in Live : color[o] = "Black" =>
         \A v \in Successors(o) : color[v] # "White"
    /\ pc[c] = "trace" =>
         \A f \in Fields \ local[c].pending :
           \/ ref[local[c].tracing][f] = Null
           \/ color[ref[local[c].tracing][f]] # "White"

(***************************************************************************)
(* The sweep leaves white what it has met, and knows what it has seen.     *)
(***************************************************************************)
SweepsByColor(c) ==
  /\ pc[c] \in SweepLabel =>
       \A o \in Boxes \ NoTrace : color[o] # "White" => o \in Unswept(c)
  /\ pc[c] \in {"sweep_root", "sweep_free"} => color[local[c].current] = "White"
  /\ pc[c] = "sweep_keep" => color[local[c].current] # "White"

HeapInv(c) == /\ KeptIsClosed(c)
              /\ LeavesAreLeaves
              /\ HandsAreLive(c)
              /\ NothingScanned(c)
              /\ RootsAhead(c)
              /\ MarksFromRoots(c)
              /\ SweepsByColor(c)

-----------------------------------------------------------------------------

(***************************************************************************)
(* A thread that shades a leaf or stores one keeps it.                     *)
(***************************************************************************)
LEMMA LeafEffectKeepsHeap ==
  ASSUME NEW c \in Procs, TypeOK, TypeOK', SweepsTheList(c), Hands(c),
         HeapInv(c), LeafEffect(c)
  PROVE  HeapInv(c)'
<1>0. /\ UNCHANGED <<phase, head, next, mem, gray_queue>>
      /\ pc'[c] = pc[c] /\ local'[c] = local[c]
      /\ Held' \subseteq Held /\ Held \subseteq Objects
      /\ color \in [Objects -> Color] /\ color' \in [Objects -> Color]
      /\ ref \in [Objects -> [Fields -> Pointer]]
  BY DEF LeafEffect, TypeOK, Held
<1>1. Boxes' = Boxes /\ Live' = Live /\ InList' = InList
  BY <1>0 DEF Boxes, Live, InList
<1>2. Unswept(c)' = Unswept(c)
  BY <1>0, <1>1 DEF Unswept
<1>3. \A o \in Objects : color'[o] # color[o] =>
        o \in Leaf /\ color'[o] = "Black"
  BY <1>0 DEF LeafEffect, ShadesLeaf
<1>4. \A o \in Objects : color[o] # "White" => color'[o] # "White"
  BY <1>3
<1>5. Leaf \subseteq Held \cap NoTrace /\ Held \subseteq Kept(c)
  BY DEF Leaf, HeapInv, KeptIsClosed
<1>6. Kept(c)' = Kept(c)
  BY <1>1, <1>2, <1>3, <1>5 DEF Kept, Boxes
<1>7. \A o \in Objects : Successors(o)' \subseteq Successors(o) \cup Leaf
  <2>1. CASE ref' = ref
    BY <2>1 DEF Successors
  <2>2. ASSUME NEW x \in Held \ NoTrace, NEW f \in Fields,
               NEW v \in Leaf \cup {Null}, ref' = [ref EXCEPT ![x][f] = v]
        PROVE  \A o \in Objects : Successors(o)' \subseteq Successors(o) \cup Leaf
    <3>1. \A o \in Objects, g \in Fields :
            ref'[o][g] = IF o = x /\ g = f THEN v ELSE ref[o][g]
      BY <1>0, <2>2
    <3> QED
      BY <3>1 DEF Successors
  <2> QED
    BY <2>1, <2>2 DEF LeafEffect, StoresLeaf
<1>8. \A o \in NoTrace : ref'[o] = ref[o]
  <2>1. ASSUME NEW x \in Held \ NoTrace, NEW f \in Fields,
               NEW v \in Leaf \cup {Null}, ref' = [ref EXCEPT ![x][f] = v],
               NEW o \in NoTrace
        PROVE  ref'[o] = ref[o]
    BY <1>0, <2>1
  <2> QED
    BY <2>1 DEF LeafEffect, StoresLeaf
<1>9. KeptIsClosed(c)'
  <2>1. \A o \in Kept(c) : o \in Objects
    BY DEF Kept, Boxes
  <2> QED
    BY <1>0, <1>5, <1>6, <1>7, <2>1 DEF HeapInv, KeptIsClosed
<1>10. LeavesAreLeaves'
  BY <1>8 DEF HeapInv, LeavesAreLeaves, Successors
<1>11. HandsAreLive(c)'
  BY <1>0, <1>1 DEF HeapInv, HandsAreLive
<1>12. NothingScanned(c)'
  BY <1>0, <1>1, <1>3, <1>5 DEF HeapInv, NothingScanned, Boxes
<1>13. RootsAhead(c)'
  BY <1>0, <1>4 DEF HeapInv, RootsAhead
<1>14. MarksFromRoots(c)'
  <2> SUFFICES ASSUME pc[c] \in MarkLabel PROVE MarksFromRoots(c)'
    BY <1>0 DEF MarksFromRoots
  <2>1. /\ \A o \in Held : color[o] # "White"
        /\ \A o \in Live : color[o] = "Black" =>
             \A v \in Successors(o) : color[v] # "White"
        /\ pc[c] = "trace" =>
             \A f \in Fields \ local[c].pending :
               \/ ref[local[c].tracing][f] = Null
               \/ color[ref[local[c].tracing][f]] # "White"
    BY DEF HeapInv, MarksFromRoots
  <2>2. \A o \in Held' : color'[o] # "White"
    BY <1>0, <1>4, <2>1
  <2>3. ASSUME NEW o \in Live', color'[o] = "Black", NEW v \in Successors(o)'
        PROVE  color'[v] # "White"
    <3>0. o \in Objects /\ o \in Live
      BY <1>1 DEF Live
    <3>1. CASE v \in Leaf
      BY <1>0, <1>4, <1>5, <2>1, <3>1
    <3>2. CASE v \notin Leaf
      <4>1. v \in Successors(o) /\ v \in Objects
        BY <1>0, <1>7, <2>3, <3>0, <3>2 DEF Successors, Pointer
      <4>2. o \notin NoTrace
        BY <4>1 DEF HeapInv, LeavesAreLeaves
      <4>3. color[o] = "Black"
        BY <1>3, <1>5, <2>3, <3>0, <4>2
      <4> QED
        BY <1>4, <2>1, <3>0, <4>1, <4>3
    <3> QED
      BY <3>1, <3>2
  <2>4. ASSUME pc[c] = "trace", NEW f \in Fields \ local[c].pending,
               ref'[local[c].tracing][f] # Null
        PROVE  color'[ref'[local[c].tracing][f]] # "White"
    <3> DEFINE o == local[c].tracing
               v == ref'[o][f]
    <3>1. CASE ref'[o][f] = ref[o][f] /\ o \in Objects
      <4>1. v \in Objects
        BY <1>0, <2>4, <3>1 DEF Pointer
      <4> QED
        BY <1>4, <2>1, <2>4, <3>1, <4>1
    <3>2. CASE v \in Leaf
      BY <1>0, <1>4, <1>5, <2>1, <3>2
    <3>3. v \in Leaf \cup {Null} \/ ref'[o][f] = ref[o][f]
      <4>1. ASSUME NEW x \in Held \ NoTrace, NEW g \in Fields,
                   NEW w \in Leaf \cup {Null}, ref' = [ref EXCEPT ![x][g] = w]
            PROVE  v \in Leaf \cup {Null} \/ ref'[o][f] = ref[o][f]
        BY <1>0, <4>1
      <4> QED
        BY <4>1 DEF LeafEffect, StoresLeaf
    <3>4. o \in Objects
      BY <2>4 DEF Hands
    <3> QED
      BY <2>4, <3>1, <3>2, <3>3, <3>4
  <2> QED
    BY <1>0, <2>2, <2>3, <2>4 DEF MarksFromRoots
<1>15. SweepsByColor(c)'
  <2>1. pc[c] \in WalkLabel \ {"sweep"} =>
          local[c].current \in InList
    BY DEF SweepsTheList
  <2>2. pc[c] \in {"sweep_root", "sweep_free"} =>
          color'[local[c].current] = "White"
    <3> SUFFICES ASSUME pc[c] \in {"sweep_root", "sweep_free"}
                 PROVE  color'[local[c].current] = "White"
      OBVIOUS
    <3>1. local[c].current \in InList /\ local[c].current \in Objects
      BY <2>1 DEF WalkLabel, InList
    <3>2. local[c].current \in Following(next, local[c].current)
      <4>1. next \in [Objects -> Pointer]
        BY DEF TypeOK
      <4> QED
        BY <3>1, <4>1, FollowingStep
    <3>3. local[c].current \notin Kept(c)
      BY <3>1, <3>2 DEF Kept, Unswept, WalkLabel, HeapInv, SweepsByColor
    <3> QED
      BY <1>3, <1>5, <3>1, <3>3 DEF HeapInv, SweepsByColor
  <2>3. pc[c] = "sweep_keep" => color'[local[c].current] # "White"
    <3> SUFFICES ASSUME pc[c] = "sweep_keep"
                 PROVE  color'[local[c].current] # "White"
      OBVIOUS
    <3>1. local[c].current \in Objects
      BY <2>1 DEF WalkLabel, InList
    <3> QED
      BY <1>4, <3>1 DEF HeapInv, SweepsByColor
  <2>4. ASSUME pc[c] \in SweepLabel, NEW o \in Boxes \ NoTrace,
               color'[o] # "White"
        PROVE  o \in Unswept(c)
    <3>1. o \in Objects /\ color'[o] = color[o]
      BY <1>3, <1>5 DEF Boxes
    <3> QED
      BY <2>4, <3>1 DEF HeapInv, SweepsByColor
  <2> QED
    BY <1>0, <1>1, <1>2, <2>2, <2>3, <2>4 DEF SweepsByColor
<1> QED
  BY <1>9, <1>10, <1>11, <1>12, <1>13, <1>14, <1>15 DEF HeapInv

-----------------------------------------------------------------------------

(***************************************************************************)
(* Between collections, nothing is unswept and everything is kept.         *)
(***************************************************************************)
HeapAtRest(c) ==
  /\ Held \subseteq Boxes
  /\ \A o \in Boxes : Successors(o) \subseteq Boxes
  /\ LeavesAreLeaves
  /\ \A o \in Objects : mem[o] = "boxed" =>
       /\ c \in Threads
       /\ pc[c] \in {"alloc_load", "alloc_cas"}
       /\ local[c].current = o
  /\ (pc[c] \in SetLabel /\ local[c].op = "set") \/ pc[c] = "rooting" =>
       local[c].value \in Live \cup {Null}
  /\ \A o \in Boxes \ NoTrace : color[o] # "Black"

(***************************************************************************)
(* Between two collections the invariant says no more than this.           *)
(***************************************************************************)
LEMMA RestFromInv ==
  ASSUME NEW c, HeapInv(c), pc[c] \notin MarkLabel \cup SweepLabel
  PROVE  HeapAtRest(c)
<1>1. Unswept(c) = {}
  BY DEF Unswept, SweepLabel, WalkLabel
<1>2. Kept(c) = Boxes
  BY <1>1 DEF Kept
<1> QED
  BY <1>2 DEF HeapInv, KeptIsClosed, HandsAreLive, NothingScanned, HeapAtRest

(***************************************************************************)
(* And it is all the invariant asks for between two collections.           *)
(***************************************************************************)
LEMMA InvFromRest ==
  ASSUME NEW c, HeapAtRest(c)',
         pc'[c] \notin {"roots"} \cup MarkLabel \cup SweepLabel,
         gray_queue' = <<>>, local'[c].tracer = <<>>,
         local'[c].tracing = Null
  PROVE  HeapInv(c)'
<1>1. Unswept(c)' = {}
  BY DEF Unswept, SweepLabel, WalkLabel
<1>2. Kept(c)' = Boxes'
  BY <1>1 DEF Kept
<1>3. KeptIsClosed(c)' /\ LeavesAreLeaves'
  BY <1>2 DEF HeapAtRest, KeptIsClosed
<1>4. HandsAreLive(c)'
  BY DEF HeapAtRest, HandsAreLive, SeqRange
<1>5. NothingScanned(c)'
  BY DEF HeapAtRest, NothingScanned
<1>6. RootsAhead(c)' /\ MarksFromRoots(c)' /\ SweepsByColor(c)'
  BY DEF RootsAhead, MarksFromRoots, SweepsByColor, SweepLabel
<1> QED
  BY <1>3, <1>4, <1>5, <1>6 DEF HeapInv

(***************************************************************************)
(* The collecting thread has no gray object outside a cycle.               *)
(***************************************************************************)
LEMMA IdleIsEmptyHanded ==
  ASSUME NEW c \in Procs, BaseInv(c)',
         pc'[c] \notin {"roots", "mark", "trace", "bg_check"}
  PROVE  gray_queue' = <<>> /\ local'[c].tracer = <<>> /\ local'[c].tracing = Null
<1>1. Hands(c)' /\ IdleHands(c)'
  BY DEF BaseInv, ControlInv, QueueInv
<1>2. pc'[c] # "shade" /\ pc'[c] # "shade_merge"
  BY DEF BaseInv, ControlInv, InPhase
<1> QED
  BY <1>1, <1>2 DEF Hands, IdleHands, TracerLabel

(***************************************************************************)
(* The objects with a GcRoot, and the one the collecting thread allocates. *)
(***************************************************************************)
LEMMA WhoHolds ==
  ASSUME NEW c, \A u \in Threads \ {c} : LeafStore(u)',
         NEW o \in Held'
  PROVE  \/ \E t \in Threads : o \in HeldBy(t)'
         \/ c \in Threads /\ pc'[c] \in PushLabel /\ local'[c].current = o
<1>1. \A u \in Threads \ {c} : pc'[u] \notin PushLabel
  BY DEF LeafStore, SetLabel, PushLabel
<1> QED
  BY <1>1 DEF Held, HeldBy, InAllocate, PushLabel

(***************************************************************************)
(* What the program reaches is kept.                                       *)
(***************************************************************************)
LEMMA ReachableIsKept ==
  ASSUME NEW c, KeptIsClosed(c)
  PROVE  Reachable \subseteq Kept(c)
<1>1. Kept(c) \in SUBSET Objects
  BY DEF Kept, Boxes
<1>2. ClosedUnderRefs(Kept(c)) /\ Held \subseteq Kept(c)
  BY DEF KeptIsClosed, ClosedUnderRefs
<1> QED
  BY <1>1, <1>2 DEF Reachable

-----------------------------------------------------------------------------

(***************************************************************************)
(* Steps of its calls that change no object.                               *)
(***************************************************************************)
LEMMA QuietCallKeepsRest ==
  ASSUME NEW c, HeapAtRest(c), UNCHANGED <<color, ref, mem>>,
         Held' \subseteq Boxes,
         \/ pc[c] \notin {"alloc_load", "alloc_cas"}
         \/ pc'[c] \in {"alloc_load", "alloc_cas"} /\ local' = local,
         (pc'[c] \in SetLabel /\ local'[c].op = "set") \/ pc'[c] = "rooting" =>
           local'[c].value \in Live \cup {Null}
  PROVE  HeapAtRest(c)'
<1>1. Boxes' = Boxes /\ Live' = Live
  BY DEF Boxes, Live
<1>2. \A o \in Objects : Successors(o)' = Successors(o)
  BY DEF Successors
<1>3. LeavesAreLeaves'
  BY DEF HeapAtRest, LeavesAreLeaves, Successors
<1>4. \A o \in Objects : mem'[o] = "boxed" =>
       /\ pc'[c] \in {"alloc_load", "alloc_cas"}
       /\ local'[c].current = o
  BY DEF HeapAtRest
<1>5. \A o \in Boxes : Successors(o)' \subseteq Boxes
  BY <1>2 DEF HeapAtRest, Boxes
<1> QED
  BY <1>1, <1>3, <1>4, <1>5 DEF HeapAtRest

(***************************************************************************)
(* Rooting, cloning and dropping: a GcRoot is made of what is kept.        *)
(***************************************************************************)
LEMMA RootCallKeepsRest ==
  ASSUME NEW c \in Threads, BaseInv(c), BaseInv(c)', HeapInv(c),
         pc[c] \notin MarkLabel \cup SweepLabel,
         \/ CloneRoot(c) \/ DropRoot(c) \/ AllocateReturn(c) \/ RootPointer(c)
         \/ ForgetPointer(c)
  PROVE  HeapAtRest(c)'
<1>0. /\ c \in Procs /\ TypeOK /\ HeapAtRest(c)
      /\ handles \in [Threads -> [Objects -> 0..MaxHandles]]
      /\ MaxHandles \in Nat
      /\ \A u \in Threads \ {c} : LeafStore(u)'
  BY RestFromInv, HeapAssumption
  DEF Procs, BaseInv, QueueInv, BusyInv, TypeOK, ControlInv
<1>1. /\ UNCHANGED <<color, ref, mem>>
      /\ pc[c] \in {"ready", "alloc_add", "rooting"} /\ pc'[c] = "ready"
  BY <1>0, GotoMoves DEF CloneRoot, DropRoot, AllocateReturn, RootPointer,
     ForgetPointer
<1>2. \A t \in Threads : HeldBy(t) \subseteq Boxes
  BY <1>0 DEF HeapAtRest, HeldBy, Held
<1>3. \A t \in Threads : HeldBy(t)' \subseteq Boxes
  <2>1. CASE CloneRoot(c)
    <3>1. PICK o \in HeldBy(c), u \in Threads :
            handles' = [handles EXCEPT ![u][o] = @ + 1]
      BY <2>1 DEF CloneRoot
    <3>2. \A t \in Threads : HeldBy(t)' \subseteq HeldBy(t) \cup {o}
      BY <1>0, <3>1 DEF HeldBy
    <3> QED
      BY <1>2, <3>2
  <2>2. CASE DropRoot(c)
    <3>1. PICK o \in HeldBy(c) : handles' = [handles EXCEPT ![c][o] = @ - 1]
      BY <2>2 DEF DropRoot
    <3>2. \A t \in Threads : HeldBy(t)' \subseteq HeldBy(t)
      BY <1>0, <3>1 DEF HeldBy
    <3> QED
      BY <1>2, <3>2
  <2>3. CASE AllocateReturn(c)
    <3> DEFINE o == local[c].current
    <3>1. handles' = [handles EXCEPT ![c][o] = 1] /\ pc[c] = "alloc_add"
      BY <2>3 DEF AllocateReturn, Goto
    <3>2. \A t \in Threads : HeldBy(t)' \subseteq HeldBy(t) \cup {o}
      BY <1>0, <3>1 DEF HeldBy
    <3>3. o \in Objects => o \in Held
      BY <3>1 DEF Held, InAllocate
    <3>4. \A t \in Threads : HeldBy(t)' \subseteq Objects
      BY DEF HeldBy
    <3> QED
      BY <1>0, <1>2, <3>2, <3>3, <3>4 DEF HeapAtRest
  <2>4. CASE RootPointer(c)
    <3> DEFINE o == local[c].value
    <3>1. handles' = [handles EXCEPT ![c][o] = @ + 1] /\ o \in Reachable
      BY <2>4 DEF RootPointer
    <3>2. \A t \in Threads : HeldBy(t)' \subseteq HeldBy(t) \cup {o}
      BY <1>0, <3>1 DEF HeldBy
    <3>3. o \in Kept(c)
      BY <3>1, ReachableIsKept DEF HeapInv
    <3>4. o \in Boxes
      BY <3>3 DEF Kept
    <3> QED
      BY <1>2, <3>2, <3>4
  <2>5. CASE ForgetPointer(c)
    BY <1>2, <2>5 DEF ForgetPointer, HeldBy
  <2> QED
    BY <2>1, <2>2, <2>3, <2>4, <2>5
<1>4. Held' \subseteq Boxes
  <2> SUFFICES ASSUME NEW o \in Held' PROVE o \in Boxes
    OBVIOUS
  <2>1. \E t \in Threads : o \in HeldBy(t)'
    BY <1>0, <1>1, WhoHolds DEF PushLabel
  <2> QED
    BY <1>3, <2>1
<1> QED
  BY <1>0, <1>1, <1>4, QuietCallKeepsRest DEF SetLabel

(***************************************************************************)
(* Reading a cell, and preparing to write one, takes up pointers that are  *)
(* kept.                                                                   *)
(***************************************************************************)
LEMMA CellCallKeepsRest ==
  ASSUME NEW c \in Threads, BaseInv(c), BaseInv(c)', HeapInv(c),
         pc[c] \notin MarkLabel \cup SweepLabel,
         \/ CellSet(c) \/ CellGet(c) \/ CountLoadHead(c) \/ BusyCheck(c)
         \/ DecrementBusyMarking(c) \/ AllocateLoadHead(c)
         \/ AllocateRetry(c) \/ CountNode(c)
  PROVE  HeapAtRest(c)'
<1> DEFINE l == local[c]
<1>0. /\ c \in Procs /\ TypeOK /\ HeapAtRest(c) /\ l \in Locals
      /\ \A u \in Threads \ {c} : LeafStore(u)'
      /\ OwnCalls(c)
  BY RestFromInv, LocalType
  DEF Procs, BaseInv, QueueInv, BusyInv, ControlInv
<1>1. UNCHANGED <<color, ref, mem, handles>>
  BY DEF CellSet, CellGet, CountLoadHead, BusyCheck, DecrementBusyMarking,
     AllocateLoadHead, AllocateRetry, CountNode
<1>2. HeldBy(c) \subseteq Boxes /\ \A t \in Threads : HeldBy(t) \subseteq Held
  BY <1>0 DEF HeapAtRest, HeldBy, Held
<1>3. ASSUME \/ pc'[c] \notin PushLabel
             \/ pc[c] \in PushLabel /\ local' = local
      PROVE  Held' \subseteq Boxes
  <2>1. \A t \in Threads : HeldBy(t)' \subseteq Boxes
    BY <1>0, <1>1, <1>2 DEF HeldBy, HeapAtRest
  <2>2. ASSUME pc[c] \in PushLabel, l.current \in Objects
        PROVE  l.current \in Boxes
    BY <1>0, <2>2 DEF HeapAtRest, Held, InAllocate, PushLabel
  <2> SUFFICES ASSUME NEW o \in Held' PROVE o \in Boxes
    OBVIOUS
  <2>3. o \in Objects
    BY DEF Held
  <2> QED
    BY <1>0, <1>3, <2>1, <2>2, <2>3, WhoHolds
<1>4. CASE CellSet(c)
  <2>1. PICK o \in HeldBy(c) \ NoTrace, f \in Fields, v \in NewValues(c) :
          SetLocal(c, [l EXCEPT !.op = "set", !.current = o, !.field = f,
                                !.value = v])
    BY <1>4 DEF CellSet
  <2>2. local'[c] = [l EXCEPT !.op = "set", !.current = o, !.field = f,
                              !.value = v]
    BY <1>0, <2>1, SetLocalMoves
  <2>3. pc[c] = "ready" /\ pc'[c] = "busy_check" /\ local'[c].value = v
    BY <1>0, <1>4, <2>2, GotoMoves DEF CellSet, Locals
  <2>4. v \in Boxes \cup {Null}
    <3>1. v \in HeldBy(c) \cup InCells(c) \cup {Null}
      BY DEF NewValues
    <3>2. InCells(c) \subseteq Boxes
      BY <1>0, <1>2 DEF InCells, HeapAtRest
    <3> QED
      BY <1>2, <3>1, <3>2
  <2>5. v \in Live \cup {Null}
    BY <1>0, <2>3, <2>4 DEF HeapAtRest, Boxes, Live
  <2> QED
    BY <1>0, <1>1, <1>3, <2>3, <2>5, QuietCallKeepsRest DEF PushLabel
<1>5. CASE CellGet(c)
  <2>1. PICK o \in HeldBy(c) \ NoTrace, f \in Fields :
          ref[o][f] # Null /\ SetLocal(c, [l EXCEPT !.value = ref[o][f]])
    BY <1>5 DEF CellGet
  <2>2. local'[c] = [l EXCEPT !.value = ref[o][f]]
    BY <1>0, <2>1, SetLocalMoves
  <2>3. pc[c] = "ready" /\ pc'[c] = "rooting" /\ local'[c].value = ref[o][f]
    BY <1>0, <1>5, <2>2, GotoMoves DEF CellGet, Locals
  <2>4. ref[o][f] \in Boxes
    <3>1. ref[o][f] \in Successors(o)
      BY <2>1 DEF Successors
    <3> QED
      BY <1>0, <1>2, <3>1 DEF HeapAtRest
  <2>5. ref[o][f] \in Live
    BY <1>0, <2>3, <2>4 DEF HeapAtRest, Boxes, Live
  <2> QED
    BY <1>0, <1>1, <1>3, <2>3, <2>5, QuietCallKeepsRest DEF PushLabel, SetLabel
<1>6. CASE CountLoadHead(c) \/ CountNode(c)
  <2>1. pc[c] \in {"ready", "count"} /\ pc'[c] \in {"ready", "count"}
    BY <1>0, <1>6, GotoMoves DEF CountLoadHead, CountNode, TypeOK
  <2> QED
    BY <1>0, <1>1, <1>3, <2>1, QuietCallKeepsRest DEF PushLabel, SetLabel
<1>7. CASE BusyCheck(c) \/ DecrementBusyMarking(c)
  <2>1. /\ pc[c] \in {"busy_check", "busy_dec"} /\ local' = local
        /\ pc'[c] \in {"mark", "shade", "busy_dec", "alloc_box", "store"}
        /\ pc'[c] = "store" => l.op # "allocate"
    BY <1>0, <1>7, GotoMoves
    DEF BusyCheck, DecrementBusyMarking, AfterBusy, TypeOK
  <2>2. l.op \in {"allocate", "set"}
    BY <1>0, <2>1 DEF OwnCalls
  <2>3. pc'[c] \in SetLabel /\ l.op = "set" => l.value \in Live \cup {Null}
    BY <1>0, <2>1, <2>2 DEF HeapAtRest, SetLabel
  <2> QED
    BY <1>0, <1>1, <1>3, <2>1, <2>3, QuietCallKeepsRest DEF PushLabel
<1>8. CASE AllocateLoadHead(c) \/ AllocateRetry(c)
  <2>1. /\ pc[c] \in {"alloc_load", "alloc_cas"} /\ local' = local
        /\ pc'[c] \in {"alloc_load", "alloc_cas"}
    BY <1>0, <1>8, GotoMoves DEF AllocateLoadHead, AllocateRetry
  <2> QED
    BY <1>0, <1>1, <1>3, <2>1, QuietCallKeepsRest DEF PushLabel, SetLabel
<1> QED
  BY <1>4, <1>5, <1>6, <1>7, <1>8

-----------------------------------------------------------------------------

(***************************************************************************)
(* Steps of its calls that make an object, or write one.                   *)
(***************************************************************************)
LEMMA AllocateKeepsRest ==
  ASSUME NEW c \in Threads, BaseInv(c), BaseInv(c)', HeapInv(c),
         pc[c] \notin MarkLabel \cup SweepLabel,
         Allocate(c) \/ AllocatePublish(c)
  PROVE  HeapAtRest(c)'
<1> DEFINE l == local[c]
<1>0. /\ c \in Procs /\ TypeOK /\ HeapAtRest(c) /\ l \in Locals
      /\ mem \in [Objects -> Mem]
      /\ \A u \in Threads \ {c} : LeafStore(u)'
  BY RestFromInv, LocalType
  DEF Procs, BaseInv, QueueInv, BusyInv, ControlInv, TypeOK
<1>1. UNCHANGED <<color, ref, handles>>
  BY DEF Allocate, AllocatePublish
<1>2. \A t \in Threads : HeldBy(t)' \subseteq Boxes
  BY <1>0, <1>1 DEF HeldBy, HeapAtRest, Held
<1>3. ASSUME Boxes' = Boxes, Held' \subseteq Boxes,
             \A o \in Objects : mem'[o] # "boxed",
             pc'[c] \in {"busy_check", "alloc_box", "alloc_add"},
             local'[c].op = "allocate"
      PROVE  HeapAtRest(c)'
  <2>1. \A o \in Objects : Successors(o)' = Successors(o)
    BY <1>1 DEF Successors
  <2>2. LeavesAreLeaves'
    BY <1>0, <1>1 DEF HeapAtRest, LeavesAreLeaves, Successors
  <2>3. \A o \in Boxes : Successors(o)' \subseteq Boxes
    BY <1>0, <2>1 DEF HeapAtRest, Boxes
  <2> QED
    BY <1>0, <1>1, <1>3, <2>2, <2>3 DEF HeapAtRest
<1>4. CASE Allocate(c)
  <2>1. PICK o \in Objects :
          /\ mem[o] = "unborn"
          /\ mem' = [mem EXCEPT ![o] = "reserved"]
          /\ SetLocal(c, [l EXCEPT !.op = "allocate", !.current = o])
    BY <1>4 DEF Allocate
  <2>2. local'[c] = [l EXCEPT !.op = "allocate", !.current = o]
    BY <1>0, <2>1, SetLocalMoves
  <2>3. /\ pc[c] = "ready" /\ pc'[c] \in {"busy_check", "alloc_box"}
        /\ local'[c].op = "allocate"
    <3>1. local'[c].op = "allocate"
      BY <1>0, <2>2 DEF Locals
    <3> QED
      BY <1>0, <1>4, <3>1, GotoMoves DEF Allocate
  <2>4. Boxes' = Boxes
    BY <1>0, <2>1 DEF Boxes
  <2>5. \A x \in Objects : mem'[x] # "boxed"
    BY <1>0, <2>1, <2>3 DEF HeapAtRest
  <2>6. Held' \subseteq Boxes
    <3> SUFFICES ASSUME NEW x \in Held' PROVE x \in Boxes
      OBVIOUS
    <3> QED
      BY <1>0, <1>2, <2>3, WhoHolds DEF PushLabel
  <2> QED
    BY <1>3, <2>3, <2>4, <2>5, <2>6
<1>5. CASE AllocatePublish(c)
  <2> DEFINE o == l.current
  <2>1. /\ pc[c] = "alloc_cas" /\ pc'[c] = "alloc_add"
        /\ mem' = [mem EXCEPT ![o] = "live"] /\ local' = local
    BY <1>0, <1>5, GotoMoves DEF AllocatePublish
  <2>2. Allocates(c) /\ o \in Objects /\ mem[o] = "boxed"
    <3>1. OwnsItsObject(c) /\ SeesPublished(c)
      BY <1>0 DEF BaseInv, WholeListInv, ListInv, RootInv
    <3> QED
      BY <2>1, <3>1 DEF OwnsItsObject, SeesPublished, PushLabel, AssistLabel
  <2>3. Boxes' = Boxes
    BY <1>0, <2>1, <2>2 DEF Boxes
  <2>4. \A x \in Objects : mem'[x] # "boxed"
    BY <1>0, <2>1, <2>2 DEF HeapAtRest
  <2>5. Held' \subseteq Boxes
    <3> SUFFICES ASSUME NEW x \in Held' PROVE x \in Boxes
      OBVIOUS
    <3>1. o \in Boxes
      BY <2>2 DEF Boxes
    <3> QED
      BY <1>0, <1>2, <2>1, <3>1, WhoHolds
  <2> QED
    BY <1>3, <2>1, <2>2, <2>3, <2>4, <2>5 DEF Allocates
<1> QED
  BY <1>4, <1>5

(***************************************************************************)
(* The new box is white, private, and points to what its thread has roots  *)
(* of.                                                                     *)
(***************************************************************************)
LEMMA AllocateBoxKeepsRest ==
  ASSUME NEW c \in Threads, BaseInv(c), BaseInv(c)', HeapInv(c),
         pc[c] \notin MarkLabel \cup SweepLabel, AllocateBox(c)
  PROVE  HeapAtRest(c)'
<1> DEFINE o == local[c].current
<1>0. /\ c \in Procs /\ TypeOK /\ HeapAtRest(c) /\ local[c] \in Locals
      /\ mem \in [Objects -> Mem] /\ color \in [Objects -> Color]
      /\ ref \in [Objects -> [Fields -> Pointer]]
      /\ \A u \in Threads \ {c} : LeafStore(u)'
  BY RestFromInv, LocalType
  DEF Procs, BaseInv, QueueInv, BusyInv, ControlInv, TypeOK
<1>1. /\ pc[c] = "alloc_box" /\ pc'[c] = "alloc_load"
      /\ mem' = [mem EXCEPT ![o] = "boxed"]
      /\ color' = [color EXCEPT ![o] = "White"]
      /\ local' = local /\ handles' = handles
  BY <1>0, GotoMoves DEF AllocateBox
<1>2. PICK d \in InitialData(c, o) : ref' = [ref EXCEPT ![o] = d]
  BY DEF AllocateBox
<1>3. o \in Objects /\ mem[o] = "reserved"
  <2>1. OwnsItsObject(c) /\ SeesPublished(c)
    BY <1>0 DEF BaseInv, WholeListInv, ListInv, RootInv
  <2> QED
    BY <1>1, <2>1 DEF OwnsItsObject, SeesPublished, PushLabel
<1>4. Boxes' = Boxes \cup {o}
  BY <1>0, <1>1, <1>3 DEF Boxes
<1>5. \A t \in Threads : HeldBy(t)' = HeldBy(t) /\ HeldBy(t) \subseteq Boxes
  BY <1>0, <1>1 DEF HeldBy, HeapAtRest, Held
<1>6. Held' \subseteq Boxes'
  <2> SUFFICES ASSUME NEW x \in Held' PROVE x \in Boxes \cup {o}
    BY <1>4
  <2> QED
    BY <1>0, <1>1, <1>5, WhoHolds
<1>7. \A f \in Fields : d[f] \in HeldBy(c) \cup {Null} /\ (o \in NoTrace => d[f] = Null)
  BY DEF InitialData
<1>8. /\ \A x \in Objects \ {o} : ref'[x] = ref[x]
      /\ ref'[o] = d
  BY <1>0, <1>2, <1>3
<1>9. \A x \in Boxes' : Successors(x)' \subseteq Boxes'
  <2> SUFFICES ASSUME NEW x \in Boxes' PROVE Successors(x)' \subseteq Boxes'
    OBVIOUS
  <2>1. CASE x = o
    BY <1>4, <1>5, <1>7, <1>8, <2>1 DEF Successors
  <2>2. CASE x # o
    <3>1. x \in Boxes /\ x \in Objects
      BY <1>4, <2>2 DEF Boxes
    <3>2. Successors(x)' = Successors(x)
      BY <1>8, <2>2, <3>1 DEF Successors
    <3> QED
      BY <1>0, <1>4, <3>1, <3>2 DEF HeapAtRest
  <2> QED
    BY <2>1, <2>2
<1>10. LeavesAreLeaves'
  <2> SUFFICES ASSUME NEW x \in NoTrace PROVE Successors(x)' = {}
    BY DEF LeavesAreLeaves
  <2>1. CASE x = o
    BY <1>7, <1>8, <2>1 DEF Successors
  <2>2. CASE x # o
    <3>1. Successors(x)' = Successors(x)
      BY <1>8, <2>2, HeapAssumption DEF Successors
    <3> QED
      BY <1>0, <3>1 DEF HeapAtRest, LeavesAreLeaves
  <2> QED
    BY <2>1, <2>2
<1>11. \A x \in Objects : mem'[x] = "boxed" => x = o
  BY <1>0, <1>1, <1>3 DEF HeapAtRest
<1>12. \A x \in Boxes' \ NoTrace : color'[x] # "Black"
  BY <1>0, <1>1, <1>3, <1>4 DEF HeapAtRest, Boxes
<1> QED
  BY <1>1, <1>6, <1>9, <1>10, <1>11, <1>12 DEF HeapAtRest, SetLabel

(***************************************************************************)
(* The pointer stored is one the thread holds live.                        *)
(***************************************************************************)
LEMMA CellStoreKeepsRest ==
  ASSUME NEW c \in Threads, BaseInv(c), BaseInv(c)', HeapInv(c),
         pc[c] \notin MarkLabel \cup SweepLabel, CellStore(c)
  PROVE  HeapAtRest(c)'
<1> DEFINE l == local[c]
<1>0. /\ c \in Procs /\ TypeOK /\ HeapAtRest(c) /\ OwnCalls(c)
      /\ ref \in [Objects -> [Fields -> Pointer]]
      /\ \A u \in Threads \ {c} : LeafStore(u)'
  BY RestFromInv
  DEF Procs, BaseInv, QueueInv, BusyInv, ControlInv, TypeOK
<1>1. /\ pc[c] = "store" /\ pc'[c] = "ready"
      /\ ref' = [ref EXCEPT ![l.current][l.field] = l.value]
      /\ UNCHANGED <<color, mem, handles>>
  BY <1>0, GotoMoves DEF CellStore
<1>2. /\ l.op = "set" /\ l.current \in HeldBy(c) \ NoTrace
      /\ l.field \in Fields /\ l.value \in Live \cup {Null}
  BY <1>0, <1>1 DEF OwnCalls, HeapAtRest, SetLabel
<1>3. Boxes' = Boxes /\ Live \subseteq Boxes
  BY <1>1 DEF Boxes, Live
<1>4. Held' \subseteq Boxes
  <2> SUFFICES ASSUME NEW x \in Held' PROVE x \in Boxes
    OBVIOUS
  <2>1. \E t \in Threads : x \in HeldBy(t)'
    BY <1>0, <1>1, WhoHolds DEF PushLabel
  <2> QED
    BY <1>0, <1>1, <2>1 DEF HeldBy, HeapAtRest, Held
<1>5. \A o \in Objects, g \in Fields :
        ref'[o][g] = IF o = l.current /\ g = l.field THEN l.value
                                                     ELSE ref[o][g]
  BY <1>0, <1>1, <1>2 DEF HeldBy
<1>6. \A o \in Objects : Successors(o)' \subseteq Successors(o) \cup Live
  BY <1>2, <1>5 DEF Successors
<1>7. \A o \in Boxes : Successors(o)' \subseteq Boxes
  <2>1. Boxes \subseteq Objects
    BY DEF Boxes
  <2> QED
    BY <1>0, <1>3, <1>6, <2>1 DEF HeapAtRest
<1>8. LeavesAreLeaves'
  <2>1. \A o \in NoTrace, g \in Fields : ref'[o][g] = ref[o][g]
    BY <1>2, <1>5, HeapAssumption
  <2>2. \A o \in NoTrace : Successors(o)' = Successors(o)
    BY <2>1 DEF Successors
  <2> QED
    BY <1>0, <2>2 DEF HeapAtRest, LeavesAreLeaves
<1>9. \A o \in Objects : mem'[o] # "boxed"
  BY <1>0, <1>1 DEF HeapAtRest
<1>10. \A o \in Boxes \ NoTrace : color'[o] # "Black"
  BY <1>0, <1>1 DEF HeapAtRest
<1> QED
  BY <1>1, <1>3, <1>4, <1>7, <1>8, <1>9, <1>10 DEF HeapAtRest, SetLabel

(***************************************************************************)
(* Every call of the collecting thread keeps the invariant.                *)
(***************************************************************************)
LEMMA OwnCallKeepsHeap ==
  ASSUME NEW c \in Threads, LeafMutators(c), BaseInv(c), BaseInv(c)',
         HeapInv(c), MutatorCall(c) \/ MutatorStep(c)
  PROVE  HeapInv(c)'
<1>0. /\ c \in Procs /\ TypeOK /\ TypeOK' /\ ControlInv(c)
      /\ ListClosed(InList)
  BY InListIsLeast DEF BaseInv, QueueInv, BusyInv, Procs
<1>1. InList' = InList \/ AllocatePublish(c)
  BY <1>0, OwnListStep
<1>2. /\ pc[c] \in CallLabel /\ pc'[c] \in CallLabel
      /\ ~ CellShade(c) /\ ~ CellMergeWork(c)
  BY <1>0, <1>1, OwnCallKeepsControl
<1>3. /\ pc[c] \notin MarkLabel \cup SweepLabel
      /\ pc'[c] \notin {"roots", "mark", "trace", "bg_check"}
      /\ pc'[c] \notin {"roots"} \cup MarkLabel \cup SweepLabel
  BY <1>2 DEF CallLabel, MarkLabel, SweepLabel
<1>4. HeapAtRest(c)'
  BY <1>2, <1>3, RootCallKeepsRest, CellCallKeepsRest, AllocateKeepsRest,
     AllocateBoxKeepsRest, CellStoreKeepsRest DEF MutatorCall, MutatorStep
<1>5. /\ gray_queue' = <<>> /\ local'[c].tracer = <<>>
      /\ local'[c].tracing = Null
  BY <1>0, <1>3, IdleIsEmptyHanded
<1> QED
  BY <1>3, <1>4, <1>5, InvFromRest

-----------------------------------------------------------------------------

(***************************************************************************)
(* A collection takes no GcRoot and makes none.                            *)
(***************************************************************************)
LEMMA CollectorHolds ==
  ASSUME NEW c \in Procs, TypeOK, MarksAsCollector(c), CollectorMove(c),
         pc'[c] \notin PushLabel
  PROVE  Held' \subseteq Held
<1>1. Others(c) /\ handles' = handles
  BY CollectorMoveFrame
<1>2. \A t \in Threads \ {c} : pc'[t] = pc[t] /\ local'[t] = local[t]
  BY <1>1 DEF Others, Procs
<1> QED
  BY <1>1, <1>2 DEF Held, InAllocate, PushLabel

(***************************************************************************)
(* Steps before and after a cycle.                                         *)
(***************************************************************************)
LEMMA RestingKeepsHeap ==
  ASSUME NEW c \in Procs, BaseInv(c), BaseInv(c)', HeapInv(c),
         CollectorMove(c), UNCHANGED <<color, mem>>,
         pc[c] \notin {"alloc_load", "alloc_cas"} \cup MarkLabel \cup SweepLabel,
         pc'[c] \notin {"roots"} \cup MarkLabel \cup SweepLabel \cup PushLabel
                         \cup SetLabel \cup {"rooting"}
  PROVE  HeapInv(c)'
<1>0. TypeOK /\ MarksAsCollector(c)
  BY DEF BaseInv, QueueInv, BusyInv
<1>1. HeapAtRest(c)
  BY RestFromInv
<1>2. ref' = ref /\ Held' \subseteq Held
  BY <1>0, CollectorMoveFrame, CollectorHolds
<1>3. HeapAtRest(c)'
  BY <1>1, <1>2, QuietCallKeepsRest DEF HeapAtRest
<1>4. /\ gray_queue' = <<>> /\ local'[c].tracer = <<>>
      /\ local'[c].tracing = Null
  BY IdleIsEmptyHanded DEF MarkLabel
<1> QED
  BY <1>3, <1>4, InvFromRest

(***************************************************************************)
(* The steps around a cycle change nothing in the heap.                    *)
(***************************************************************************)
LEMMA RestStepKeepsHeap ==
  ASSUME NEW c \in Procs, BaseInv(c), BaseInv(c)', HeapInv(c),
         \/ TryStartMarking(c) \/ FinishSweep(c) \/ UpdateThreshold(c)
         \/ FinishGc(c) \/ (c \in Threads /\ ForceCollect(c))
         \/ JoinBackgroundThread(c)
         \/ c \in Background /\ BackgroundStep(c) /\ pc[c] # "bg_check"
  PROVE  HeapInv(c)'
<1>0. TypeOK /\ TypeOK' /\ ControlInv(c)
  BY DEF BaseInv, QueueInv, BusyInv
<1>1. CollectorMove(c)
  BY DEF CollectorMove, CycleStep, SweepStep
<1>2. CASE \/ TryStartMarking(c) \/ FinishSweep(c) \/ UpdateThreshold(c)
           \/ FinishGc(c) \/ ForceCollect(c)
  <2>1. /\ UNCHANGED <<color, mem>>
        /\ pc[c] \in {"try_mark", "finish_sweep", "threshold", "finish",
                      "ready"}
        /\ pc'[c] \in {"roots_head", "threshold", "finish", "ready",
                       "bg_enter", "try_mark"}
    BY <1>0, <1>2, GotoMoves DEF TryStartMarking, FinishSweep,
       UpdateThreshold, FinishGc, ForceCollect, CollectorHome
  <2> QED
    BY <1>1, <2>1, RestingKeepsHeap
    DEF MarkLabel, SweepLabel, PushLabel, SetLabel
<1>3. CASE \/ JoinBackgroundThread(c)
           \/ c \in Background /\ BackgroundStep(c) /\ pc[c] # "bg_check"
  <2>1. /\ pc[c] \in {"bg_enter", "bg_sleep", "join"}
        /\ pc'[c] \in {"bg_sleep", "try_mark", "bg_enter", "ready"}
        /\ UNCHANGED color
    BY <1>0, <1>3, BackgroundKeepsControl DEF JoinBackgroundThread, Goto
  <2>2. mem' = mem
    BY <1>3 DEF JoinBackgroundThread, BackgroundStep, BackgroundWait,
       BackgroundNotified, BackgroundTimeout, BackgroundCheck, BackgroundAbort
  <2> QED
    BY <1>1, <2>1, <2>2, RestingKeepsHeap
    DEF MarkLabel, SweepLabel, PushLabel, SetLabel
<1> QED
  BY <1>2, <1>3

-----------------------------------------------------------------------------

(***************************************************************************)
(* do_mark_roots.                                                          *)
(***************************************************************************)
LEMMA ScanKeepsHeap ==
  ASSUME NEW c \in Procs, BaseInv(c), BaseInv(c)', HeapInv(c),
         RootsLoadHead(c) \/ RootsVisit(c)
  PROVE  HeapInv(c)'
<1> DEFINE l == local[c]
<1>0. /\ TypeOK /\ MarksAsCollector(c) /\ RootInv /\ Hands(c) /\ l \in Locals
      /\ InList = Live /\ ListClosed(InList) /\ NoNodeTwice
      /\ next \in [Objects -> Pointer] /\ color \in [Objects -> Color]
  BY LocalType, InListIsLeast
  DEF BaseInv, QueueInv, BusyInv, WholeListInv, ListInv, NoLostAllocation,
      AllocationListSound, ControlInv, TypeOK
<1>1. /\ pc[c] \in {"roots_head", "roots"} /\ pc'[c] = "roots"
      /\ UNCHANGED <<head, next, ref, mem, gray_queue>>
  BY <1>0, GotoMoves DEF RootsLoadHead, RootsVisit
<1>2. HeapAtRest(c)
  BY <1>1, RestFromInv DEF MarkLabel, SweepLabel
<1>3. Held' \subseteq Held
  BY <1>0, <1>1, CollectorHolds DEF CollectorMove, CycleStep, PushLabel
<1>4. \A o \in Objects : mem[o] # "boxed"
  BY <1>1, <1>2 DEF HeapAtRest
<1>5. Boxes' = Boxes /\ Live' = Live
      /\ \A o \in Objects : Successors(o)' = Successors(o)
  BY <1>1 DEF Boxes, Live, Successors
<1>6. Kept(c)' = Boxes
  BY <1>1, <1>5 DEF Kept, Unswept, WalkLabel
<1>7. KeptIsClosed(c)'
  <2>1. Boxes \subseteq Objects
    BY DEF Boxes
  <2> QED
    BY <1>2, <1>3, <1>5, <1>6, <2>1 DEF HeapAtRest, KeptIsClosed
<1>8. LeavesAreLeaves'
  BY <1>2, <1>5, HeapAssumption DEF HeapAtRest, LeavesAreLeaves
<1>9. MarksFromRoots(c)' /\ SweepsByColor(c)'
  BY <1>1 DEF MarksFromRoots, SweepsByColor, MarkLabel, SweepLabel
<1>10. /\ SeqRange(gray_queue) \subseteq Live /\ SeqRange(l.tracer) \subseteq Live
       /\ l.tracing \in Live \cup {Null}
  BY DEF HeapInv, HandsAreLive
<1>11. ASSUME SeqRange(local'[c].tracer) \subseteq Live,
              local'[c].tracing = l.tracing,
              \A o \in Objects : color'[o] = "Black" => color[o] = "Black",
              \A o \in Held : \/ color'[o] # "White"
                              \/ o \in Following(next, local'[c].current)
       PROVE  HeapInv(c)'
  <2>1. HandsAreLive(c)'
    BY <1>1, <1>4, <1>5, <1>10, <1>11 DEF HandsAreLive, SetLabel
  <2>2. NothingScanned(c)'
    BY <1>2, <1>5, <1>11 DEF HeapAtRest, NothingScanned, Boxes
  <2>3. RootsAhead(c)'
    BY <1>1, <1>3, <1>11 DEF RootsAhead
  <2> QED
    BY <1>7, <1>8, <1>9, <2>1, <2>2, <2>3 DEF HeapInv
<1>12. CASE RootsLoadHead(c)
  <2>1. local'[c] = [l EXCEPT !.current = head] /\ color' = color
    BY <1>0, <1>12, SetLocalMoves DEF RootsLoadHead
  <2>2. /\ local'[c].tracer = l.tracer /\ local'[c].tracing = l.tracing
        /\ local'[c].current = head
    BY <1>0, <2>1 DEF Locals
  <2>3. Held \subseteq Following(next, head)
    <3>1. Held \subseteq Live
      BY <1>2, <1>4 DEF HeapAtRest, Boxes, Live
    <3> QED
      BY <1>0, <3>1, FollowingInList
  <2> QED
    BY <1>10, <1>11, <2>1, <2>2, <2>3
<1>13. CASE RootsVisit(c)
  <2> DEFINE o == l.current
  <2>1. pc[c] = "roots" /\ o # Null
    BY <1>13 DEF RootsVisit
  <2>2. o \in InList /\ o \in Objects /\ mem[o] = "live"
    BY <1>0, <2>1 DEF Hands, Live
  <2>3. Following(next, o) = {o} \cup Following(next, next[o])
    BY <1>0, <2>2, FollowingStep
  <2>4. \A x \in Held : color[x] # "White" \/ x \in Following(next, o)
    BY <2>1 DEF HeapInv, RootsAhead
  <2>5. CASE /\ is_root(o)
             /\ color' = mark_white_to_gray(o)
             /\ SetLocal(c, [l EXCEPT !.tracer = PushIfWhite(@, o),
                                      !.current = next[o]])
    <3>1. local'[c] = [l EXCEPT !.tracer = PushIfWhite(@, o),
                                !.current = next[o]]
      BY <1>0, <2>5, SetLocalMoves
    <3>2. /\ local'[c].tracer = PushIfWhite(l.tracer, o)
          /\ local'[c].tracing = l.tracing /\ local'[c].current = next[o]
          /\ l.tracer \in Seq(Objects)
      BY <1>0, <3>1 DEF Locals
    <3>3. SeqRange(PushIfWhite(l.tracer, o)) \subseteq Live
      BY <1>0, <1>10, <2>2, <3>2, ItemsStay DEF PushIfWhite
    <3>4. /\ \A x \in Objects : color'[x] = "Black" => color[x] = "Black"
          /\ \A x \in Objects : color[x] # "White" => color'[x] # "White"
          /\ color'[o] # "White"
      BY <1>0, <2>2, <2>5 DEF mark_white_to_gray
    <3>5. \A x \in Held : \/ color'[x] # "White"
                          \/ x \in Following(next, next[o])
      BY <2>3, <2>4, <3>4 DEF Held
    <3> QED
      BY <1>11, <3>2, <3>3, <3>4, <3>5
  <2>6. CASE /\ ~ is_root(o)
             /\ SetLocal(c, [l EXCEPT !.current = next[o]])
             /\ UNCHANGED color
    <3>1. local'[c] = [l EXCEPT !.current = next[o]]
      BY <1>0, <2>6, SetLocalMoves
    <3>2. /\ local'[c].tracer = l.tracer /\ local'[c].tracing = l.tracing
          /\ local'[c].current = next[o]
      BY <1>0, <3>1 DEF Locals
    <3>3. o \notin Held
      BY <1>0, <2>2, <2>6, CountedIsHeld
    <3>4. \A x \in Held : \/ color'[x] # "White"
                          \/ x \in Following(next, next[o])
      BY <2>3, <2>4, <2>6, <3>3
    <3> QED
      BY <1>10, <1>11, <2>6, <3>2, <3>4
  <2> QED
    BY <1>13, <2>5, <2>6 DEF RootsVisit
<1> QED
  BY <1>12, <1>13

-----------------------------------------------------------------------------

(***************************************************************************)
(* Tracer::mark shades what it is given, and nothing but a leaf black.     *)
(***************************************************************************)
LEMMA MarkShades ==
  ASSUME TypeOK, NEW v \in Objects \cup {Null}
  PROVE  /\ v # Null => MarkColor(v)[v] # "White"
         /\ \A o \in Objects : color[o] # "White" => MarkColor(v)[o] # "White"
         /\ \A o \in Objects : MarkColor(v)[o] = "Black" =>
              color[o] = "Black" \/ o \in NoTrace
<1>0. color \in [Objects -> Color] /\ Null \notin Objects
      /\ NoTrace \subseteq Objects
  BY HeapAssumption DEF TypeOK
<1>1. CASE v = Null
  BY <1>1 DEF MarkColor
<1>2. CASE v \in NoTrace
  <2>1. MarkColor(v) = [color EXCEPT ![v] = "Black"]
    BY <1>0, <1>2 DEF MarkColor
  <2> QED
    BY <1>0, <1>2, <2>1
<1>3. CASE v \in Objects \ NoTrace
  <2>1. MarkColor(v) = mark_white_to_gray(v)
    BY <1>0, <1>3 DEF MarkColor
  <2> QED
    BY <1>0, <1>3, <2>1 DEF mark_white_to_gray
<1> QED
  BY <1>0, <1>1, <1>2, <1>3

(***************************************************************************)
(* What a step of the marking, or the one that begins it, has to show.     *)
(***************************************************************************)
MarkDuty(c) ==
  /\ pc[c] \in {"roots"} \cup MarkLabel /\ pc'[c] \in MarkLabel
  /\ \A o \in Held : color'[o] # "White"
  /\ \A o \in Live : color'[o] = "Black" =>
       \A v \in Successors(o) : color'[v] # "White"
  /\ pc'[c] = "trace" =>
       \A f \in Fields \ local'[c].pending :
         \/ ref[local'[c].tracing][f] = Null
         \/ color'[ref[local'[c].tracing][f]] # "White"
  /\ SeqRange(gray_queue') \subseteq Live
  /\ SeqRange(local'[c].tracer) \subseteq Live
  /\ local'[c].tracing \in Live \cup {Null}

(***************************************************************************)
(* A step that does what marking must keeps the invariant.                 *)
(***************************************************************************)
LEMMA MarkDutyKeepsHeap ==
  ASSUME NEW c \in Procs, BaseInv(c), HeapInv(c), CollectorMove(c),
         mem' = mem, MarkDuty(c)
  PROVE  HeapInv(c)'
<1>0. TypeOK /\ MarksAsCollector(c)
  BY DEF BaseInv, QueueInv, BusyInv
<1>1. pc[c] \in {"roots"} \cup MarkLabel /\ pc'[c] \in MarkLabel
  BY DEF MarkDuty
<1>2. ref' = ref /\ Held' \subseteq Held
  BY <1>0, <1>1, CollectorMoveFrame, CollectorHolds DEF MarkLabel, PushLabel
<1>3. Boxes' = Boxes /\ Live' = Live
      /\ \A o \in Objects : Successors(o)' = Successors(o)
  BY <1>2 DEF Boxes, Live, Successors
<1>4. Kept(c) = Boxes /\ Kept(c)' = Boxes
  BY <1>1, <1>3 DEF Kept, Unswept, WalkLabel, MarkLabel
<1>5. KeptIsClosed(c)'
  <2>1. Boxes \subseteq Objects
    BY DEF Boxes
  <2> QED
    BY <1>2, <1>3, <1>4, <2>1 DEF HeapInv, KeptIsClosed
<1>6. LeavesAreLeaves'
  BY <1>3, HeapAssumption DEF HeapInv, LeavesAreLeaves
<1>7. HandsAreLive(c)'
  <2>1. \A o \in Objects : mem[o] # "boxed"
    BY <1>1 DEF HeapInv, HandsAreLive, MarkLabel
  <2> QED
    BY <1>1, <1>3, <2>1 DEF MarkDuty, HandsAreLive, MarkLabel, SetLabel
<1>8. NothingScanned(c)' /\ RootsAhead(c)' /\ SweepsByColor(c)'
  BY <1>1 DEF NothingScanned, RootsAhead, SweepsByColor, MarkLabel, SweepLabel
<1>9. MarksFromRoots(c)'
  <2>1. \A o \in Live : Successors(o)' = Successors(o)
    BY <1>3 DEF Live
  <2> QED
    BY <1>2, <1>3, <2>1 DEF MarkDuty, MarksFromRoots
<1> QED
  BY <1>5, <1>6, <1>7, <1>8, <1>9 DEF HeapInv

(***************************************************************************)
(* Steps that shade nothing, and only move gray objects around.            *)
(***************************************************************************)
LEMMA NothingShaded ==
  ASSUME NEW c, HeapInv(c), color' = color,
         pc[c] \in MarkLabel, pc'[c] \in MarkLabel \ {"trace"},
         SeqRange(gray_queue') \subseteq Live,
         SeqRange(local'[c].tracer) \subseteq Live,
         local'[c].tracing = local[c].tracing
  PROVE  MarkDuty(c)
BY DEF HeapInv, HandsAreLive, MarksFromRoots, MarkDuty

(***************************************************************************)
(* The steps of the mark loop and of the root scan that end in it do so.   *)
(***************************************************************************)
LEMMA MarkingKeepsHeap ==
  ASSUME NEW c \in Procs, LeafMutators(c), BaseInv(c), BaseInv(c)',
         HeapInv(c), MarkStep(c)
  PROVE  HeapInv(c)'
<1> DEFINE l == local[c]
           q == gray_queue
<1>0. /\ TypeOK /\ TypeOK' /\ Hands(c) /\ ControlInv(c)
      /\ l \in Locals /\ l.tracer \in Seq(Objects) /\ q \in Seq(Objects)
      /\ color \in [Objects -> Color]
      /\ ref \in [Objects -> [Fields -> Pointer]]
  BY LocalType DEF BaseInv, QueueInv, BusyInv, ControlInv, TypeOK, Locals
<1>1. /\ pc[c] \in {"mark", "trace"}
      /\ pc'[c] \in {"mark", "trace", "busy_test", "bg_check"}
  BY <1>0, MarkStepKeepsControl
<1>2. CollectorMove(c) /\ mem' = mem
  BY DEF CollectorMove, CycleStep, MarkStep, MarkPop, MarkSteal, TraceField,
     MarkBlack, MarkNoWork, MarkBudgetSpent
<1>3. pc[c] \in MarkLabel /\ pc'[c] \in MarkLabel
  BY <1>1 DEF MarkLabel
<1>4. /\ SeqRange(q) \subseteq Live /\ SeqRange(l.tracer) \subseteq Live
      /\ l.tracing \in Live \cup {Null} /\ Live \subseteq Objects
  BY DEF HeapInv, HandsAreLive, Live
<1>5. /\ \A o \in Held : color[o] # "White"
      /\ \A o \in Live : color[o] = "Black" =>
           \A v \in Successors(o) : color[v] # "White"
  BY <1>3 DEF HeapInv, MarksFromRoots
<1>6. Len(q) \in Nat /\ Len(l.tracer) \in Nat
  BY <1>0, LenProperties
<1>7. CASE MarkPop(c)
  <2> DEFINE o == l.tracer[Len(l.tracer)]
  <2>1. /\ pc'[c] = "trace" /\ l.tracer # <<>> /\ UNCHANGED <<color, q>>
        /\ SetLocal(c, [l EXCEPT
                          !.tracer = SubSeq(l.tracer, 1, Len(l.tracer) - 1),
                          !.tracing = o,
                          !.pending = IF o \in NoTrace THEN {} ELSE Fields])
    BY <1>0, <1>7, GotoMoves DEF MarkPop
  <2>2. local'[c] = [l EXCEPT
                       !.tracer = SubSeq(l.tracer, 1, Len(l.tracer) - 1),
                       !.tracing = o,
                       !.pending = IF o \in NoTrace THEN {} ELSE Fields]
    BY <1>0, <2>1, SetLocalMoves
  <2>3. /\ local'[c].tracer = SubSeq(l.tracer, 1, Len(l.tracer) - 1)
        /\ local'[c].tracing = o
        /\ local'[c].pending = IF o \in NoTrace THEN {} ELSE Fields
    BY <1>0, <2>2 DEF Locals
  <2>4. Len(l.tracer) \in 1..Len(l.tracer) /\ Len(l.tracer) - 1 \in 0..Len(l.tracer)
    BY <1>0, <1>6, <2>1, EmptySeq
  <2>5. o \in Live
    BY <1>4, <2>4 DEF SeqRange
  <2>6. SeqRange(local'[c].tracer) \subseteq Live
    BY <1>0, <1>4, <2>3, <2>4, ItemsStay
  <2>7. \A f \in Fields \ local'[c].pending : ref[o][f] = Null
    <3>1. CASE o \in NoTrace
      <4>1. Successors(o) = {}
        BY <3>1 DEF HeapInv, LeavesAreLeaves
      <4> QED
        BY <4>1 DEF Successors
    <3>2. CASE o \notin NoTrace
      BY <2>3, <3>2
    <3> QED
      BY <3>1, <3>2
  <2>8. MarkDuty(c)
    BY <1>3, <1>4, <1>5, <2>1, <2>3, <2>5, <2>6, <2>7 DEF MarkDuty
  <2> QED
    BY <1>2, <2>8, MarkDutyKeepsHeap
<1>8. CASE MarkSteal(c)
  <2> DEFINE n == IF Len(q) < BatchSize THEN Len(q) ELSE BatchSize
  <2>1. /\ pc[c] = "mark" /\ UNCHANGED <<color, pc>>
        /\ SetLocal(c, [l EXCEPT !.tracer = LastItems(n)])
        /\ q' = SubSeq(q, 1, Len(q) - n)
    BY <1>8 DEF MarkSteal
  <2>2. n \in 0..Len(q) /\ Len(q) - n \in 0..Len(q)
    BY <1>6, HeapAssumption
  <2> HIDE DEF n
  <2>3. local'[c] = [l EXCEPT !.tracer = LastItems(n)]
    BY <1>0, <2>1, SetLocalMoves
  <2>4. local'[c].tracer = LastItems(n) /\ local'[c].tracing = l.tracing
    BY <1>0, <2>3 DEF Locals
  <2>5. SeqRange(LastItems(n)) \subseteq Live
    BY <1>0, <1>4, <2>2, StolenItems
  <2>6. SeqRange(q') \subseteq Live
    BY <1>0, <1>4, <2>1, <2>2, ItemsStay
  <2>7. MarkDuty(c)
    BY <1>3, <2>1, <2>4, <2>5, <2>6, NothingShaded
  <2> QED
    BY <1>2, <2>7, MarkDutyKeepsHeap
<1>9. CASE TraceField(c)
  <2>1. PICK f \in l.pending :
          /\ color' = MarkColor(ref[l.tracing][f])
          /\ SetLocal(c, [l EXCEPT
                            !.tracer = MarkTracer(@, ref[l.tracing][f]),
                            !.pending = @ \ {f}])
    BY <1>9 DEF TraceField
  <2> DEFINE o == l.tracing
             v == ref[o][f]
  <2>2. /\ pc[c] = "trace" /\ UNCHANGED <<pc, q>>
        /\ o \in Objects /\ o \in Live
    BY <1>0, <1>4, <1>9, HeapAssumption DEF TraceField, Hands
  <2>3. local'[c] = [l EXCEPT !.tracer = MarkTracer(@, v), !.pending = @ \ {f}]
    BY <1>0, <2>1, SetLocalMoves
  <2>4. /\ local'[c].tracer = MarkTracer(l.tracer, v)
        /\ local'[c].tracing = o /\ local'[c].pending = l.pending \ {f}
        /\ f \in Fields
    BY <1>0, <2>1, <2>3 DEF Locals
  <2>5. v \in Live \cup {Null}
    <3>1. v # Null => v \in Successors(o)
      BY <2>4 DEF Successors
    <3>2. Kept(c) = Boxes /\ o \in Boxes
      BY <1>3, <2>2 DEF Kept, Unswept, WalkLabel, MarkLabel, Boxes, Live
    <3>3. v # Null => v \in Boxes
      BY <3>1, <3>2 DEF HeapInv, KeptIsClosed
    <3> QED
      BY <1>1, <3>3 DEF HeapInv, HandsAreLive, Boxes, Live
  <2>6. SeqRange(local'[c].tracer) \subseteq Live
    <3>1. CASE v = Null
      <4>1. MarkTracer(l.tracer, Null) = l.tracer
        BY HeapAssumption DEF MarkTracer
      <4> QED
        BY <1>4, <2>4, <3>1, <4>1
    <3>2. CASE v \in Live
      <4>1. SeqRange(MarkTracer(l.tracer, v)) \subseteq Live
        BY <1>0, <1>4, <3>2, MarkedItems
      <4> QED
        BY <2>4, <4>1
    <3> QED
      BY <2>5, <3>1, <3>2
  <2>7. /\ v # Null => color'[v] # "White"
        /\ \A x \in Objects : color[x] # "White" => color'[x] # "White"
        /\ \A x \in Objects : color'[x] = "Black" =>
             color[x] = "Black" \/ x \in NoTrace
    <3>1. v \in Objects \cup {Null} /\ color' = MarkColor(v)
      BY <1>4, <2>1, <2>5
    <3> HIDE DEF v
    <3> QED
      BY <1>0, <3>1, MarkShades
  <2>8. \A x \in Held : color'[x] # "White"
    BY <1>5, <2>7 DEF Held
  <2>9. ASSUME NEW x \in Live, color'[x] = "Black", NEW w \in Successors(x)
        PROVE  color'[w] # "White"
    <3>1. x \in Objects /\ w \in Objects
      BY <1>0, <1>4 DEF Successors, Pointer
    <3>2. x \notin NoTrace
      BY DEF HeapInv, LeavesAreLeaves
    <3> QED
      BY <1>5, <2>7, <2>9, <3>1, <3>2
  <2>10. \A g \in Fields \ local'[c].pending :
           ref[o][g] = Null \/ color'[ref[o][g]] # "White"
    <3> SUFFICES ASSUME NEW g \in Fields \ (l.pending \ {f}), g # f,
                        ref[o][g] # Null
                 PROVE  color'[ref[o][g]] # "White"
      BY <2>4, <2>7
    <3>1. color[ref[o][g]] # "White"
      BY <1>3, <2>2 DEF HeapInv, MarksFromRoots
    <3>2. ref[o][g] \in Objects
      BY <1>0, <2>2 DEF Pointer
    <3> QED
      BY <2>7, <3>1, <3>2
  <2>11. MarkDuty(c)
    BY <1>3, <1>4, <2>2, <2>4, <2>6, <2>8, <2>9, <2>10 DEF MarkDuty
  <2> QED
    BY <1>2, <2>11, MarkDutyKeepsHeap
<1>10. CASE MarkBlack(c)
  <2> DEFINE o == l.tracing
  <2>1. /\ l.pending = {} /\ pc[c] = "trace" /\ pc'[c] = "mark"
        /\ color' = [color EXCEPT ![o] = "Black"] /\ q' = q
        /\ SetLocal(c, [l EXCEPT !.tracing = Null, !.work_done = @ + 1])
    BY <1>0, <1>10, GotoMoves DEF MarkBlack
  <2>2. local'[c] = [l EXCEPT !.tracing = Null, !.work_done = @ + 1]
    BY <1>0, <2>1, SetLocalMoves
  <2>3. local'[c].tracer = l.tracer /\ local'[c].tracing = Null
    BY <1>0, <2>2 DEF Locals
  <2>4. o \in Objects
    BY <1>0, <2>1 DEF Hands
  <2>5. /\ \A x \in Objects : color[x] # "White" => color'[x] # "White"
        /\ \A x \in Objects : color'[x] = "Black" => color[x] = "Black" \/ x = o
    BY <1>0, <2>1, <2>4
  <2>6. \A x \in Held : color'[x] # "White"
    BY <1>5, <2>5 DEF Held
  <2>7. ASSUME NEW x \in Live, color'[x] = "Black", NEW w \in Successors(x)
        PROVE  color'[w] # "White"
    <3>1. x \in Objects /\ w \in Objects
      BY <1>0, <1>4 DEF Successors, Pointer
    <3>2. CASE x = o
      <4>1. PICK f \in Fields : w = ref[o][f] /\ w # Null
        BY <3>2 DEF Successors
      <4>2. color[w] # "White"
        BY <1>3, <2>1, <4>1 DEF HeapInv, MarksFromRoots
      <4> QED
        BY <2>5, <3>1, <4>2
    <3>3. CASE x # o
      BY <1>5, <2>5, <2>7, <3>1, <3>3
    <3> QED
      BY <3>2, <3>3
  <2>8. MarkDuty(c)
    BY <1>3, <1>4, <2>1, <2>3, <2>6, <2>7 DEF MarkDuty
  <2> QED
    BY <1>2, <2>8, MarkDutyKeepsHeap
<1>11. CASE MarkNoWork(c) \/ MarkBudgetSpent(c)
  <2>1. /\ pc'[c] \in MarkLabel \ {"trace"} /\ color' = color
        /\ \/ /\ q' = q /\ local'[c] = [l EXCEPT !.work_done = 0]
           \/ /\ q' = q \o l.tracer
              /\ local'[c] = [l EXCEPT !.tracer = <<>>, !.work_done = 0]
    <3>1. pc'[c] = AfterMarking(c)
      BY <1>0, <1>11, GotoMoves DEF MarkNoWork, MarkBudgetSpent
    <3>2. pc'[c] # "trace"
      BY <3>1 DEF AfterMarking
    <3> QED
      BY <1>0, <1>3, <1>11, <3>2, SetLocalMoves DEF MarkNoWork, MarkBudgetSpent
  <2>2. /\ local'[c].tracing = l.tracing
        /\ local'[c].tracer \in {l.tracer, <<>>}
    BY <1>0, <2>1 DEF Locals
  <2>3. SeqRange(local'[c].tracer) \subseteq Live
    BY <1>4, <2>2 DEF SeqRange
  <2>4. SeqRange(q') \subseteq Live
    BY <1>0, <1>4, <2>1, ItemsStay
  <2>5. MarkDuty(c)
    BY <1>3, <2>1, <2>2, <2>3, <2>4, NothingShaded
  <2> QED
    BY <1>2, <2>5, MarkDutyKeepsHeap
<1> QED
  BY <1>7, <1>8, <1>9, <1>10, <1>11 DEF MarkStep

(***************************************************************************)
(* The end of the root scan, and the tests between two rounds.             *)
(***************************************************************************)
LEMMA RoundsKeepHeap ==
  ASSUME NEW c \in Procs, BaseInv(c), HeapInv(c),
         \/ RootsMerge(c) \/ BusyTest(c)
         \/ (c \in Background /\ BackgroundStep(c) /\ pc[c] = "bg_check")
  PROVE  HeapInv(c)'
<1> DEFINE l == local[c]
<1>0. /\ TypeOK /\ Hands(c) /\ ControlInv(c)
      /\ l \in Locals /\ l.tracer \in Seq(Objects)
      /\ gray_queue \in Seq(Objects) /\ next \in [Objects -> Pointer]
  BY LocalType DEF BaseInv, QueueInv, BusyInv, ControlInv, TypeOK, Locals
<1>1. CollectorMove(c)
  BY DEF CollectorMove, CycleStep
<1>2. /\ SeqRange(gray_queue) \subseteq Live /\ SeqRange(l.tracer) \subseteq Live
      /\ l.tracing \in Live \cup {Null} /\ Live \subseteq Objects
  BY DEF HeapInv, HandsAreLive, Live
<1>3. CASE RootsMerge(c)
  <2>1. /\ pc[c] = "roots" /\ pc'[c] \in {"mark", "bg_check"}
        /\ l.current = Null /\ gray_queue' = gray_queue \o l.tracer
        /\ SetLocal(c, [l EXCEPT !.tracer = <<>>]) /\ UNCHANGED <<color, mem>>
    BY <1>0, <1>3, GotoMoves DEF RootsMerge
  <2>2. local'[c] = [l EXCEPT !.tracer = <<>>]
    BY <1>0, <2>1, SetLocalMoves
  <2>3. local'[c].tracer = <<>> /\ local'[c].tracing = l.tracing
    BY <1>0, <2>2 DEF Locals
  <2>4. \A o \in Held : color[o] # "White"
    <3>1. Following(next, Null) = {}
      BY <1>0, FollowingStep
    <3> QED
      BY <2>1, <3>1 DEF HeapInv, RootsAhead
  <2>5. \A o \in Live : color[o] = "Black" => Successors(o) = {}
    <3>1. \A o \in Live : color[o] = "Black" => o \in NoTrace
      BY <2>1 DEF HeapInv, NothingScanned, Live, Boxes, MarkLabel, SweepLabel
    <3> QED
      BY <3>1 DEF HeapInv, LeavesAreLeaves
  <2>6. SeqRange(gray_queue') \subseteq Live
    BY <1>0, <1>2, <2>1, ItemsStay
  <2>7. SeqRange(local'[c].tracer) \subseteq Live
    BY <2>3 DEF SeqRange
  <2>8. MarkDuty(c)
    BY <1>2, <2>1, <2>3, <2>4, <2>5, <2>6, <2>7 DEF MarkDuty, MarkLabel
  <2> QED
    BY <1>1, <2>1, <2>8, MarkDutyKeepsHeap
<1>4. CASE BusyTest(c)
  <2>1. /\ pc[c] = "busy_test"
        /\ pc'[c] \in {"sweep_start", "mark", "bg_check"}
        /\ UNCHANGED <<color, mem, gray_queue, local>>
    BY <1>0, <1>4, GotoMoves DEF BusyTest
  <2>2. MarkDuty(c)
    BY <1>2, <2>1, NothingShaded DEF MarkLabel
  <2> QED
    BY <1>1, <2>1, <2>2, MarkDutyKeepsHeap
<1>5. CASE c \in Background /\ BackgroundStep(c) /\ pc[c] = "bg_check"
  <2>1. BackgroundCheck(c)
    BY <1>5 DEF BackgroundStep, BackgroundWait, BackgroundNotified,
       BackgroundTimeout, BackgroundAbort, Goto
  <2>2. /\ pc'[c] \in {"mark", "bg_abort"}
        /\ UNCHANGED <<color, mem, gray_queue, local>>
    BY <1>0, <2>1, GotoMoves DEF BackgroundCheck
  <2>3. pc'[c] # "bg_abort"
    <3>1. c \in Background => ~ is_stopped(c)
      BY <1>0 DEF ControlInv, InPhase
    <3> QED
      BY <1>0, <1>5, <2>1, <3>1, GotoMoves DEF BackgroundCheck
  <2>4. MarkDuty(c)
    BY <1>2, <1>5, <2>2, <2>3, NothingShaded DEF MarkLabel
  <2> QED
    BY <1>1, <2>2, <2>4, MarkDutyKeepsHeap
<1> QED
  BY <1>3, <1>4, <1>5

-----------------------------------------------------------------------------

(***************************************************************************)
(* At the start of the sweep nothing is gray: all that was is scanned.     *)
(***************************************************************************)
LEMMA NothingGray ==
  ASSUME NEW c \in Procs, LeafMutators(c), BaseInv(c), pc[c] = "sweep_start"
  PROVE  gray_queue = <<>> /\ \A o \in Objects : color[o] # "Gray"
<1>1. gray_queue = <<>>
  BY DEF BaseInv, ControlInv, Hands
<1>2. \A p \in Procs : IdleHands(p)
  BY DEF BaseInv, QueueInv
<1>3. local[c].tracer = <<>> /\ local[c].tracing = Null
  BY <1>2 DEF IdleHands, TracerLabel
<1>4. ASSUME NEW p \in Procs \ {c}
      PROVE  local[p].tracer = <<>> /\ local[p].tracing = Null
  <2>1. p \in Threads \ {c}
    BY DEF Procs, LeafMutators, SoleCollector
  <2>2. LeafStore(p)
    BY <2>1 DEF BaseInv, ControlInv
  <2> QED
    BY <1>2, <2>2 DEF LeafStore, IdleHands, SetLabel
<1>5. \A p \in Procs : InHand(p) = {Null}
  BY <1>3, <1>4 DEF InHand, SeqRange
<1>6. SeqRange(gray_queue) \cup InTracer \subseteq {Null}
  BY <1>1, <1>5 DEF InTracer, SeqRange
<1>7. EveryGrayIsQueued
  BY DEF BaseInv, QueueInv
<1> QED
  BY <1>1, <1>6, <1>7, HeapAssumption DEF EveryGrayIsQueued

(***************************************************************************)
(* do_sweep drops the garbage there was when it began, and nothing else.   *)
(***************************************************************************)
LEMMA SweepDutyKeepsHeap ==
  ASSUME NEW c \in Procs, BaseInv(c)', pc'[c] \in SweepLabel,
         \A o \in Objects : mem'[o] # "boxed",
         KeptIsClosed(c)', LeavesAreLeaves', SweepsByColor(c)'
  PROVE  HeapInv(c)'
<1>1. /\ gray_queue' = <<>> /\ local'[c].tracer = <<>>
      /\ local'[c].tracing = Null
  BY IdleIsEmptyHanded DEF SweepLabel
<1>2. HandsAreLive(c)'
  BY <1>1 DEF HandsAreLive, SeqRange, SweepLabel, SetLabel
<1>3. NothingScanned(c)' /\ RootsAhead(c)' /\ MarksFromRoots(c)'
  BY DEF NothingScanned, RootsAhead, MarksFromRoots, MarkLabel, SweepLabel
<1> QED
  BY <1>2, <1>3 DEF HeapInv

(***************************************************************************)
(* When marking is complete, white is garbage: here the tri-color          *)
(* invariant pays.                                                         *)
(***************************************************************************)
LEMMA StartSweepingKeepsHeap ==
  ASSUME NEW c \in Procs, LeafMutators(c), BaseInv(c), BaseInv(c)',
         HeapInv(c), StartSweeping(c)
  PROVE  HeapInv(c)'
<1>0. /\ TypeOK /\ MarksAsCollector(c) /\ InList = Live
      /\ color \in [Objects -> Color]
  BY DEF BaseInv, QueueInv, BusyInv, WholeListInv, ListInv, NoLostAllocation,
     AllocationListSound, TypeOK
<1>1. /\ pc[c] = "sweep_start" /\ pc'[c] = "sweep_head"
      /\ UNCHANGED <<head, next, color, ref, mem>>
  BY <1>0, GotoMoves DEF StartSweeping
<1>2. Held' \subseteq Held
  BY <1>0, <1>1, CollectorHolds
  DEF CollectorMove, CycleStep, SweepStep, PushLabel
<1>3. \A o \in Objects : mem[o] # "boxed"
  BY <1>1 DEF HeapInv, HandsAreLive
<1>4. /\ Boxes = Live /\ Boxes' = Live /\ InList' = InList
      /\ \A o \in Objects : Successors(o)' = Successors(o)
      /\ Live \subseteq Objects
  BY <1>1, <1>3 DEF Boxes, Live, InList, Successors
<1>5. Kept(c) = Live
  BY <1>1, <1>4 DEF Kept, Unswept, WalkLabel
<1>6. Unswept(c)' = Live
  BY <1>0, <1>1, <1>4 DEF Unswept, WalkLabel
<1>7. Kept(c)' = {o \in Live : color[o] # "White"}
  BY <1>1, <1>4, <1>6 DEF Kept
<1>8. /\ \A o \in Held : color[o] # "White"
      /\ \A o \in Live : color[o] = "Black" =>
           \A v \in Successors(o) : color[v] # "White"
  BY <1>1 DEF HeapInv, MarksFromRoots, MarkLabel
<1>9. \A o \in Objects : color[o] \in {"White", "Black"}
  BY <1>0, <1>1, NothingGray DEF Color
<1>10. KeptIsClosed(c)'
  <2>1. Held' \subseteq Kept(c)'
    BY <1>2, <1>5, <1>7, <1>8 DEF HeapInv, KeptIsClosed
  <2>2. ASSUME NEW o \in Kept(c)' PROVE Successors(o)' \subseteq Kept(c)'
    <3>1. o \in Live /\ color[o] = "Black" /\ o \in Objects
      BY <1>4, <1>7, <1>9
    <3>2. Successors(o) \subseteq Live
      BY <1>5, <3>1 DEF HeapInv, KeptIsClosed
    <3> QED
      BY <1>4, <1>7, <1>8, <3>1, <3>2
  <2> QED
    BY <2>1, <2>2 DEF KeptIsClosed
<1>11. LeavesAreLeaves'
  BY <1>4, HeapAssumption DEF HeapInv, LeavesAreLeaves
<1>12. SweepsByColor(c)'
  BY <1>1, <1>4, <1>6 DEF SweepsByColor
<1> QED
  BY <1>1, <1>3, <1>10, <1>11, <1>12, SweepDutyKeepsHeap DEF SweepLabel

(***************************************************************************)
(* Each step of the walk leaves what is kept alone, and makes white at     *)
(* most the object it leaves behind.                                       *)
(***************************************************************************)
SweepsOn(c) ==
  /\ Kept(c)' = Kept(c)
  /\ \A o \in Objects : color'[o] # "White" =>
       color[o] # "White" /\ (o \in Unswept(c) => o \in Unswept(c)')

(***************************************************************************)
(* Every step of the walk does what sweeping must.                         *)
(***************************************************************************)
LEMMA SweepingKeepsHeap ==
  ASSUME NEW c \in Procs, BaseInv(c), BaseInv(c)', HeapInv(c),
         \/ SweepLoadHead(c) \/ SweepColor(c) \/ SweepRoot(c)
         \/ SweepKeep(c) \/ SweepFree(c)
  PROVE  HeapInv(c)' /\ SweepsOn(c)
<1> DEFINE l == local[c]
           o == l.current
<1>0. /\ TypeOK /\ TypeOK' /\ MarksAsCollector(c) /\ RootInv /\ l \in Locals
      /\ InList = Live /\ NoNodeTwice /\ SweepsTheList(c)
      /\ next \in [Objects -> Pointer] /\ next' \in [Objects -> Pointer]
      /\ color \in [Objects -> Color] /\ mem \in [Objects -> Mem]
  BY LocalType
  DEF BaseInv, QueueInv, BusyInv, WholeListInv, ListInv, NoLostAllocation,
      AllocationListSound, TypeOK
<1>1. pc[c] \in SweepLabel /\ pc'[c] \in WalkLabel
  BY <1>0, GotoMoves DEF SweepLoadHead, SweepColor, SweepRoot, SweepKeep,
     SweepFree, SweepLabel, WalkLabel
<1>2. /\ pc'[c] \in SweepLabel
      /\ \A x \in Objects : mem[x] # "boxed"
  BY <1>1 DEF SweepLabel, WalkLabel, HeapInv, HandsAreLive
<1>3. Held' \subseteq Held /\ ref' = ref
  BY <1>0, <1>1, CollectorHolds, CollectorMoveFrame
  DEF CollectorMove, CycleStep, SweepStep, PushLabel, WalkLabel
<1>4. \A x \in Objects : Successors(x)' = Successors(x)
  BY <1>3 DEF Successors
<1>5. LeavesAreLeaves'
  BY <1>4, HeapAssumption DEF HeapInv, LeavesAreLeaves
<1>6. ASSUME Kept(c)' = Kept(c) PROVE KeptIsClosed(c)'
  <2>1. Kept(c) \subseteq Objects
    BY DEF Kept, Boxes
  <2> QED
    BY <1>3, <1>4, <1>6, <2>1 DEF HeapInv, KeptIsClosed
<1>7. Unswept(c)' = Following(next', local'[c].current)
  <2>1. Following(next', local'[c].current) \subseteq Objects
    BY DEF Following
  <2> QED
    BY <1>1, <2>1 DEF Unswept, WalkLabel
<1>8. \A x \in Boxes \ NoTrace : color[x] # "White" => x \in Unswept(c)
  BY <1>1 DEF HeapInv, SweepsByColor
<1>9. ASSUME pc[c] \in WalkLabel
      PROVE  Unswept(c) = Following(next, o)
  <2>1. Following(next, o) \subseteq Objects
    BY DEF Following
  <2> QED
    BY <1>9, <2>1 DEF Unswept, WalkLabel
<1>10. ASSUME pc[c] \in WalkLabel, o # Null
       PROVE  /\ o \in InList /\ o \in Objects
              /\ Unswept(c) = {o} \cup Following(next, next[o])
              /\ o \notin Following(next, next[o])
  <2>1. o \in InList /\ o \in Objects
    BY <1>0, <1>10 DEF SweepsTheList, InList
  <2> QED
    BY <1>0, <1>9, <1>10, <2>1, FollowingStep, FollowingInList
<1>11. CASE SweepLoadHead(c) \/ SweepColor(c) \/ SweepRoot(c)
  <2>1. UNCHANGED <<head, next, color, mem>>
    BY <1>11 DEF SweepLoadHead, SweepColor, SweepRoot
  <2>2. Boxes' = Boxes
    BY <2>1 DEF Boxes
  <2>3. ASSUME Unswept(c)' = Unswept(c),
               pc'[c] \in {"sweep_root", "sweep_free"} =>
                 color[local'[c].current] = "White",
               pc'[c] = "sweep_keep" => color[local'[c].current] # "White"
        PROVE  HeapInv(c)' /\ SweepsOn(c)
    <3>1. Kept(c)' = Kept(c)
      BY <2>1, <2>2, <2>3 DEF Kept
    <3>2. SweepsByColor(c)'
      BY <1>8, <2>1, <2>2, <2>3 DEF SweepsByColor
    <3> QED
      BY <1>2, <1>5, <1>6, <2>1, <2>3, <3>1, <3>2, SweepDutyKeepsHeap
      DEF SweepsOn
  <2>4. CASE SweepLoadHead(c)
    <3>1. pc[c] = "sweep_head" /\ pc'[c] = "sweep"
          /\ local'[c] = [l EXCEPT !.current = head]
      BY <1>0, <2>4, GotoMoves, SetLocalMoves DEF SweepLoadHead
    <3>2. local'[c].current = head
      BY <1>0, <3>1 DEF Locals
    <3>3. Unswept(c) = InList
      BY <1>0, <3>1 DEF Unswept, Live, WalkLabel
    <3>4. Unswept(c)' = Unswept(c)
      BY <1>0, <1>7, <2>1, <3>2, <3>3, FollowingInList
    <3> QED
      BY <2>3, <3>1, <3>4
  <2>5. CASE SweepColor(c)
    <3>1. /\ pc[c] = "sweep" /\ o # Null
          /\ pc'[c] = IF color[o] = "White" THEN "sweep_root" ELSE "sweep_keep"
          /\ local'[c] = [l EXCEPT !.following = next[o]]
      BY <1>0, <2>5, GotoMoves, SetLocalMoves DEF SweepColor
    <3>2. local'[c].current = o
      BY <1>0, <3>1 DEF Locals
    <3>3. Unswept(c)' = Unswept(c)
      BY <1>7, <1>9, <2>1, <3>1, <3>2 DEF WalkLabel
    <3> QED
      BY <2>3, <3>1, <3>2, <3>3
  <2>6. CASE SweepRoot(c)
    <3>1. /\ pc[c] = "sweep_root" /\ local' = local
          /\ pc'[c] = IF is_root(o) THEN "sweep_keep" ELSE "sweep_free"
      BY <1>0, <2>6, GotoMoves DEF SweepRoot
    <3>2. Unswept(c)' = Unswept(c)
      BY <1>7, <1>9, <2>1, <3>1 DEF WalkLabel
    <3>3. color[o] = "White" /\ o # Null
      BY <1>0, <3>1 DEF HeapInv, SweepsByColor, SweepsTheList, WalkLabel
    <3>4. o \in Unswept(c) /\ o \in InList /\ o \in Objects
      BY <1>10, <3>1, <3>3 DEF WalkLabel
    <3>5. o \notin Held
      BY <3>3, <3>4 DEF Kept, HeapInv, KeptIsClosed
    <3>6. ~ is_root(o)
      BY <1>0, <3>4, <3>5, CountedIsHeld DEF Live
    <3> QED
      BY <2>3, <3>1, <3>2, <3>3, <3>6
  <2> QED
    BY <1>11, <2>4, <2>5, <2>6
<1>12. CASE SweepKeep(c) \/ SweepFree(c)
  <2>1. /\ pc[c] \in {"sweep_keep", "sweep_free"} /\ pc'[c] = "sweep"
        /\ local'[c].current = l.following
    <3>1. \/ SetLocal(c, [l EXCEPT !.prev = o, !.current = l.following])
          \/ SetLocal(c, [l EXCEPT !.freed = @ + 1, !.current = l.following])
      BY <1>12 DEF SweepKeep, SweepFree
    <3>2. \/ local'[c] = [l EXCEPT !.prev = o, !.current = l.following]
          \/ local'[c] = [l EXCEPT !.freed = @ + 1, !.current = l.following]
      BY <1>0, <3>1, SetLocalMoves
    <3>3. local'[c].current = l.following
      BY <1>0, <3>2 DEF Locals
    <3> QED
      BY <1>0, <1>12, <3>3, GotoMoves DEF SweepKeep, SweepFree
  <2>2. l.following = next[o] /\ o # Null /\ pc[c] \in WalkLabel
    BY <1>0, <2>1 DEF SweepsTheList, WalkLabel
  <2>3. /\ o \in InList /\ o \in Objects
        /\ Unswept(c) = {o} \cup Following(next, next[o])
        /\ o \notin Following(next, next[o])
    BY <1>10, <2>2
  <2>4. ASSUME Following(next', next[o]) = Following(next, next[o])
        PROVE  Unswept(c)' = Unswept(c) \ {o}
    BY <1>7, <2>1, <2>2, <2>3, <2>4
  <2>5. CASE SweepKeep(c)
    <3>1. /\ color' = [color EXCEPT ![o] = "White"]
          /\ UNCHANGED <<next, mem>> /\ color[o] # "White"
      BY <2>5 DEF SweepKeep, Goto, HeapInv, SweepsByColor
    <3>2. Unswept(c)' = Unswept(c) \ {o} /\ Boxes' = Boxes
      BY <2>4, <3>1 DEF Boxes
    <3>3. \A x \in Objects : color'[x] = IF x = o THEN "White" ELSE color[x]
      BY <1>0, <2>3, <3>1
    <3>4. Kept(c)' = Kept(c)
      BY <3>1, <3>2, <3>3 DEF Kept, Boxes
    <3>5. SweepsByColor(c)'
      BY <1>8, <2>1, <3>2, <3>3 DEF SweepsByColor, Boxes
    <3>6. SweepsOn(c)
      BY <3>2, <3>3, <3>4 DEF SweepsOn
    <3> QED
      BY <1>2, <1>5, <1>6, <3>1, <3>4, <3>5, <3>6, SweepDutyKeepsHeap
  <2>6. CASE SweepFree(c)
    <3>1. /\ mem' = [mem EXCEPT ![o] = "freed"] /\ color' = color
          /\ Unlink(l.prev, l.following) /\ color[o] = "White"
      BY <2>6 DEF SweepFree, Goto, HeapInv, SweepsByColor
    <3>2. \A m \in Following(next, next[o]) : next'[m] = next[m]
      <4>1. CASE next' = next
        BY <4>1
      <4>2. CASE next' = [next EXCEPT ![l.prev] = l.following] /\ l.prev # Null
        <5>1. l.prev \in InList /\ next[l.prev] = o
          BY <1>0, <2>2, <4>2 DEF SweepsTheList
        <5>2. l.prev \notin Following(next, o)
          BY <1>0, <5>1, FollowingInList
        <5>3. Following(next, o) = Unswept(c)
          BY <1>9, <2>2
        <5>4. /\ l.prev \notin Following(next, next[o])
              /\ Following(next, next[o]) \subseteq Objects
          BY <2>3, <5>2, <5>3 DEF Following
        <5> QED
          BY <1>0, <4>2, <5>4
      <4> QED
        BY <3>1, <4>1, <4>2 DEF Unlink
    <3>3. next[o] \in Pointer
      BY <1>0, <2>3
    <3>4. Unswept(c)' = Unswept(c) \ {o}
      BY <1>0, <2>4, <3>2, <3>3, FollowingUntouched
    <3>5. Boxes' = Boxes \ {o}
      BY <1>0, <2>3, <3>1 DEF Boxes
    <3>6. Kept(c)' = Kept(c)
      BY <2>3, <3>1, <3>4, <3>5 DEF Kept
    <3>7. \A x \in Objects : mem'[x] # "boxed"
      BY <1>0, <1>2, <3>1
    <3>8. SweepsByColor(c)'
      BY <1>8, <2>1, <3>1, <3>4, <3>5 DEF SweepsByColor
    <3>9. SweepsOn(c)
      BY <3>1, <3>4, <3>6 DEF SweepsOn
    <3> QED
      BY <1>2, <1>5, <1>6, <3>6, <3>7, <3>8, <3>9, SweepDutyKeepsHeap
  <2> QED
    BY <1>12, <2>5, <2>6
<1> QED
  BY <1>11, <1>12

(***************************************************************************)
(* At the end of the list nothing is left to sweep and the heap is at      *)
(* rest.                                                                   *)
(***************************************************************************)
LEMMA SweepSubtractKeepsHeap ==
  ASSUME NEW c \in Procs, BaseInv(c), BaseInv(c)', HeapInv(c),
         SweepSubtract(c)
  PROVE  HeapInv(c)'
<1>0. /\ TypeOK /\ MarksAsCollector(c) /\ next \in [Objects -> Pointer]
  BY DEF BaseInv, QueueInv, BusyInv, TypeOK
<1>1. /\ pc[c] = "sweep" /\ pc'[c] = "finish_sweep" /\ local[c].current = Null
      /\ UNCHANGED <<color, ref, mem>>
  BY <1>0, GotoMoves DEF SweepSubtract
<1>2. Held' \subseteq Held
  BY <1>0, <1>1, CollectorHolds
  DEF CollectorMove, CycleStep, SweepStep, PushLabel
<1>3. Unswept(c) = {}
  BY <1>0, <1>1, FollowingStep DEF Unswept
<1>4. Kept(c) = Boxes
  BY <1>3 DEF Kept
<1>5. \A o \in Boxes \ NoTrace : color[o] # "Black"
  BY <1>1, <1>3 DEF HeapInv, SweepsByColor, SweepLabel
<1>6. \A o \in Objects : mem[o] # "boxed"
  BY <1>1 DEF HeapInv, HandsAreLive
<1>7. Boxes' = Boxes /\ \A o \in Objects : Successors(o)' = Successors(o)
      /\ Boxes \subseteq Objects
  BY <1>1 DEF Boxes, Successors
<1>8. LeavesAreLeaves'
  BY <1>7, HeapAssumption DEF HeapInv, LeavesAreLeaves
<1>9. \A o \in Boxes : Successors(o)' \subseteq Boxes
  <2>1. \A o \in Boxes : Successors(o) \subseteq Boxes
    BY <1>4 DEF HeapInv, KeptIsClosed
  <2>2. SUFFICES ASSUME NEW o \in Boxes PROVE Successors(o)' \subseteq Boxes
    OBVIOUS
  <2>3. o \in Objects
    BY DEF Boxes
  <2> QED
    BY <1>7, <2>1, <2>3
<1>10. HeapAtRest(c)'
  BY <1>1, <1>2, <1>4, <1>5, <1>6, <1>7, <1>8, <1>9
  DEF HeapInv, KeptIsClosed, HeapAtRest, SetLabel
<1>11. /\ gray_queue' = <<>> /\ local'[c].tracer = <<>>
       /\ local'[c].tracing = Null
  BY <1>1, IdleIsEmptyHanded
<1> QED
  BY <1>1, <1>10, <1>11, InvFromRest DEF MarkLabel, SweepLabel

-----------------------------------------------------------------------------

(***************************************************************************)
(* The inductive invariant of a cycle.                                     *)
(***************************************************************************)
CycleInv(c) == BaseInv(c) /\ HeapInv(c)

(***************************************************************************)
(* The invariant of a cycle holds initially.                               *)
(***************************************************************************)
LEMMA InitCycleInv ==
  ASSUME NEW c \in Procs, LeafMutators(c), Init
  PROVE  CycleInv(c)
<1>0. BaseInv(c) /\ BuiltObjects \subseteq Objects
  BY InitBaseInv, InitNext
<1>1. /\ pc[c] \in {"ready", "bg_enter", "unborn"} /\ local[c] = NoLocals
      /\ \A t \in Threads : pc[t] = "ready"
  BY DEF Init, Procs
<1>2. Boxes = BuiltObjects /\ \A o \in Objects : mem[o] # "boxed"
  BY <1>0 DEF Init, Boxes
<1>3. Unswept(c) = {} /\ Kept(c) = Boxes
  BY <1>1 DEF Unswept, Kept, WalkLabel
<1>4. Held \subseteq BuiltObjects
  <2>1. \A t \in Threads, o \in Objects : handles[t][o] > 0 => o \in Owned[t]
    BY DEF Init
  <2>2. \A o \in Objects : ~ InAllocate(o)
    BY <1>1 DEF InAllocate
  <2> QED
    BY <2>1, <2>2, HeapAssumption DEF Held
<1>5. \A o \in Objects : Successors(o) \subseteq BuiltObjects
  BY DEF Init, Successors
<1>6. LeavesAreLeaves
  BY DEF Init, LeavesAreLeaves, Successors
<1>7. KeptIsClosed(c)
  BY <1>0, <1>2, <1>3, <1>4, <1>5 DEF KeptIsClosed
<1>8. HandsAreLive(c)
  BY <1>1, <1>2 DEF Init, HandsAreLive, NoLocals, SeqRange, SetLabel
<1>9. NothingScanned(c)
  BY DEF Init, NothingScanned, Boxes
<1>10. RootsAhead(c) /\ MarksFromRoots(c) /\ SweepsByColor(c)
  BY <1>1 DEF RootsAhead, MarksFromRoots, SweepsByColor, MarkLabel, SweepLabel
<1> QED
  BY <1>0, <1>6, <1>7, <1>8, <1>9, <1>10 DEF CycleInv, HeapInv

(***************************************************************************)
(* Every step of a collection keeps it.                                    *)
(***************************************************************************)
LEMMA CollectorMoveKeepsHeap ==
  ASSUME NEW c \in Procs, LeafMutators(c), BaseInv(c), BaseInv(c)',
         HeapInv(c), CollectorMove(c)
  PROVE  HeapInv(c)'
<1>1. CASE CycleStep(c)
  BY <1>1, RestStepKeepsHeap, ScanKeepsHeap, MarkingKeepsHeap, RoundsKeepHeap,
     StartSweepingKeepsHeap, SweepingKeepsHeap, SweepSubtractKeepsHeap
  DEF CycleStep, SweepStep
<1>2. CASE ~ CycleStep(c)
  BY <1>2, RestStepKeepsHeap, RoundsKeepHeap DEF CollectorMove
<1> QED
  BY <1>1, <1>2

(***************************************************************************)
(* Every step of the program keeps it.                                     *)
(***************************************************************************)
LEMMA NextCycleInv ==
  ASSUME NEW c \in Procs, LeafMutators(c), CycleInv(c), [Next]_vars
  PROVE  CycleInv(c)'
<1>0. /\ BaseInv(c) /\ BaseInv(c)' /\ HeapInv(c) /\ TypeOK /\ TypeOK'
      /\ ControlInv(c) /\ SweepsTheList(c) /\ Hands(c)
  BY NextBaseInv
  DEF CycleInv, BaseInv, QueueInv, BusyInv, ControlInv, WholeListInv, ListInv
<1>1. CASE \E t \in Threads \ {c} : LeafMove(t)
  <2>1. PICK t \in Threads \ {c} : LeafMove(t)
    BY <1>1
  <2>2. LeafEffect(c)
    BY <1>0, <2>1, LeafMoveEffect DEF ControlInv
  <2> QED
    BY <1>0, <2>2, LeafEffectKeepsHeap DEF CycleInv
<1>2. CASE c \in Threads /\ (MutatorCall(c) \/ MutatorStep(c))
  BY <1>0, <1>2, OwnCallKeepsHeap DEF CycleInv
<1>3. CASE CollectorMove(c)
  BY <1>0, <1>3, CollectorMoveKeepsHeap DEF CycleInv
<1>4. CASE UNCHANGED vars
  <2>1. /\ Boxes' = Boxes /\ Live' = Live /\ Held' = Held /\ InList' = InList
        /\ \A o \in Objects : Successors(o)' = Successors(o)
        /\ LeavesAreLeaves' = LeavesAreLeaves
    BY <1>4 DEF vars, Boxes, Live, Held, InList, InAllocate, Successors,
       LeavesAreLeaves
  <2>2. Unswept(c)' = Unswept(c) /\ Kept(c)' = Kept(c)
    BY <1>4, <2>1 DEF vars, Unswept, Kept
  <2>3. KeptIsClosed(c)'
    BY <1>0, <1>4, <2>1, <2>2 DEF HeapInv, KeptIsClosed, Kept, Boxes
  <2>4. HandsAreLive(c)' /\ NothingScanned(c)' /\ RootsAhead(c)'
    BY <1>0, <1>4, <2>1
    DEF vars, HeapInv, HandsAreLive, NothingScanned, RootsAhead
  <2>5. MarksFromRoots(c)'
    BY <1>0, <1>4, <2>1 DEF vars, HeapInv, MarksFromRoots, Live
  <2>6. SweepsByColor(c)'
    BY <1>0, <1>4, <2>1, <2>2 DEF vars, HeapInv, SweepsByColor
  <2> QED
    BY <1>0, <2>1, <2>3, <2>4, <2>5, <2>6 DEF HeapInv, CycleInv
<1> QED
  BY <1>0, <1>1, <1>2, <1>3, <1>4, StepsOfTheProgram

-----------------------------------------------------------------------------

(***************************************************************************)
(* One thread collects and allocates, the others work on the graph it      *)
(* built with leaves: then no pointer dangles.  While do_mark_work and     *)
(* do_sweep run, nothing that the program can reach through GcRoots and    *)
(* cells is dropped.                                                       *)
(***************************************************************************)
THEOREM CollectionIsSafe ==
  ASSUME NEW c \in Procs, LeafMutators(c)
  PROVE  Spec => []NoDangling
<1>1. Init => CycleInv(c)
  BY InitCycleInv
<1>2. CycleInv(c) /\ [Next]_vars => CycleInv(c)'
  BY NextCycleInv
<1>3. CycleInv(c) => NoDangling
  <2> SUFFICES ASSUME CycleInv(c) PROVE NoDangling
    OBVIOUS
  <2>1. Reachable \subseteq Kept(c)
    BY ReachableIsKept DEF CycleInv, HeapInv
  <2> QED
    BY <2>1 DEF Kept, Boxes, NoDangling
<1> QED
  BY <1>1, <1>2, <1>3, PTL DEF Spec

-----------------------------------------------------------------------------

(***************************************************************************)
(* A thread other than the collector is between two calls or in a set, and *)
(* holds no gray object that it could lose.                                *)
(***************************************************************************)
LEMMA OthersStandClear ==
  ASSUME NEW c \in Procs, LeafMutators(c), BaseInv(c), NEW p \in Procs \ {c}
  PROVE  /\ pc[p] \in SetLabel \cup {"ready"}
         /\ InHand(p) = {Null}
         /\ WalkedTo(p) = {}
<1>1. p \in Threads \ {c}
  BY DEF LeafMutators, SoleCollector, Procs
<1>2. LeafStore(p) /\ IdleHands(p)
  BY <1>1 DEF BaseInv, ControlInv, QueueInv
<1>3. pc[p] \in SetLabel \cup {"ready"} /\ local[p].tracer = <<>>
      /\ local[p].tracing = Null
  BY <1>2 DEF LeafStore, IdleHands, SetLabel
<1>4. SeqRange(local[p].tracer) = {}
  BY <1>3 DEF SeqRange
<1>5. WalkedTo(p) = {}
  BY <1>3 DEF WalkedTo, SetLabel, SweepLabel
<1> QED
  BY <1>3, <1>4, <1>5 DEF InHand

(***************************************************************************)
(* The thread that marks is the collector, whose marking keeps to the      *)
(* rule.                                                                   *)
(***************************************************************************)
LEMMA MarkingIsTriColor ==
  ASSUME NEW c \in Procs, LeafMutators(c), CycleInv(c)
  PROVE  TriColor
<1> SUFFICES ASSUME NEW p \in Procs, Collecting(p), pc[p] \in MarkLabel
             PROVE  \A o \in Live : color[o] = "Black" =>
                      \A v \in Successors(o) : color[v] # "White"
  BY DEF TriColor
<1>1. p = c
  BY OthersStandClear DEF CycleInv, SetLabel, MarkLabel
<1> QED
  BY <1>1 DEF CycleInv, HeapInv, MarksFromRoots

(***************************************************************************)
(* The thread that starts to sweep is the collector, which has seen the    *)
(* queue empty with no mutator busy.                                       *)
(***************************************************************************)
LEMMA MarkingCompletes ==
  ASSUME NEW c \in Procs, LeafMutators(c), CycleInv(c)
  PROVE  MarkingComplete
<1> SUFFICES ASSUME NEW p \in Procs, pc[p] = "sweep_start"
             PROVE  /\ gray_queue = <<>>
                    /\ \A o \in Live : color[o] # "Gray"
  BY DEF MarkingComplete
<1>1. p = c
  BY OthersStandClear DEF CycleInv, SetLabel
<1> QED
  BY <1>1, NothingGray DEF CycleInv, Live

(***************************************************************************)
(* Queue, tracer and walk lead to live boxes, for every thread.            *)
(***************************************************************************)
LEMMA TraversalsAreLive ==
  ASSUME NEW c \in Procs, LeafMutators(c), CycleInv(c)
  PROVE  NoStaleTraversal
<1>1. InList \subseteq Live /\ SweepsTheList(c) /\ Hands(c) /\ HandsAreLive(c)
  BY DEF CycleInv, BaseInv, WholeListInv, ListInv, AllocationListSound,
     ControlInv, HeapInv
<1>2. \A o \in SeqRange(gray_queue) : o \in Live
  BY <1>1 DEF HandsAreLive
<1>3. \A o \in InTracer : o \in Live \cup {Null}
  <2>1. InHand(c) \subseteq Live \cup {Null}
    BY <1>1 DEF HandsAreLive, InHand
  <2>2. \A p \in Procs \ {c} : InHand(p) = {Null}
    BY OthersStandClear DEF CycleInv
  <2> QED
    BY <2>1, <2>2 DEF InTracer
<1>4. \A o \in UNION {WalkedTo(p) : p \in Procs} : o \in Live \cup {Null}
  <2>1. WalkedTo(c) \subseteq Live \cup {Null}
    <3>1. CASE pc[c] \in {"roots", "count"}
      <4>1. WalkedTo(c) = {local[c].current}
        BY <3>1 DEF WalkedTo, SweepLabel
      <4> QED
        BY <1>1, <3>1, <4>1 DEF Hands
    <3>2. CASE pc[c] = "sweep_head"
      <4>1. WalkedTo(c) = {local[c].current, local[c].prev}
        BY <3>2 DEF WalkedTo, SweepLabel
      <4>2. local[c].current = Null /\ local[c].prev = Null
        BY <1>1, <3>2 DEF Hands, SweepsTheList, WalkLabel, SweptLabel
      <4> QED
        BY <4>1, <4>2
    <3>3. CASE pc[c] \in WalkLabel
      <4>1. WalkedTo(c) = {local[c].current, local[c].prev}
        BY <3>3 DEF WalkedTo, SweepLabel, WalkLabel
      <4> QED
        BY <1>1, <3>3, <4>1 DEF SweepsTheList
    <3>4. CASE pc[c] \notin {"roots", "count"} \cup SweepLabel
      BY <3>4 DEF WalkedTo
    <3> QED
      BY <3>1, <3>2, <3>3, <3>4 DEF SweepLabel, WalkLabel
  <2>2. \A p \in Procs \ {c} : WalkedTo(p) = {}
    BY OthersStandClear DEF CycleInv
  <2> QED
    BY <2>1, <2>2
<1> QED
  BY <1>2, <1>3, <1>4 DEF NoStaleTraversal, Live

(***************************************************************************)
(* In such a program no black object points to a white one while the heap  *)
(* is marked: the barrier shades a leaf before it is stored, and only the  *)
(* marker makes objects with cells black.                                  *)
(***************************************************************************)
THEOREM MarkingKeepsTriColor ==
  ASSUME NEW c \in Procs, LeafMutators(c)
  PROVE  Spec => []TriColor
<1>1. Init => CycleInv(c)
  BY InitCycleInv
<1>2. CycleInv(c) /\ [Next]_vars => CycleInv(c)'
  BY NextCycleInv
<1>3. CycleInv(c) => TriColor
  BY MarkingIsTriColor
<1> QED
  BY <1>1, <1>2, <1>3, PTL DEF Spec

(***************************************************************************)
(* In such a program nothing is gray when a collector starts to sweep:     *)
(* what a barrier shades after the marker's look at the queue is a leaf,   *)
(* which is not queued.                                                    *)
(***************************************************************************)
THEOREM MarkingIsCompleted ==
  ASSUME NEW c \in Procs, LeafMutators(c)
  PROVE  Spec => []MarkingComplete
<1>1. Init => CycleInv(c)
  BY InitCycleInv
<1>2. CycleInv(c) /\ [Next]_vars => CycleInv(c)'
  BY NextCycleInv
<1>3. CycleInv(c) => MarkingComplete
  BY MarkingCompletes
<1> QED
  BY <1>1, <1>2, <1>3, PTL DEF Spec

(***************************************************************************)
(* In such a program no dropped box is in the gray queue or in a tracer,   *)
(* and no walk of the list stands at one.                                  *)
(***************************************************************************)
THEOREM TraversalIsSafe ==
  ASSUME NEW c \in Procs, LeafMutators(c)
  PROVE  Spec => []NoStaleTraversal
<1>1. Init => CycleInv(c)
  BY InitCycleInv
<1>2. CycleInv(c) /\ [Next]_vars => CycleInv(c)'
  BY NextCycleInv
<1>3. CycleInv(c) => NoStaleTraversal
  BY TraversalsAreLive
<1> QED
  BY <1>1, <1>2, <1>3, PTL DEF Spec

-----------------------------------------------------------------------------

(***************************************************************************)
(* A program in which no other thread calls the heap.                      *)
(***************************************************************************)
Undisturbed(c) ==
  /\ LeafMutators(c)
  /\ \A t \in Threads \ {c} : Calls[t] = {}

OthersRest(c) == \A t \in Threads \ {c} : pc[t] = "ready"

(***************************************************************************)
(* What marking has found so far, and what it is going to scan.            *)
(***************************************************************************)
Marked == {o \in Objects : color[o] # "White"}

ToScan(c) == SeqRange(gray_queue) \cup SeqRange(local[c].tracer)
               \cup ({local[c].tracing} \ {Null})

(***************************************************************************)
(* Marking finds only what the program can reach, the sweep unmarks all of *)
(* it and keeps nothing else, and nothing is marked between two cycles.    *)
(***************************************************************************)
MarksReachable(c) ==
  pc[c] \in MarkingLabel => Marked \cup ToScan(c) \subseteq Reachable

SweepsExactly(c) ==
  pc[c] \in SweepLabel => Marked \subseteq Unswept(c) /\ Kept(c) \subseteq Reachable

CleanAtRest(c) ==
  pc[c] \notin {"roots"} \cup MarkLabel \cup SweepLabel => Marked = {}

EndsExactly(c) == pc[c] = "finish_sweep" => Live \subseteq Reachable

-----------------------------------------------------------------------------

(***************************************************************************)
(* What the program can reach holds the objects with GcRoots and is closed *)
(* under references.                                                       *)
(***************************************************************************)
LEMMA ReachableIsClosed ==
  ASSUME TypeOK
  PROVE  /\ Held \subseteq Reachable /\ Reachable \subseteq Objects
         /\ \A o \in Reachable : Successors(o) \subseteq Reachable
<1>1. Held \subseteq Reachable /\ Reachable \subseteq Objects
  BY DEF Reachable, Held
<1>2. ASSUME NEW o \in Reachable, NEW v \in Successors(o)
      PROVE  v \in Reachable
  <2>1. o \in Objects /\ v \in Objects
    BY <1>1 DEF TypeOK, Successors, Pointer
  <2> SUFFICES ASSUME NEW S \in SUBSET Objects, Held \subseteq S,
                      ClosedUnderRefs(S)
               PROVE  v \in S
    BY <2>1 DEF Reachable
  <2>2. o \in S
    BY DEF Reachable
  <2> QED
    BY <2>2 DEF ClosedUnderRefs
<1> QED
  BY <1>1, <1>2

(***************************************************************************)
(* A collection changes nothing about what the program can reach.          *)
(***************************************************************************)
LEMMA CollectingReachesTheSame ==
  ASSUME NEW c \in Procs, TypeOK, MarksAsCollector(c), CollectorMove(c),
         pc[c] \notin PushLabel, pc'[c] \notin PushLabel
  PROVE  Reachable' = Reachable
<1>1. Others(c) /\ handles' = handles /\ ref' = ref
  BY CollectorMoveFrame
<1>2. \A t \in Threads \ {c} : pc'[t] = pc[t] /\ local'[t] = local[t]
  BY <1>1 DEF Others, Procs
<1>3. \A o \in Objects : InAllocate(o)' <=> InAllocate(o)
  BY <1>2 DEF InAllocate, PushLabel
<1>4. Held' = Held
  BY <1>1, <1>3 DEF Held
<1>5. \A S \in SUBSET Objects : ClosedUnderRefs(S)' = ClosedUnderRefs(S)
  BY <1>1 DEF ClosedUnderRefs, Successors
<1> QED
  BY <1>4, <1>5 DEF Reachable

(***************************************************************************)
(* Marking a pointer marks what it points to and nothing else.             *)
(***************************************************************************)
LEMMA MarksTheTarget ==
  ASSUME TypeOK, NEW v \in Objects \cup {Null}
  PROVE  \A o \in Objects : MarkColor(v)[o] # "White" =>
           color[o] # "White" \/ o = v
<1>0. color \in [Objects -> Color] /\ Null \notin Objects
      /\ NoTrace \subseteq Objects
  BY HeapAssumption DEF TypeOK
<1>1. CASE v = Null
  BY <1>1 DEF MarkColor
<1>2. CASE v \in NoTrace
  <2>1. MarkColor(v) = [color EXCEPT ![v] = "Black"]
    BY <1>0, <1>2 DEF MarkColor
  <2> QED
    BY <1>0, <2>1
<1>3. CASE v \in Objects \ NoTrace
  <2>1. MarkColor(v) = mark_white_to_gray(v)
    BY <1>0, <1>3 DEF MarkColor
  <2> QED
    BY <1>0, <2>1 DEF mark_white_to_gray
<1> QED
  BY <1>1, <1>2, <1>3

(***************************************************************************)
(* The root scan marks objects with GcRoots, the mark loop their           *)
(* successors.                                                             *)
(***************************************************************************)
LEMMA ScanIsExact ==
  ASSUME NEW c \in Procs, CycleInv(c), pc[c] \in MarkingLabel,
         Marked \cup ToScan(c) \subseteq Reachable,
         RootsLoadHead(c) \/ RootsVisit(c) \/ RootsMerge(c)
  PROVE  Marked' \cup ToScan(c)' \subseteq Reachable
<1> DEFINE l == local[c]
           q == gray_queue
           R == Reachable
<1>0. /\ TypeOK /\ RootInv /\ Hands(c) /\ l \in Locals
      /\ l.tracer \in Seq(Objects) /\ q \in Seq(Objects)
      /\ color \in [Objects -> Color] /\ InList \subseteq Live
  BY LocalType DEF CycleInv, BaseInv, QueueInv, BusyInv, WholeListInv, ListInv,
     AllocationListSound, ControlInv, TypeOK, Locals
<1>1. SeqRange(q) \subseteq R /\ SeqRange(l.tracer) \subseteq R
      /\ l.tracing \in R \cup {Null} /\ Marked \subseteq R
  BY DEF ToScan
<1>2. CASE RootsLoadHead(c)
  <2>1. UNCHANGED <<color, q>> /\ local'[c] = [l EXCEPT !.current = head]
    BY <1>0, <1>2, SetLocalMoves DEF RootsLoadHead
  <2>2. local'[c].tracer = l.tracer /\ local'[c].tracing = l.tracing
    BY <1>0, <2>1 DEF Locals
  <2> QED
    BY <1>1, <2>1, <2>2 DEF Marked, ToScan
<1>3. CASE RootsVisit(c)
  <2> DEFINE o == l.current
  <2>1. pc[c] = "roots" /\ o # Null /\ UNCHANGED q
    BY <1>3 DEF RootsVisit
  <2>2. o \in Live /\ o \in Objects
    BY <1>0, <2>1 DEF Hands, Live
  <2>3. CASE is_root(o)
    <3>1. /\ color' = mark_white_to_gray(o)
          /\ SetLocal(c, [l EXCEPT !.tracer = PushIfWhite(@, o),
                                   !.current = next[o]])
      BY <1>3, <2>3 DEF RootsVisit
    <3>2. local'[c] = [l EXCEPT !.tracer = PushIfWhite(@, o),
                                !.current = next[o]]
      BY <1>0, <3>1, SetLocalMoves
    <3>3. /\ local'[c].tracer = PushIfWhite(l.tracer, o)
          /\ local'[c].tracing = l.tracing
      BY <1>0, <3>2 DEF Locals
    <3>4. o \in R
      BY <1>0, <2>2, <2>3, CountedIsHeld, ReachableIsClosed DEF Live
    <3>5. SeqRange(local'[c].tracer) \subseteq R
      <4>1. SeqRange(Append(l.tracer, o)) \subseteq R
        BY <1>0, <1>1, <3>4, ItemsStay
      <4> QED
        BY <1>1, <3>3, <4>1 DEF PushIfWhite
    <3>6. Marked' \subseteq R
      BY <1>0, <1>1, <2>2, <3>1, <3>4 DEF Marked, mark_white_to_gray
    <3> QED
      BY <1>1, <2>1, <3>3, <3>5, <3>6 DEF ToScan
  <2>4. CASE ~ is_root(o)
    <3>1. SetLocal(c, [l EXCEPT !.current = next[o]]) /\ color' = color
      BY <1>3, <2>4 DEF RootsVisit
    <3>2. local'[c] = [l EXCEPT !.current = next[o]]
      BY <1>0, <3>1, SetLocalMoves
    <3>3. local'[c].tracer = l.tracer /\ local'[c].tracing = l.tracing
      BY <1>0, <3>2 DEF Locals
    <3> QED
      BY <1>1, <2>1, <3>1, <3>3 DEF Marked, ToScan
  <2> QED
    BY <2>3, <2>4
<1>4. CASE RootsMerge(c)
  <2>1. /\ color' = color /\ q' = q \o l.tracer
        /\ local'[c] = [l EXCEPT !.tracer = <<>>]
    BY <1>0, <1>4, SetLocalMoves DEF RootsMerge
  <2>2. local'[c].tracer = <<>> /\ local'[c].tracing = l.tracing
    BY <1>0, <2>1 DEF Locals
  <2>3. SeqRange(q') \subseteq R
    BY <1>0, <1>1, <2>1, ItemsStay
  <2>4. SeqRange(local'[c].tracer) = {}
    BY <2>2 DEF SeqRange
  <2> QED
    BY <1>1, <2>1, <2>2, <2>3, <2>4 DEF Marked, ToScan
<1> QED
  BY <1>2, <1>3, <1>4

(***************************************************************************)
(* do_mark_with_tracer marks successors of what it scans.                  *)
(***************************************************************************)
LEMMA MarkIsExact ==
  ASSUME NEW c \in Procs, CycleInv(c), pc[c] \in MarkingLabel,
         Marked \cup ToScan(c) \subseteq Reachable, MarkStep(c)
  PROVE  Marked' \cup ToScan(c)' \subseteq Reachable
<1> DEFINE l == local[c]
           q == gray_queue
           R == Reachable
<1>0. /\ TypeOK /\ Hands(c) /\ l \in Locals
      /\ l.tracer \in Seq(Objects) /\ q \in Seq(Objects)
      /\ color \in [Objects -> Color]
      /\ ref \in [Objects -> [Fields -> Pointer]]
  BY LocalType
  DEF CycleInv, BaseInv, QueueInv, BusyInv, ControlInv, TypeOK, Locals
<1>1. /\ SeqRange(q) \subseteq R /\ SeqRange(l.tracer) \subseteq R
      /\ l.tracing \in R \cup {Null} /\ Marked \subseteq R
  BY DEF ToScan
<1>2. /\ R \subseteq Objects /\ \A o \in R : Successors(o) \subseteq R
      /\ Null \notin Objects
  BY <1>0, ReachableIsClosed, HeapAssumption
<1>3. Len(q) \in Nat /\ Len(l.tracer) \in Nat
  BY <1>0, LenProperties
<1> HIDE DEF R
<1>4. ASSUME SeqRange(q') \subseteq R, SeqRange(local'[c].tracer) \subseteq R,
             local'[c].tracing \in R \cup {Null}, Marked' \subseteq R
      PROVE  Marked' \cup ToScan(c)' \subseteq R
  BY <1>4 DEF ToScan
<1>5. CASE MarkPop(c)
  <2> DEFINE o == l.tracer[Len(l.tracer)]
  <2>1. /\ l.tracer # <<>> /\ UNCHANGED <<color, q>>
        /\ SetLocal(c, [l EXCEPT
                          !.tracer = SubSeq(l.tracer, 1, Len(l.tracer) - 1),
                          !.tracing = o,
                          !.pending = IF o \in NoTrace THEN {} ELSE Fields])
    BY <1>5 DEF MarkPop
  <2>2. local'[c] = [l EXCEPT
                       !.tracer = SubSeq(l.tracer, 1, Len(l.tracer) - 1),
                       !.tracing = o,
                       !.pending = IF o \in NoTrace THEN {} ELSE Fields]
    BY <1>0, <2>1, SetLocalMoves
  <2>3. /\ local'[c].tracer = SubSeq(l.tracer, 1, Len(l.tracer) - 1)
        /\ local'[c].tracing = o
    BY <1>0, <2>2 DEF Locals
  <2>4. Len(l.tracer) \in 1..Len(l.tracer) /\ Len(l.tracer) - 1 \in 0..Len(l.tracer)
    BY <1>0, <1>3, <2>1, EmptySeq
  <2>5. o \in R
    BY <1>1, <2>4 DEF SeqRange
  <2>6. SeqRange(local'[c].tracer) \subseteq R
    <3>1. SeqRange(SubSeq(l.tracer, 1, Len(l.tracer) - 1)) \subseteq R
      BY <1>0, <1>1, <2>4, ItemsStay
    <3> QED
      BY <2>3, <3>1
  <2>7. Marked' = Marked
    BY <2>1 DEF Marked
  <2> QED
    BY <1>1, <1>4, <2>1, <2>3, <2>5, <2>6, <2>7 DEF R
<1>6. CASE MarkSteal(c)
  <2> DEFINE n == IF Len(q) < BatchSize THEN Len(q) ELSE BatchSize
  <2>1. /\ UNCHANGED color
        /\ SetLocal(c, [l EXCEPT !.tracer = LastItems(n)])
        /\ q' = SubSeq(q, 1, Len(q) - n)
    BY <1>6 DEF MarkSteal
  <2>2. n \in 0..Len(q) /\ Len(q) - n \in 0..Len(q)
    BY <1>3, HeapAssumption
  <2> HIDE DEF n
  <2>3. local'[c] = [l EXCEPT !.tracer = LastItems(n)]
    BY <1>0, <2>1, SetLocalMoves
  <2>4. local'[c].tracer = LastItems(n) /\ local'[c].tracing = l.tracing
    BY <1>0, <2>3 DEF Locals
  <2>5. SeqRange(LastItems(n)) \subseteq R
    BY <1>0, <1>1, <2>2, StolenItems
  <2>6. SeqRange(q') \subseteq R
    BY <1>0, <1>1, <2>1, <2>2, ItemsStay
  <2>7. Marked' = Marked
    BY <2>1 DEF Marked
  <2> QED
    BY <1>1, <1>4, <2>4, <2>5, <2>6, <2>7 DEF R
<1>7. CASE TraceField(c)
  <2>1. PICK f \in l.pending :
          /\ color' = MarkColor(ref[l.tracing][f])
          /\ SetLocal(c, [l EXCEPT
                            !.tracer = MarkTracer(@, ref[l.tracing][f]),
                            !.pending = @ \ {f}])
    BY <1>7 DEF TraceField
  <2> DEFINE o == l.tracing
             v == ref[o][f]
  <2>2. UNCHANGED q /\ o \in Objects /\ o \in R
    BY <1>0, <1>1, <1>2, <1>7 DEF TraceField, Hands
  <2>3. local'[c] = [l EXCEPT !.tracer = MarkTracer(@, v), !.pending = @ \ {f}]
    BY <1>0, <2>1, SetLocalMoves
  <2>4. /\ local'[c].tracer = MarkTracer(l.tracer, v)
        /\ local'[c].tracing = o /\ f \in Fields
    BY <1>0, <2>1, <2>3 DEF Locals
  <2>5. v \in R \cup {Null}
    <3>1. v # Null => v \in Successors(o)
      BY <2>4 DEF Successors
    <3> QED
      BY <1>2, <2>2, <3>1
  <2>6. SeqRange(local'[c].tracer) \subseteq R
    <3>1. CASE v = Null
      <4>1. MarkTracer(l.tracer, Null) = l.tracer
        BY HeapAssumption DEF MarkTracer
      <4> QED
        BY <1>1, <2>4, <3>1, <4>1
    <3>2. CASE v \in R
      <4>1. SeqRange(MarkTracer(l.tracer, v)) \subseteq R
        BY <1>0, <1>1, <3>2, MarkedItems
      <4> QED
        BY <2>4, <4>1
    <3> QED
      BY <2>5, <3>1, <3>2
  <2>7. Marked' \subseteq R
    <3>1. v \in Objects \cup {Null} /\ color' = MarkColor(v)
      BY <1>2, <2>1, <2>5
    <3>2. \A x \in Objects : color'[x] # "White" => color[x] # "White" \/ x = v
      <4> HIDE DEF v
      <4> QED
        BY <1>0, <3>1, MarksTheTarget
    <3>3. \A x \in Objects : color'[x] # "White" => x \in R
      BY <1>1, <1>2, <2>5, <3>2 DEF Marked
    <3> QED
      BY <3>3 DEF Marked
  <2> QED
    BY <1>1, <1>4, <2>2, <2>4, <2>6, <2>7 DEF R
<1>8. CASE MarkBlack(c)
  <2> DEFINE o == l.tracing
  <2>1. /\ pc[c] = "trace"
        /\ color' = [color EXCEPT ![o] = "Black"] /\ q' = q
        /\ SetLocal(c, [l EXCEPT !.tracing = Null, !.work_done = @ + 1])
    BY <1>8 DEF MarkBlack, Goto
  <2>2. local'[c] = [l EXCEPT !.tracing = Null, !.work_done = @ + 1]
    BY <1>0, <2>1, SetLocalMoves
  <2>3. local'[c].tracer = l.tracer /\ local'[c].tracing = Null
    BY <1>0, <2>2 DEF Locals
  <2>4. o \in Objects /\ o \in R
    BY <1>0, <1>1, <1>2, <2>1 DEF Hands
  <2>5. \A x \in Objects : color'[x] # "White" => color[x] # "White" \/ x = o
    BY <1>0, <2>1, <2>4
  <2>6. Marked' \subseteq R
    BY <1>1, <2>4, <2>5 DEF Marked
  <2> QED
    BY <1>1, <1>4, <2>1, <2>3, <2>6 DEF R
<1>9. CASE MarkNoWork(c) \/ MarkBudgetSpent(c)
  <2>1. /\ color' = color
        /\ \/ /\ q' = q /\ local'[c] = [l EXCEPT !.work_done = 0]
           \/ /\ q' = q \o l.tracer
              /\ local'[c] = [l EXCEPT !.tracer = <<>>, !.work_done = 0]
    BY <1>0, <1>9, SetLocalMoves DEF MarkNoWork, MarkBudgetSpent
  <2>2. /\ local'[c].tracing = l.tracing
        /\ local'[c].tracer \in {l.tracer, <<>>}
    BY <1>0, <2>1 DEF Locals
  <2>3. SeqRange(local'[c].tracer) \subseteq R
    BY <1>1, <2>2 DEF SeqRange
  <2>4. SeqRange(q') \subseteq R
    BY <1>0, <1>1, <2>1, ItemsStay
  <2>5. Marked' = Marked
    BY <2>1 DEF Marked
  <2> QED
    BY <1>1, <1>4, <2>2, <2>3, <2>4, <2>5 DEF R
<1> QED
  BY <1>5, <1>6, <1>7, <1>8, <1>9 DEF MarkStep, R

(***************************************************************************)
(* The four parts of the invariant that speak of the collecting thread.    *)
(***************************************************************************)
Exact(c) == /\ MarksReachable(c) /\ SweepsExactly(c)
            /\ CleanAtRest(c) /\ EndsExactly(c)

(***************************************************************************)
(* Outside a cycle nothing is marked and nothing is going to be scanned.   *)
(***************************************************************************)
LEMMA CleanIsExact ==
  ASSUME NEW c \in Procs, BaseInv(c)', Marked' = {},
         pc'[c] \notin {"roots", "finish_sweep"} \cup MarkLabel \cup SweepLabel
  PROVE  Exact(c)'
<1>1. /\ gray_queue' = <<>> /\ local'[c].tracer = <<>>
      /\ local'[c].tracing = Null
  BY IdleIsEmptyHanded DEF MarkLabel
<1>2. ToScan(c)' = {}
  BY <1>1 DEF ToScan, SeqRange
<1> QED
  BY <1>2 DEF Exact, MarksReachable, SweepsExactly, CleanAtRest, EndsExactly

(***************************************************************************)
(* The calls of the collecting thread mark nothing.                        *)
(***************************************************************************)
LEMMA OwnCallIsExact ==
  ASSUME NEW c \in Threads, LeafMutators(c), CycleInv(c), CycleInv(c)',
         Exact(c), MutatorCall(c) \/ MutatorStep(c)
  PROVE  Exact(c)'
<1>0. /\ c \in Procs /\ TypeOK /\ TypeOK' /\ ControlInv(c)
      /\ BaseInv(c) /\ BaseInv(c)' /\ ListClosed(InList)
      /\ color \in [Objects -> Color]
  BY InListIsLeast DEF CycleInv, BaseInv, QueueInv, BusyInv, Procs, TypeOK
<1>1. InList' = InList \/ AllocatePublish(c)
  BY <1>0, OwnListStep
<1>2. /\ pc[c] \in CallLabel /\ pc'[c] \in CallLabel
      /\ ~ CellShade(c) /\ ~ CellMergeWork(c)
  BY <1>0, <1>1, OwnCallKeepsControl
<1>3. Marked = {}
  BY <1>2 DEF Exact, CleanAtRest, CallLabel, MarkLabel, SweepLabel
<1>4. \A o \in Objects : color'[o] # "White" => color[o] # "White"
  <2>1. CASE AllocateBox(c)
    BY <1>0, <2>1 DEF AllocateBox
  <2>2. CASE ~ AllocateBox(c)
    <3>1. color' = color
      BY <1>2, <2>2 DEF MutatorCall, MutatorStep, Allocate, CloneRoot, DropRoot,
         CellSet, CellGet, CountLoadHead, BusyCheck, DecrementBusyMarking,
         AllocateLoadHead, AllocatePublish, AllocateRetry, AllocateReturn,
         CellStore, RootPointer, ForgetPointer, CountNode
    <3> QED
      BY <3>1
  <2> QED
    BY <2>1, <2>2
<1>5. Marked' = {}
  BY <1>3, <1>4 DEF Marked
<1> QED
  BY <1>0, <1>2, <1>5, CleanIsExact DEF CallLabel, MarkLabel, SweepLabel

(***************************************************************************)
(* The steps before the root scan and after the sweep.                     *)
(***************************************************************************)
LEMMA RestStepIsExact ==
  ASSUME NEW c \in Procs, LeafMutators(c), CycleInv(c), CycleInv(c)', Exact(c),
         \/ TryStartMarking(c) \/ FinishSweep(c) \/ UpdateThreshold(c)
         \/ FinishGc(c) \/ (c \in Threads /\ ForceCollect(c))
         \/ JoinBackgroundThread(c)
         \/ c \in Background /\ BackgroundStep(c) /\ pc[c] # "bg_check"
  PROVE  Exact(c)'
<1>0. /\ TypeOK /\ TypeOK' /\ ControlInv(c) /\ BaseInv(c)'
  BY DEF CycleInv, BaseInv, QueueInv, BusyInv
<1>1. /\ color' = color
      /\ pc[c] \in {"try_mark", "finish_sweep", "threshold", "finish", "ready",
                    "bg_enter", "bg_sleep", "join"}
      /\ pc'[c] \in {"roots_head", "threshold", "finish", "ready", "bg_enter",
                     "bg_sleep", "try_mark"}
  <2>1. CASE \/ TryStartMarking(c) \/ FinishSweep(c) \/ UpdateThreshold(c)
             \/ FinishGc(c) \/ ForceCollect(c)
    BY <1>0, <2>1, GotoMoves DEF TryStartMarking, FinishSweep,
       UpdateThreshold, FinishGc, ForceCollect, CollectorHome
  <2>2. CASE \/ JoinBackgroundThread(c)
             \/ c \in Background /\ BackgroundStep(c) /\ pc[c] # "bg_check"
    BY <1>0, <2>2, BackgroundKeepsControl DEF JoinBackgroundThread, Goto
  <2> QED
    BY <2>1, <2>2
<1>2. Marked = {} /\ Marked' = Marked
  BY <1>1 DEF Exact, CleanAtRest, Marked, MarkLabel, SweepLabel
<1> QED
  BY <1>0, <1>1, <1>2, CleanIsExact DEF MarkLabel, SweepLabel

(***************************************************************************)
(* The steps that mark.                                                    *)
(***************************************************************************)
LEMMA MarkingIsExact ==
  ASSUME NEW c \in Procs, LeafMutators(c), CycleInv(c), CycleInv(c)', Exact(c),
         \/ RootsLoadHead(c) \/ RootsVisit(c) \/ RootsMerge(c)
         \/ MarkStep(c) \/ BusyTest(c)
         \/ c \in Background /\ BackgroundStep(c) /\ pc[c] = "bg_check"
  PROVE  Exact(c)'
<1>0. /\ TypeOK /\ TypeOK' /\ ControlInv(c) /\ MarksAsCollector(c)
  BY DEF CycleInv, BaseInv, QueueInv, BusyInv
<1>1. /\ pc[c] \in MarkingLabel
      /\ pc'[c] \in {"roots"} \cup MarkLabel
  <2>1. CASE RootsLoadHead(c) \/ RootsVisit(c) \/ RootsMerge(c) \/ BusyTest(c)
    BY <1>0, <2>1, GotoMoves DEF RootsLoadHead, RootsVisit, RootsMerge,
       BusyTest, MarkingLabel, ScanLabel, MarkLabel
  <2>2. CASE MarkStep(c)
    BY <1>0, <2>2, MarkStepKeepsControl DEF MarkingLabel, ScanLabel, MarkLabel
  <2>3. CASE c \in Background /\ BackgroundStep(c) /\ pc[c] = "bg_check"
    BY <1>0, <2>3, BackgroundKeepsControl DEF MarkingLabel, ScanLabel, MarkLabel
  <2> QED
    BY <2>1, <2>2, <2>3
<1>2. CollectorMove(c)
  BY DEF CollectorMove, CycleStep
<1>3. Reachable' = Reachable
  BY <1>0, <1>1, <1>2, CollectingReachesTheSame
  DEF MarkingLabel, ScanLabel, MarkLabel, PushLabel
<1>4. Marked \cup ToScan(c) \subseteq Reachable
  BY <1>1 DEF Exact, MarksReachable
<1>5. Marked' \cup ToScan(c)' \subseteq Reachable
  <2>1. CASE RootsLoadHead(c) \/ RootsVisit(c) \/ RootsMerge(c)
    BY <1>1, <1>4, <2>1, ScanIsExact
  <2>2. CASE MarkStep(c)
    BY <1>1, <1>4, <2>2, MarkIsExact
  <2>3. CASE BusyTest(c) \/ (c \in Background /\ BackgroundStep(c) /\ pc[c] = "bg_check")
    <3>1. UNCHANGED <<color, gray_queue, local>>
      BY <2>3 DEF BusyTest, BackgroundStep, BackgroundWait, BackgroundNotified,
         BackgroundTimeout, BackgroundCheck, BackgroundAbort, Goto
    <3>2. Marked' = Marked /\ ToScan(c)' = ToScan(c)
      BY <3>1 DEF Marked, ToScan
    <3> QED
      BY <1>4, <3>2
  <2> QED
    BY <2>1, <2>2, <2>3
<1> QED
  BY <1>1, <1>3, <1>5
  DEF Exact, MarksReachable, SweepsExactly, CleanAtRest, EndsExactly,
      MarkLabel, SweepLabel

(***************************************************************************)
(* The sweep meets all that is marked, and keeps what the program reaches. *)
(***************************************************************************)
LEMMA SweepIsExact ==
  ASSUME NEW c \in Procs, LeafMutators(c), CycleInv(c), CycleInv(c)', Exact(c),
         \/ StartSweeping(c) \/ SweepLoadHead(c) \/ SweepColor(c)
         \/ SweepRoot(c) \/ SweepKeep(c) \/ SweepFree(c) \/ SweepSubtract(c)
  PROVE  Exact(c)'
<1>0. /\ TypeOK /\ TypeOK' /\ MarksAsCollector(c) /\ InList = Live
      /\ BaseInv(c) /\ BaseInv(c)' /\ HeapInv(c) /\ next \in [Objects -> Pointer]
  BY DEF CycleInv, BaseInv, QueueInv, BusyInv, WholeListInv, ListInv,
     NoLostAllocation, AllocationListSound, TypeOK
<1>1. /\ pc[c] \in {"sweep_start"} \cup SweepLabel
      /\ pc'[c] \in {"finish_sweep"} \cup SweepLabel
  BY <1>0, GotoMoves DEF StartSweeping, SweepLoadHead, SweepColor, SweepRoot,
     SweepKeep, SweepFree, SweepSubtract, SweepLabel
<1>2. CollectorMove(c)
  BY DEF CollectorMove, CycleStep, SweepStep
<1>3. Reachable' = Reachable
  BY <1>0, <1>1, <1>2, CollectingReachesTheSame DEF SweepLabel, PushLabel
<1>4. \A o \in Objects : mem[o] # "boxed"
  BY <1>0, <1>1 DEF HeapInv, HandsAreLive, SweepLabel
<1>5. Boxes = Live
  BY <1>4 DEF Boxes, Live
<1>6. CASE StartSweeping(c)
  <2>1. /\ pc[c] = "sweep_start" /\ pc'[c] = "sweep_head"
        /\ UNCHANGED <<head, next, color, mem>>
    BY <1>0, <1>6, GotoMoves DEF StartSweeping
  <2>2. Marked \subseteq Reachable /\ Marked' = Marked
    BY <2>1 DEF Exact, MarksReachable, MarkingLabel, MarkLabel, Marked
  <2>3. Reachable \subseteq Live
    BY <1>0, <1>5, ReachableIsKept DEF Kept, HeapInv
  <2>4. Boxes' = Boxes /\ Unswept(c)' = Live
    <3>1. InList' = InList /\ Live \subseteq Objects
      BY <2>1 DEF InList, Live
    <3> QED
      BY <1>0, <2>1, <3>1 DEF Unswept, WalkLabel, Boxes
  <2>5. Kept(c)' \subseteq Marked
    BY <1>5, <2>1, <2>4 DEF Kept, Marked, Live
  <2> QED
    BY <1>3, <2>1, <2>2, <2>3, <2>4, <2>5
    DEF Exact, MarksReachable, SweepsExactly, CleanAtRest, EndsExactly,
        MarkingLabel, ScanLabel, MarkLabel, SweepLabel
<1>7. CASE \/ SweepLoadHead(c) \/ SweepColor(c) \/ SweepRoot(c)
           \/ SweepKeep(c) \/ SweepFree(c)
  <2>1. pc[c] \in SweepLabel /\ pc'[c] \in SweepLabel
    BY <1>0, <1>7, GotoMoves DEF SweepLoadHead, SweepColor, SweepRoot,
       SweepKeep, SweepFree, SweepLabel
  <2>2. SweepsOn(c)
    BY <1>0, <1>7, SweepingKeepsHeap
  <2>3. Marked \subseteq Unswept(c) /\ Kept(c) \subseteq Reachable
    BY <2>1 DEF Exact, SweepsExactly
  <2>4. Marked' \subseteq Unswept(c)' /\ Kept(c)' \subseteq Reachable'
    BY <1>3, <2>2, <2>3 DEF SweepsOn, Marked
  <2> QED
    BY <2>1, <2>4
    DEF Exact, MarksReachable, SweepsExactly, CleanAtRest, EndsExactly,
        MarkingLabel, ScanLabel, MarkLabel, SweepLabel
<1>8. CASE SweepSubtract(c)
  <2>1. /\ pc[c] = "sweep" /\ pc'[c] = "finish_sweep"
        /\ local[c].current = Null /\ UNCHANGED <<color, mem>>
    BY <1>0, <1>8, GotoMoves DEF SweepSubtract
  <2>2. Unswept(c) = {}
    BY <1>0, <2>1, FollowingStep DEF Unswept
  <2>3. Marked = {} /\ Kept(c) \subseteq Reachable
    BY <2>1, <2>2 DEF Exact, SweepsExactly, SweepLabel
  <2>4. Kept(c) = Live /\ Live' = Live /\ Marked' = Marked
    BY <1>5, <2>1, <2>2 DEF Kept, Live, Marked
  <2> QED
    BY <1>3, <2>1, <2>3, <2>4
    DEF Exact, MarksReachable, SweepsExactly, CleanAtRest, EndsExactly,
        MarkingLabel, ScanLabel, MarkLabel, SweepLabel
<1> QED
  BY <1>6, <1>7, <1>8

(***************************************************************************)
(* The inductive invariant of a collection nobody interferes with.         *)
(***************************************************************************)
UndisturbedInv(c) == CycleInv(c) /\ OthersRest(c) /\ Exact(c)

(***************************************************************************)
(* It holds initially.                                                     *)
(***************************************************************************)
LEMMA InitUndisturbedInv ==
  ASSUME NEW c \in Procs, Undisturbed(c), Init
  PROVE  UndisturbedInv(c)
<1>1. CycleInv(c)
  BY InitCycleInv DEF Undisturbed
<1>2. OthersRest(c)
  BY DEF Init, OthersRest, Procs
<1>3. /\ pc[c] \in {"ready", "bg_enter", "unborn"} /\ Marked = {}
  BY DEF Init, Procs, Marked
<1> QED
  BY <1>1, <1>2, <1>3
  DEF UndisturbedInv, Exact, MarksReachable, SweepsExactly, CleanAtRest,
      EndsExactly, MarkingLabel, ScanLabel, MarkLabel, SweepLabel

(***************************************************************************)
(* Every step keeps it.                                                    *)
(***************************************************************************)
LEMMA NextUndisturbedInv ==
  ASSUME NEW c \in Procs, Undisturbed(c), UndisturbedInv(c), [Next]_vars
  PROVE  UndisturbedInv(c)'
<1>0. /\ CycleInv(c) /\ Exact(c) /\ OthersRest(c) /\ LeafMutators(c) /\ TypeOK
      /\ ControlInv(c) /\ MarksAsCollector(c)
  BY DEF UndisturbedInv, Undisturbed, CycleInv, BaseInv, QueueInv, BusyInv
<1>1. CycleInv(c)'
  BY <1>0, NextCycleInv
<1>2. ASSUME NEW t \in Threads \ {c} PROVE ~ LeafMove(t)
  <2>1. Calls[t] = {} /\ pc[t] = "ready"
    BY <1>0 DEF OthersRest, Undisturbed
  <2>2. NewValues(t) = {}
    BY <2>1 DEF NewValues
  <2> QED
    BY <2>1, <2>2 DEF LeafMove, CloneRoot, DropRoot, CellSet, BusyCheck,
       DecrementBusyMarking, CellShade, CellMergeWork, CellStore, Goto
<1>3. ASSUME Others(c) PROVE OthersRest(c)'
  BY <1>0, <1>3 DEF Others, OthersRest, Procs
<1>4. CASE c \in Threads /\ (MutatorCall(c) \/ MutatorStep(c))
  <2>1. Others(c)
    BY <1>0, <1>4, MutatorCallCounts, MutatorStepCounts DEF BusyStep
  <2> QED
    BY <1>0, <1>1, <1>3, <1>4, <2>1, OwnCallIsExact DEF UndisturbedInv
<1>5. CASE CollectorMove(c)
  <2>1. Others(c)
    BY <1>0, <1>5, CollectorMoveFrame
  <2>2. Exact(c)'
    <3>1. CASE CycleStep(c)
      BY <1>0, <1>1, <3>1, RestStepIsExact, MarkingIsExact, SweepIsExact
      DEF CycleStep, SweepStep
    <3>2. CASE ~ CycleStep(c)
      BY <1>0, <1>1, <1>5, <3>2, RestStepIsExact, MarkingIsExact
      DEF CollectorMove
    <3> QED
      BY <3>1, <3>2
  <2> QED
    BY <1>1, <1>3, <2>1, <2>2 DEF UndisturbedInv
<1>6. CASE UNCHANGED vars
  <2>1. /\ Marked' = Marked /\ ToScan(c)' = ToScan(c) /\ Live' = Live
        /\ Boxes' = Boxes /\ InList' = InList /\ Held' = Held /\ ref' = ref
    BY <1>6 DEF vars, Marked, ToScan, Live, Boxes, InList, Held, InAllocate
  <2>2. Reachable' = Reachable
    BY <2>1 DEF Reachable, ClosedUnderRefs, Successors
  <2>3. Unswept(c)' = Unswept(c) /\ Kept(c)' = Kept(c)
    BY <1>6, <2>1 DEF vars, Unswept, Kept
  <2>4. Exact(c)'
    BY <1>0, <1>6, <2>1, <2>2, <2>3
    DEF vars, Exact, MarksReachable, SweepsExactly, CleanAtRest, EndsExactly
  <2> QED
    BY <1>0, <1>1, <1>6, <2>4 DEF vars, OthersRest, UndisturbedInv
<1> QED
  BY <1>0, <1>2, <1>4, <1>5, <1>6, StepsOfTheProgram

(***************************************************************************)
(* What the invariant says at the start of a cycle and at its end.         *)
(***************************************************************************)
LEMMA UndisturbedCollects ==
  ASSUME NEW c \in Procs, Undisturbed(c), UndisturbedInv(c)
  PROVE  CycleStartsWhite /\ ExactCollection
<1>0. CycleInv(c) /\ BaseInv(c) /\ HeapInv(c) /\ Exact(c) /\ LeafMutators(c)
  BY DEF UndisturbedInv, CycleInv, Undisturbed
<1>1. \A p \in Procs : pc[p] \in {"roots_head", "finish_sweep"} => p = c
  BY <1>0, OthersStandClear DEF SetLabel
<1>2. CycleStartsWhite
  <2> SUFFICES ASSUME pc[c] = "roots_head"
               PROVE  gray_queue = <<>> /\ \A o \in Live : color[o] = "White"
    BY <1>1 DEF CycleStartsWhite
  <2>1. Marked = {}
    BY <1>0 DEF Exact, CleanAtRest, MarkLabel, SweepLabel
  <2>2. gray_queue = <<>>
    BY <1>0 DEF BaseInv, ControlInv, Hands
  <2> QED
    BY <2>1, <2>2 DEF Marked, Live
<1>3. ExactCollection
  <2> SUFFICES ASSUME pc[c] = "finish_sweep" PROVE Live = Reachable
    BY <1>1 DEF ExactCollection
  <2>1. Live \subseteq Reachable
    BY <1>0 DEF Exact, EndsExactly
  <2>2. Reachable \subseteq Boxes
    BY <1>0, ReachableIsKept DEF HeapInv, Kept
  <2>3. \A o \in Objects : mem[o] # "boxed"
    BY <1>0 DEF HeapInv, HandsAreLive
  <2> QED
    BY <2>1, <2>2, <2>3 DEF Boxes, Live
<1> QED
  BY <1>2, <1>3

(***************************************************************************)
(* Where no other thread calls the heap, every collection starts with      *)
(* nothing marked and nothing queued: the sweep of the one before has      *)
(* turned all it kept white.                                               *)
(***************************************************************************)
THEOREM CyclesStartClean ==
  ASSUME NEW c \in Procs, Undisturbed(c)
  PROVE  Spec => []CycleStartsWhite
<1>1. Init => UndisturbedInv(c)
  BY InitUndisturbedInv
<1>2. UndisturbedInv(c) /\ [Next]_vars => UndisturbedInv(c)'
  BY NextUndisturbedInv
<1>3. UndisturbedInv(c) => CycleStartsWhite
  BY UndisturbedCollects
<1> QED
  BY <1>1, <1>2, <1>3, PTL DEF Spec

(***************************************************************************)
(* A collection that no other thread interferes with is exact, for every   *)
(* graph the program has built: it leaves what the program can reach and   *)
(* nothing else.                                                           *)
(***************************************************************************)
THEOREM CollectionIsExact ==
  ASSUME NEW c \in Procs, Undisturbed(c)
  PROVE  Spec => []ExactCollection
<1>1. Init => UndisturbedInv(c)
  BY InitUndisturbedInv
<1>2. UndisturbedInv(c) /\ [Next]_vars => UndisturbedInv(c)'
  BY NextUndisturbedInv
<1>3. UndisturbedInv(c) => ExactCollection
  BY UndisturbedCollects
<1> QED
  BY <1>1, <1>2, <1>3, PTL DEF Spec

=============================================================================
