-------------------------- MODULE RefinementProofs --------------------------
(***************************************************************************)
(* The collector implements what a heap promises its program, and what     *)
(* that gives the program.  A box is seen by the program once allocate has *)
(* returned its GcRoot; each step of the detailed heap is one step on what *)
(* is seen, or none.                                                       *)
(***************************************************************************)
EXTENDS Refinement, CycleProofs

USE DEF listVars, objectVars, counterVars

(***************************************************************************)
(* The pointer in a cell that a.set(b.get()) copies keeps nothing alive.   *)
(* Another thread could clear that cell before the copy is stored, which   *)
(* would bring back what the program cannot reach: only a thread that has  *)
(* the heap to itself copies from cell to cell.                            *)
(***************************************************************************)
CopiesAlone(c) == c \in Threads /\ "move" \in Calls[c] => Threads \subseteq {c}

(***************************************************************************)
(* What the collecting thread is going to make visible: the data of the    *)
(* box it pushes, and the pointer it stores, lead to objects it has        *)
(* GcRoots of, or to what it found in a cell that no other thread changes. *)
(***************************************************************************)
WritesReachable(c) ==
  c \in Threads =>
    /\ pc[c] \in PushLabel =>
         \A f \in Fields : ref[local[c].current][f] \in HeldBy(c) \cup {Null}
    /\ pc[c] \in SetLabel /\ local[c].op = "set" =>
         \/ local[c].value \in HeldBy(c) \cup {Null}
         \/ Threads \subseteq {c} /\ local[c].value \in InCells(c)

RefinementInv(c) == CycleInv(c) /\ WritesReachable(c)

-----------------------------------------------------------------------------

(***************************************************************************)
(* A collection is no call: it neither pushes a box nor stores a pointer.  *)
(***************************************************************************)
LEMMA CollectorMoveIsNoCall ==
  ASSUME NEW c \in Procs, LeafMutators(c), CycleInv(c), TypeOK',
         CollectorMove(c)
  PROVE  /\ pc[c] \notin PushLabel
         /\ pc'[c] \notin PushLabel \cup SetLabel
<1> USE DEF PushLabel, SetLabel
<1>0. TypeOK /\ ControlInv(c)
  BY DEF CycleInv, BaseInv, QueueInv, BusyInv
<1>1. CASE MarkStep(c)
  BY <1>0, <1>1, MarkStepKeepsControl
<1>2. CASE \/ c \in Background /\ BackgroundStep(c)
           \/ JoinBackgroundThread(c)
  BY <1>0, <1>2, BackgroundKeepsControl
<1>3. CASE \/ ForceCollect(c) \/ TryStartMarking(c) \/ RootsLoadHead(c)
           \/ RootsVisit(c) \/ RootsMerge(c) \/ BusyTest(c)
  BY <1>0, <1>3, GotoMoves DEF ForceCollect, TryStartMarking, RootsLoadHead,
     RootsVisit, RootsMerge, BusyTest, CollectorHome
<1>4. CASE SweepStep(c)
  BY <1>0, <1>4, GotoMoves DEF SweepStep, StartSweeping, SweepLoadHead,
     SweepColor, SweepRoot, SweepKeep, SweepFree, SweepSubtract, FinishSweep,
     UpdateThreshold, FinishGc, CollectorHome
<1> QED
  BY <1>1, <1>2, <1>3, <1>4 DEF CollectorMove, CycleStep

(***************************************************************************)
(* The box that is being pushed is in no thread's hands yet.               *)
(***************************************************************************)
LEMMA PushedIsPrivate ==
  ASSUME NEW c \in Threads, RootInv, pc[c] \in PushLabel
  PROVE  /\ local[c].current \in Objects
         /\ \A t \in Threads : local[c].current \notin HeldBy(t)
<1>1. c \in Procs /\ OwnsItsObject(c) /\ SeesPublished(c) /\ RootsAreHandedOut
  BY DEF RootInv, Procs
<1>2. Allocates(c)
  BY <1>1 DEF SeesPublished
<1> QED
  BY <1>1, <1>2 DEF OwnsItsObject, RootsAreHandedOut, HandedOut

(***************************************************************************)
(* The steps of the collecting thread's calls keep what it writes          *)
(* reachable.                                                              *)
(***************************************************************************)
LEMMA OwnCallWritesReachable ==
  ASSUME NEW c \in Threads, LeafMutators(c), CopiesAlone(c),
         RefinementInv(c), CycleInv(c)', MutatorCall(c) \/ MutatorStep(c)
  PROVE  WritesReachable(c)'
<1> DEFINE l == local[c]
<1>0. /\ c \in Procs /\ TypeOK /\ TypeOK' /\ ControlInv(c) /\ BaseInv(c)
      /\ ListClosed(InList) /\ l \in Locals /\ RootInv
      /\ ref \in [Objects -> [Fields -> Pointer]] /\ pc \in [Procs -> Label]
  BY InListIsLeast, LocalType
  DEF RefinementInv, CycleInv, BaseInv, QueueInv, BusyInv, Procs, TypeOK,
      WholeListInv, ListInv
<1>1. InList' = InList \/ AllocatePublish(c)
  BY <1>0, OwnListStep
<1>2. /\ pc[c] \in CallLabel /\ pc'[c] \in CallLabel
      /\ ~ CellShade(c) /\ ~ CellMergeWork(c)
  BY <1>0, <1>1, OwnCallKeepsControl
<1>3. ASSUME pc'[c] \notin PushLabel \cup SetLabel PROVE WritesReachable(c)'
  BY <1>3 DEF WritesReachable
<1>4. CASE \/ CloneRoot(c) \/ DropRoot(c) \/ CellGet(c) \/ CountLoadHead(c)
           \/ AllocateReturn(c) \/ CellStore(c) \/ RootPointer(c)
           \/ ForgetPointer(c) \/ CountNode(c)
  <2>1. pc'[c] \in {"ready", "rooting", "count"}
    BY <1>0, <1>4, GotoMoves DEF CloneRoot, DropRoot, CellGet, CountLoadHead,
       AllocateReturn, CellStore, RootPointer, ForgetPointer, CountNode
  <2> QED
    BY <1>3, <2>1 DEF PushLabel, SetLabel
<1>5. CASE Allocate(c)
  <2>1. pc'[c] \in {"busy_check", "alloc_box"}
    BY <1>0, <1>5, GotoMoves DEF Allocate
  <2>2. local'[c].op = "allocate"
    <3>1. PICK o \in Objects :
            SetLocal(c, [l EXCEPT !.op = "allocate", !.current = o])
      BY <1>5 DEF Allocate
    <3>2. local'[c] = [l EXCEPT !.op = "allocate", !.current = o]
      BY <1>0, <3>1, SetLocalMoves
    <3> QED
      BY <1>0, <3>2 DEF Locals
  <2> QED
    BY <2>1, <2>2 DEF WritesReachable, PushLabel, SetLabel
<1>6. CASE CellSet(c)
  <2>1. PICK o \in HeldBy(c) \ NoTrace, f \in Fields, v \in NewValues(c) :
          SetLocal(c, [l EXCEPT !.op = "set", !.current = o,
                                !.field = f, !.value = v])
    BY <1>6 DEF CellSet
  <2>2. local'[c] = [l EXCEPT !.op = "set", !.current = o,
                              !.field = f, !.value = v]
    BY <1>0, <2>1, SetLocalMoves
  <2>3. local'[c].value = v
    BY <1>0, <2>2 DEF Locals
  <2>4. pc'[c] = "busy_check" /\ UNCHANGED <<ref, handles>>
    BY <1>0, <1>6, GotoMoves DEF CellSet
  <2>5. HeldBy(c)' = HeldBy(c) /\ InCells(c)' = InCells(c)
    BY <2>4 DEF HeldBy, InCells, Successors
  <2>6. v \in HeldBy(c) \cup {Null} \/ (Threads \subseteq {c} /\ v \in InCells(c))
    BY DEF NewValues, CopiesAlone
  <2> QED
    BY <2>3, <2>4, <2>5, <2>6 DEF WritesReachable, PushLabel
<1>7. CASE BusyCheck(c) \/ DecrementBusyMarking(c)
  <2>1. /\ UNCHANGED <<ref, handles, local>> /\ pc[c] \in SetLabel
        /\ pc'[c] \notin PushLabel
    BY <1>0, <1>2, <1>7, GotoMoves DEF BusyCheck, DecrementBusyMarking,
       AfterBusy, SetLabel, PushLabel
  <2>2. HeldBy(c)' = HeldBy(c) /\ InCells(c)' = InCells(c)
    BY <2>1 DEF HeldBy, InCells, Successors
  <2> QED
    BY <2>1, <2>2 DEF WritesReachable, RefinementInv
<1>8. CASE AllocateBox(c)
  <2> DEFINE o == l.current
  <2>1. /\ pc[c] = "alloc_box" /\ pc'[c] = "alloc_load"
        /\ UNCHANGED <<handles, local>>
    BY <1>0, <1>8, GotoMoves DEF AllocateBox
  <2>2. PICK d \in InitialData(c, o) : ref' = [ref EXCEPT ![o] = d]
    BY <1>8 DEF AllocateBox
  <2>3. o \in Objects
    BY <1>0, <2>1 DEF RootInv, OwnsItsObject, SeesPublished
  <2>4. ref'[o] = d
    BY <1>0, <2>2, <2>3
  <2>5. \A f \in Fields : d[f] \in HeldBy(c) \cup {Null}
    BY DEF InitialData
  <2>6. HeldBy(c)' = HeldBy(c)
    BY <2>1 DEF HeldBy
  <2> QED
    BY <2>1, <2>4, <2>5, <2>6 DEF WritesReachable, SetLabel
<1>9. CASE AllocateLoadHead(c) \/ AllocatePublish(c) \/ AllocateRetry(c)
  <2>1. /\ UNCHANGED <<ref, handles, local>> /\ pc[c] \in PushLabel
        /\ pc'[c] \notin SetLabel
    BY <1>0, <1>9, GotoMoves DEF AllocateLoadHead, AllocatePublish,
       AllocateRetry, SetLabel, PushLabel
  <2>2. HeldBy(c)' = HeldBy(c)
    BY <2>1 DEF HeldBy
  <2> QED
    BY <2>1, <2>2 DEF WritesReachable, RefinementInv
<1> QED
  BY <1>2, <1>4, <1>5, <1>6, <1>7, <1>8, <1>9 DEF MutatorCall, MutatorStep

(***************************************************************************)
(* Another thread stores in cells of objects it has GcRoots of.            *)
(***************************************************************************)
LEMMA LeafMoveWritesReachable ==
  ASSUME NEW c \in Procs, LeafMutators(c), RefinementInv(c), TypeOK',
         NEW t \in Threads \ {c}, LeafMove(t)
  PROVE  WritesReachable(c)'
<1>0. /\ TypeOK /\ ControlInv(c) /\ RootInv /\ LeafStore(t)
      /\ ref \in [Objects -> [Fields -> Pointer]]
  BY DEF RefinementInv, CycleInv, BaseInv, QueueInv, BusyInv, TypeOK,
     WholeListInv, ListInv, ControlInv
<1>1. LeafEffect(c)
  BY <1>0, LeafMoveEffect DEF ControlInv
<1> SUFFICES ASSUME c \in Threads PROVE WritesReachable(c)'
  BY DEF WritesReachable
<1>2. /\ pc'[c] = pc[c] /\ local'[c] = local[c]
      /\ HeldBy(c) \subseteq HeldBy(c)' /\ ~ (Threads \subseteq {c})
  BY <1>1 DEF LeafEffect
<1>3. ASSUME pc[c] \in PushLabel
      PROVE  ref'[local[c].current] = ref[local[c].current]
  <2>1. CASE ref' = ref
    BY <2>1
  <2>2. CASE CellStore(t)
    <3>1. /\ local[t].current \in HeldBy(t)
          /\ ref' = [ref EXCEPT ![local[t].current][local[t].field] =
                                                              local[t].value]
      BY <1>0, <2>2 DEF CellStore, Goto, LeafStore
    <3>2. local[c].current # local[t].current /\ local[c].current \in Objects
      BY <1>0, <1>3, <3>1, PushedIsPrivate
    <3> QED
      BY <1>0, <3>1, <3>2
  <2> QED
    BY <2>1, <2>2 DEF LeafMove, CloneRoot, DropRoot, CellSet, BusyCheck,
       DecrementBusyMarking, CellShade, CellMergeWork
<1> QED
  BY <1>2, <1>3 DEF WritesReachable, RefinementInv

-----------------------------------------------------------------------------

(***************************************************************************)
(* What the program sees of the boxes.                                     *)
(***************************************************************************)
Visible(o) == mem[o] = "live" /\ ~ InAllocate(o)

(***************************************************************************)
(* AbstractMem and AbstractRef in terms of Visible.                        *)
(***************************************************************************)
LEMMA WhatIsSeen ==
  /\ DOMAIN AbstractMem = Objects /\ DOMAIN AbstractRef = Objects
  /\ \A o \in Objects :
       /\ AbstractMem[o] = IF mem[o] = "freed" THEN "dropped"
                           ELSE IF Visible(o) THEN "live" ELSE "unborn"
       /\ mem[o] = "freed" \/ Visible(o) => AbstractRef[o] = ref[o]
       /\ ~ (mem[o] = "freed" \/ Visible(o)) =>
            AbstractRef[o] = [f \in Fields |-> Null]
<1>1. \A o \in Objects :
        AbstractMem[o] = IF mem[o] = "freed" THEN "dropped"
                         ELSE IF Visible(o) THEN "live" ELSE "unborn"
  <2> SUFFICES ASSUME NEW o \in Objects
               PROVE  AbstractMem[o] = IF mem[o] = "freed" THEN "dropped"
                         ELSE IF Visible(o) THEN "live" ELSE "unborn"
    OBVIOUS
  <2>1. AbstractMem[o] = CASE mem[o] = "freed" -> "dropped"
                           [] mem[o] = "live" /\ ~ InAllocate(o) -> "live"
                           [] OTHER -> "unborn"
    BY DEF AbstractMem
  <2>2. CASE mem[o] = "freed"
    BY <2>1, <2>2
  <2>3. CASE mem[o] # "freed" /\ Visible(o)
    BY <2>1, <2>3 DEF Visible
  <2>4. CASE mem[o] # "freed" /\ ~ Visible(o)
    BY <2>1, <2>4 DEF Visible
  <2> QED
    BY <2>2, <2>3, <2>4
<1>2. /\ DOMAIN AbstractMem = Objects /\ DOMAIN AbstractRef = Objects
      /\ \A o \in Objects :
           AbstractRef[o] = IF AbstractMem[o] = "unborn"
                            THEN [f \in Fields |-> Null] ELSE ref[o]
  BY DEF AbstractMem, AbstractRef
<1> QED
  BY <1>1, <1>2

(***************************************************************************)
(* The same of the next state.                                             *)
(***************************************************************************)
LEMMA WhatWillBeSeen ==
  /\ DOMAIN AbstractMem' = Objects /\ DOMAIN AbstractRef' = Objects
  /\ \A o \in Objects :
       /\ AbstractMem'[o] = IF mem'[o] = "freed" THEN "dropped"
                            ELSE IF Visible(o)' THEN "live" ELSE "unborn"
       /\ mem'[o] = "freed" \/ Visible(o)' => AbstractRef'[o] = ref'[o]
       /\ ~ (mem'[o] = "freed" \/ Visible(o)') =>
            AbstractRef'[o] = [f \in Fields |-> Null]
<1>1. \A o \in Objects :
        AbstractMem'[o] = IF mem'[o] = "freed" THEN "dropped"
                          ELSE IF Visible(o)' THEN "live" ELSE "unborn"
  <2> SUFFICES ASSUME NEW o \in Objects
               PROVE  AbstractMem'[o] = IF mem'[o] = "freed" THEN "dropped"
                         ELSE IF Visible(o)' THEN "live" ELSE "unborn"
    OBVIOUS
  <2>1. AbstractMem'[o] = CASE mem'[o] = "freed" -> "dropped"
                            [] mem'[o] = "live" /\ ~ InAllocate(o)' -> "live"
                            [] OTHER -> "unborn"
    BY DEF AbstractMem
  <2>2. CASE mem'[o] = "freed"
    BY <2>1, <2>2
  <2>3. CASE mem'[o] # "freed" /\ Visible(o)'
    BY <2>1, <2>3 DEF Visible
  <2>4. CASE mem'[o] # "freed" /\ ~ Visible(o)'
    BY <2>1, <2>4 DEF Visible
  <2> QED
    BY <2>2, <2>3, <2>4
<1>2. /\ DOMAIN AbstractMem' = Objects /\ DOMAIN AbstractRef' = Objects
      /\ \A o \in Objects :
           AbstractRef'[o] = IF AbstractMem'[o] = "unborn"
                             THEN [f \in Fields |-> Null] ELSE ref'[o]
  BY DEF AbstractMem, AbstractRef
<1> QED
  BY <1>1, <1>2

(***************************************************************************)
(* Both views are functions.                                               *)
(***************************************************************************)
LEMMA ViewsAreFunctions ==
  /\ AbstractMem = [o \in Objects |-> AbstractMem[o]]
  /\ AbstractRef = [o \in Objects |-> AbstractRef[o]]
  /\ AbstractMem' = [o \in Objects |-> AbstractMem'[o]]
  /\ AbstractRef' = [o \in Objects |-> AbstractRef'[o]]
BY DEF AbstractMem, AbstractRef

(***************************************************************************)
(* A step that changes neither GcRoots nor what is seen is no step for the *)
(* program.                                                                *)
(***************************************************************************)
LEMMA UnseenStep ==
  ASSUME handles' = handles,
         \A o \in Objects : /\ mem'[o] = "freed" <=> mem[o] = "freed"
                            /\ Visible(o)' <=> Visible(o)
                            /\ mem[o] = "freed" \/ Visible(o) => ref'[o] = ref[o]
  PROVE  UNCHANGED Abstract!vars
<1>1. \A o \in Objects : AbstractMem'[o] = AbstractMem[o]
  BY WhatIsSeen, WhatWillBeSeen
<1>2. \A o \in Objects : AbstractRef'[o] = AbstractRef[o]
  BY WhatIsSeen, WhatWillBeSeen
<1>3. AbstractMem' = AbstractMem /\ AbstractRef' = AbstractRef
  BY <1>1, <1>2, ViewsAreFunctions
<1> QED
  BY <1>3 DEF Abstract!vars

(***************************************************************************)
(* What a thread has a GcRoot of is there, and seen as it is.              *)
(***************************************************************************)
LEMMA HeldIsVisible ==
  ASSUME NEW c \in Procs, CycleInv(c), NEW t \in Threads, NEW o \in HeldBy(t)
  PROVE  o \in Objects /\ Visible(o)
<1>1. RootInv /\ KeptIsClosed(c)
  BY DEF CycleInv, BaseInv, WholeListInv, ListInv, HeapInv
<1>2. o \in Objects /\ o \in Held
  BY DEF HeldBy, Held
<1>3. mem[o] # "freed" /\ o \in HandedOut
  BY <1>1, <1>2 DEF KeptIsClosed, Kept, Boxes, RootInv, RootsAreHandedOut
<1>4. ~ InAllocate(o)
  <2> SUFFICES ASSUME NEW u \in Threads, local[u].current = o,
                      pc[u] \in PushLabel
               PROVE  FALSE
    BY DEF InAllocate, PushLabel
  <2>1. Allocates(u)
    BY <1>1 DEF RootInv, SeesPublished, Procs
  <2> QED
    BY <1>3, <2>1 DEF HandedOut
<1> QED
  BY <1>2, <1>3, <1>4 DEF Visible, HandedOut, Published

(***************************************************************************)
(* Only the collecting thread allocates.                                   *)
(***************************************************************************)
LEMMA WhoAllocates ==
  ASSUME NEW c \in Procs, CycleInv(c), NEW o \in Objects
  PROVE  InAllocate(o) <=> /\ c \in Threads /\ pc[c] \in PushLabel
                           /\ local[c].current = o
<1>1. \A u \in Threads \ {c} : pc[u] \notin PushLabel
  BY DEF CycleInv, BaseInv, ControlInv, LeafStore, SetLabel, PushLabel
<1> QED
  BY <1>1 DEF InAllocate, PushLabel

(***************************************************************************)
(* The same of the next state.                                             *)
(***************************************************************************)
LEMMA WhoWillAllocate ==
  ASSUME NEW c \in Procs, CycleInv(c)', NEW o \in Objects
  PROVE  InAllocate(o)' <=> /\ c \in Threads /\ pc'[c] \in PushLabel
                            /\ local'[c].current = o
<1>1. \A u \in Threads \ {c} : pc'[u] \notin PushLabel
  BY DEF CycleInv, BaseInv, ControlInv, LeafStore, SetLabel, PushLabel
<1> QED
  BY <1>1 DEF InAllocate, PushLabel

(***************************************************************************)
(* What the program can reach through the GcRoots that calls have          *)
(* returned: what threads hold, what is in the cells of those, and nothing *)
(* that is not kept.                                                       *)
(***************************************************************************)
LEMMA AbstractReach ==
  ASSUME NEW c \in Procs, CycleInv(c)
  PROVE  /\ \A t \in Threads : HeldBy(t) \subseteq Abstract!Reachable
         /\ \A t \in Threads : InCells(t) \subseteq Abstract!Reachable
         /\ Abstract!Reachable \subseteq Kept(c)
         /\ pc[c] \notin PushLabel => Reachable \subseteq Abstract!Reachable
<1>0. /\ TypeOK /\ KeptIsClosed(c) /\ HandsAreLive(c)
      /\ ref \in [Objects -> [Fields -> Pointer]]
      /\ Kept(c) \subseteq Objects
  BY DEF CycleInv, BaseInv, QueueInv, BusyInv, HeapInv, TypeOK, Kept, Boxes
<1>1. \A t \in Threads : HeldBy(t) \subseteq Abstract!Held
  BY DEF HeldBy, Abstract!Held
<1>2. \A o \in Objects : Visible(o) => Abstract!Successors(o) = Successors(o)
  BY WhatIsSeen DEF Abstract!Successors, Successors
<1>3. \A o \in Objects : Abstract!Successors(o) \subseteq Successors(o)
  BY WhatIsSeen DEF Abstract!Successors, Successors
<1>4. ASSUME NEW t \in Threads PROVE HeldBy(t) \subseteq Abstract!Reachable
  <2>1. HeldBy(t) \subseteq Objects
    BY DEF HeldBy
  <2> QED
    BY <1>1, <2>1 DEF Abstract!Reachable, Abstract!Closed
<1>5. ASSUME NEW t \in Threads PROVE InCells(t) \subseteq Abstract!Reachable
  <2> SUFFICES ASSUME NEW o \in HeldBy(t), NEW v \in Successors(o)
               PROVE  v \in Abstract!Reachable
    BY DEF InCells
  <2>1. o \in Objects /\ v \in Abstract!Successors(o)
    BY <1>2, HeldIsVisible
  <2>2. v \in Objects
    BY <1>0, <2>1 DEF Successors, Pointer
  <2>3. \A S \in SUBSET Objects : Abstract!Closed(S) => v \in S
    BY <1>1, <2>1 DEF Abstract!Closed
  <2> QED
    BY <2>2, <2>3 DEF Abstract!Reachable
<1>6. Abstract!Reachable \subseteq Kept(c)
  <2>1. Abstract!Held \subseteq Held
    BY DEF Abstract!Held, Held
  <2>2. Abstract!Closed(Kept(c))
    BY <1>0, <1>3, <2>1 DEF Abstract!Closed, KeptIsClosed
  <2>3. Kept(c) \in SUBSET Objects
    BY <1>0
  <2> QED
    BY <2>2, <2>3 DEF Abstract!Reachable
<1>7. ASSUME pc[c] \notin PushLabel PROVE Reachable \subseteq Abstract!Reachable
  <2>1. \A o \in Objects : ~ InAllocate(o)
    BY <1>7, WhoAllocates
  <2>2. Held = Abstract!Held
    BY <2>1 DEF Held, Abstract!Held
  <2>3. \A o \in Kept(c) : Visible(o)
    BY <1>0, <1>7, <2>1
    DEF Kept, Boxes, HandsAreLive, Visible, PushLabel
  <2> SUFFICES ASSUME NEW o \in Reachable, NEW S \in SUBSET Objects,
                      Abstract!Closed(S)
               PROVE  o \in S
    BY DEF Abstract!Reachable, Reachable
  <2>4. S \cap Kept(c) \in SUBSET Objects /\ Held \subseteq S \cap Kept(c)
    BY <1>0, <2>2 DEF Abstract!Closed, KeptIsClosed
  <2>5. ClosedUnderRefs(S \cap Kept(c))
    <3> SUFFICES ASSUME NEW x \in S \cap Kept(c)
                 PROVE  Successors(x) \subseteq S \cap Kept(c)
      BY DEF ClosedUnderRefs
    <3>1. Successors(x) = Abstract!Successors(x)
      BY <1>0, <1>2, <2>3
    <3> QED
      BY <1>0, <3>1 DEF Abstract!Closed, KeptIsClosed
  <2> QED
    BY <2>4, <2>5 DEF Reachable
<1> QED
  BY <1>4, <1>5, <1>6, <1>7

-----------------------------------------------------------------------------

(***************************************************************************)
(* A GcRoot more, of a reachable object; a GcRoot less; a cell written.    *)
(***************************************************************************)
LEMMA RootRefines ==
  ASSUME NEW u \in Threads, NEW o \in Objects, o \in Abstract!Reachable,
         handles' = [handles EXCEPT ![u][o] = @ + 1],
         \A x \in Objects : Visible(x)' <=> Visible(x),
         UNCHANGED <<mem, ref>>
  PROVE  Abstract!Next
<1>1. AbstractMem' = AbstractMem /\ AbstractRef' = AbstractRef
  BY WhatIsSeen, WhatWillBeSeen, ViewsAreFunctions
<1>2. Abstract!Root(u, o)
  BY <1>1 DEF Abstract!Root
<1> QED
  BY <1>2 DEF Abstract!Next

(***************************************************************************)
(* Dropping a GcRoot is the abstract DropRoot.                             *)
(***************************************************************************)
LEMMA DropRefines ==
  ASSUME NEW t \in Threads, NEW o \in HeldBy(t),
         handles' = [handles EXCEPT ![t][o] = @ - 1],
         \A x \in Objects : Visible(x)' <=> Visible(x),
         UNCHANGED <<mem, ref>>
  PROVE  Abstract!Next
<1>1. AbstractMem' = AbstractMem /\ AbstractRef' = AbstractRef
  BY WhatIsSeen, WhatWillBeSeen, ViewsAreFunctions
<1>2. o \in Objects /\ Abstract!DropRoot(t, o)
  BY <1>1 DEF Abstract!DropRoot, HeldBy
<1> QED
  BY <1>2 DEF Abstract!Next

(***************************************************************************)
(* Writing a cell of a visible object is the abstract Store.               *)
(***************************************************************************)
LEMMA StoreRefines ==
  ASSUME TypeOK, NEW t \in Threads, NEW o \in HeldBy(t), Visible(o),
         NEW f \in Fields, NEW v \in Abstract!Reachable \cup {Null},
         ref' = [ref EXCEPT ![o][f] = v],
         \A x \in Objects : Visible(x)' <=> Visible(x),
         UNCHANGED <<mem, handles>>
  PROVE  Abstract!Next
<1>0. o \in Objects /\ v \in Objects \cup {Null}
      /\ ref \in [Objects -> [Fields -> Pointer]]
  BY DEF HeldBy, Abstract!Reachable, TypeOK
<1>1. AbstractMem' = AbstractMem
  BY WhatIsSeen, WhatWillBeSeen, ViewsAreFunctions
<1>2. AbstractRef' = [AbstractRef EXCEPT ![o][f] = v]
  <2>1. AbstractRef'[o] = [AbstractRef[o] EXCEPT ![f] = v]
    BY <1>0, WhatIsSeen, WhatWillBeSeen
  <2>2. \A x \in Objects \ {o} : AbstractRef'[x] = AbstractRef[x]
    <3>1. \A x \in Objects \ {o} : ref'[x] = ref[x]
      BY <1>0
    <3> QED
      BY <3>1, WhatIsSeen, WhatWillBeSeen
  <2>3. AbstractRef' = [x \in Objects |->
                          IF x = o THEN [AbstractRef[o] EXCEPT ![f] = v]
                                   ELSE AbstractRef[x]]
    BY <2>1, <2>2, ViewsAreFunctions
  <2>4. AbstractRef = [x \in Objects |-> AbstractRef[x]]
    BY ViewsAreFunctions
  <2> QED
    BY <1>0, <2>3, <2>4
<1>3. Abstract!Store(t, o, f, v)
  BY <1>1, <1>2 DEF Abstract!Store, Abstract!HeldBy, HeldBy
<1> QED
  BY <1>0, <1>3 DEF Abstract!Next

(***************************************************************************)
(* A step of a thread that stores leaves.                                  *)
(***************************************************************************)
LEMMA LeafMoveRefines ==
  ASSUME NEW c \in Procs, LeafMutators(c), RefinementInv(c), CycleInv(c)',
         NEW t \in Threads \ {c}, LeafMove(t)
  PROVE  [Abstract!Next]_(Abstract!vars)
<1>0. /\ TypeOK /\ TypeOK' /\ ControlInv(c) /\ LeafStore(t) /\ CycleInv(c)
  BY DEF RefinementInv, CycleInv, BaseInv, QueueInv, BusyInv, ControlInv
<1>1. LeafEffect(c)
  BY <1>0, LeafMoveEffect DEF ControlInv
<1>2. mem' = mem /\ \A x \in Objects : Visible(x)' <=> Visible(x)
  BY <1>0, <1>1, WhoAllocates, WhoWillAllocate DEF LeafEffect, Visible
<1>3. CASE CloneRoot(t)
  <2>1. PICK o \in HeldBy(t), u \in Threads :
          handles' = [handles EXCEPT ![u][o] = @ + 1]
    BY <1>3 DEF CloneRoot
  <2>2. o \in Objects /\ o \in Abstract!Reachable
    BY <1>0, AbstractReach DEF HeldBy
  <2> QED
    BY <1>2, <1>3, <2>1, <2>2, RootRefines DEF CloneRoot
<1>4. CASE DropRoot(t)
  <2>1. PICK o \in HeldBy(t) : handles' = [handles EXCEPT ![t][o] = @ - 1]
    BY <1>4 DEF DropRoot
  <2> QED
    BY <1>2, <1>4, <2>1, DropRefines DEF DropRoot
<1>5. CASE CellStore(t)
  <2> DEFINE o == local[t].current
             f == local[t].field
             v == local[t].value
  <2>1. /\ ref' = [ref EXCEPT ![o][f] = v] /\ handles' = handles
        /\ o \in HeldBy(t) /\ f \in Fields /\ v \in HeldBy(t) \cup {Null}
    BY <1>0, <1>5 DEF CellStore, Goto, LeafStore
  <2>2. Visible(o) /\ v \in Abstract!Reachable \cup {Null}
    BY <1>0, <2>1, HeldIsVisible, AbstractReach
  <2> HIDE DEF o, f, v
  <2> QED
    BY <1>0, <1>2, <2>1, <2>2, StoreRefines
<1>6. CASE \/ CellSet(t) \/ BusyCheck(t) \/ DecrementBusyMarking(t)
           \/ CellShade(t) \/ CellMergeWork(t)
  <2>1. UNCHANGED <<ref, handles>>
    BY <1>6 DEF CellSet, BusyCheck, DecrementBusyMarking, CellShade,
       CellMergeWork
  <2> QED
    BY <1>2, <2>1, UnseenStep
<1> QED
  BY <1>3, <1>4, <1>5, <1>6 DEF LeafMove

(***************************************************************************)
(* A step of a collection: the sweep drops what is out of reach, and the   *)
(* program sees nothing of the rest.                                       *)
(***************************************************************************)
LEMMA CollectorMoveRefines ==
  ASSUME NEW c \in Procs, LeafMutators(c), CycleInv(c), CycleInv(c)',
         CollectorMove(c)
  PROVE  [Abstract!Next]_(Abstract!vars)
<1>0. /\ TypeOK /\ TypeOK' /\ MarksAsCollector(c) /\ SweepsTheList(c)
      /\ InList = Live /\ HeapInv(c) /\ mem \in [Objects -> Mem]
  BY DEF CycleInv, BaseInv, QueueInv, BusyInv, WholeListInv, ListInv,
     NoLostAllocation, AllocationListSound, TypeOK
<1>1. UNCHANGED <<ref, handles>>
  BY <1>0, CollectorMoveFrame
<1>2. pc[c] \notin PushLabel /\ pc'[c] \notin PushLabel
  BY <1>0, CollectorMoveIsNoCall
<1>3. \A x \in Objects : ~ InAllocate(x) /\ ~ InAllocate(x)'
  BY <1>2, WhoAllocates, WhoWillAllocate
<1>4. CASE mem' = mem
  BY <1>1, <1>3, <1>4, UnseenStep DEF Visible
<1>5. CASE SweepFree(c)
  <2> DEFINE o == local[c].current
  <2>1. pc[c] = "sweep_free" /\ mem' = [mem EXCEPT ![o] = "freed"]
    BY <1>5 DEF SweepFree, Goto
  <2>2. o \in InList /\ color[o] = "White" /\ o # Null
    BY <1>0, <2>1 DEF SweepsTheList, WalkLabel, HeapInv, SweepsByColor
  <2>3. o \in Objects /\ mem[o] = "live" /\ Visible(o)
    BY <1>0, <1>3, <2>2 DEF Live, Visible
  <2>4. o \in Unswept(c)
    <3>1. next \in [Objects -> Pointer]
      BY <1>0 DEF TypeOK
    <3>2. o \in Following(next, o)
      BY <2>3, <3>1, FollowingStep
    <3> QED
      BY <2>1, <2>3, <3>2 DEF Unswept, WalkLabel
  <2>5. o \notin Abstract!Reachable
    <3>1. o \notin Kept(c)
      BY <2>2, <2>4 DEF Kept
    <3> QED
      BY <3>1, AbstractReach
  <2>6. /\ mem'[o] = "freed"
        /\ \A x \in Objects \ {o} : /\ mem'[x] = mem[x]
                                    /\ Visible(x)' <=> Visible(x)
    BY <1>0, <1>3, <2>1, <2>3 DEF Visible
  <2>7. AbstractRef' = AbstractRef
    <3>1. \A x \in Objects : AbstractRef'[x] = AbstractRef[x]
      BY <1>1, <2>3, <2>6, WhatIsSeen, WhatWillBeSeen
    <3> QED
      BY <3>1, ViewsAreFunctions
  <2>8. AbstractMem' = [AbstractMem EXCEPT ![o] = "dropped"]
    <3>1. /\ AbstractMem'[o] = "dropped"
          /\ \A x \in Objects \ {o} : AbstractMem'[x] = AbstractMem[x]
      BY <2>3, <2>6, WhatIsSeen, WhatWillBeSeen
    <3> QED
      BY <2>3, <3>1, ViewsAreFunctions
  <2>9. AbstractMem[o] = "live"
    BY <2>3, WhatIsSeen
  <2>10. Abstract!Collect(o)
    BY <1>1, <2>3, <2>5, <2>7, <2>8, <2>9 DEF Abstract!Collect, Abstract!Live
  <2> QED
    BY <2>3, <2>10 DEF Abstract!Next
<1>6. mem' = mem \/ SweepFree(c)
  BY DEF CollectorMove, CycleStep, MarkStep, SweepStep, TryStartMarking,
     RootsLoadHead, RootsVisit, RootsMerge, MarkPop, MarkSteal, TraceField,
     MarkBlack, MarkNoWork, MarkBudgetSpent, BusyTest, StartSweeping,
     SweepLoadHead, SweepColor, SweepRoot, SweepKeep,
     SweepSubtract, FinishSweep, UpdateThreshold, FinishGc, ForceCollect,
     JoinBackgroundThread, BackgroundStep, BackgroundWait,
     BackgroundNotified, BackgroundTimeout, BackgroundCheck, BackgroundAbort
<1> QED
  BY <1>4, <1>5, <1>6

-----------------------------------------------------------------------------

(***************************************************************************)
(* allocate: the program sees the box when the call returns.               *)
(***************************************************************************)
LEMMA AllocateReturnRefines ==
  ASSUME NEW c \in Threads, RefinementInv(c), CycleInv(c)', AllocateReturn(c)
  PROVE  Abstract!Next
<1>0. /\ c \in Procs /\ TypeOK /\ CycleInv(c) /\ RootInv /\ KeptIsClosed(c)
      /\ ref \in [Objects -> [Fields -> Pointer]]
  BY DEF RefinementInv, CycleInv, BaseInv, QueueInv, BusyInv, HeapInv,
     WholeListInv, ListInv, TypeOK, Procs
<1>1. /\ pc[c] = "alloc_add" /\ pc'[c] = "ready"
      /\ handles' = [handles EXCEPT ![c][local[c].current] = 1]
      /\ UNCHANGED <<mem, ref>>
  BY <1>0, GotoMoves DEF AllocateReturn
<1>2. PICK o \in Objects : o = local[c].current
  BY <1>0, <1>1, PushedIsPrivate DEF PushLabel
<1>3. InAllocate(o) /\ \A x \in Objects \ {o} : ~ InAllocate(x)
  BY <1>0, <1>1, <1>2, WhoAllocates DEF PushLabel
<1>4. \A x \in Objects : ~ InAllocate(x)'
  BY <1>0, <1>1, WhoWillAllocate DEF PushLabel
<1>5. mem[o] = "live"
  <2>1. o \in Held
    BY <1>2, <1>3 DEF Held
  <2>2. mem[o] \in {"boxed", "live"}
    BY <1>0, <2>1 DEF KeptIsClosed, Kept, Boxes
  <2>3. Allocates(c) /\ OwnsItsObject(c)
    BY <1>0, <1>1 DEF RootInv, SeesPublished, PushLabel
  <2> QED
    BY <1>1, <1>2, <2>2, <2>3 DEF OwnsItsObject, AssistLabel, Published
<1>6. /\ ~ Visible(o) /\ Visible(o)'
      /\ \A x \in Objects \ {o} : Visible(x)' <=> Visible(x)
  BY <1>1, <1>3, <1>4, <1>5 DEF Visible
<1>7. AbstractMem[o] = "unborn" /\ AbstractMem' = [AbstractMem EXCEPT ![o] = "live"]
  <2>1. /\ AbstractMem[o] = "unborn" /\ AbstractMem'[o] = "live"
        /\ \A x \in Objects \ {o} : AbstractMem'[x] = AbstractMem[x]
    BY <1>1, <1>5, <1>6, WhatIsSeen, WhatWillBeSeen
  <2> QED
    BY <1>2, <2>1, ViewsAreFunctions
<1>8. AbstractRef' = [AbstractRef EXCEPT ![o] = ref[o]]
  <2>1. /\ AbstractRef'[o] = ref[o]
        /\ \A x \in Objects \ {o} : AbstractRef'[x] = AbstractRef[x]
    BY <1>1, <1>2, <1>6, WhatIsSeen, WhatWillBeSeen
  <2> QED
    BY <1>2, <2>1, ViewsAreFunctions
<1>9. ref[o] \in [Fields -> HeldBy(c) \cup {Null}]
  <2>1. \A f \in Fields : ref[o][f] \in HeldBy(c) \cup {Null}
    BY <1>1, <1>2 DEF RefinementInv, WritesReachable, PushLabel
  <2>2. ref[o] \in [Fields -> Pointer]
    BY <1>0, <1>2
  <2> QED
    BY <2>1, <2>2
<1>10. Abstract!Allocate(c, o)
  BY <1>1, <1>2, <1>7, <1>8, <1>9 DEF Abstract!Allocate, Abstract!HeldBy, HeldBy
<1> QED
  BY <1>2, <1>10 DEF Abstract!Next

(***************************************************************************)
(* Until then the program sees nothing of the box.                         *)
(***************************************************************************)
LEMMA AllocatingIsUnseen ==
  ASSUME NEW c \in Threads, RefinementInv(c), CycleInv(c)',
         \/ Allocate(c) \/ AllocateBox(c) \/ AllocateLoadHead(c)
         \/ AllocatePublish(c) \/ AllocateRetry(c)
  PROVE  UNCHANGED Abstract!vars
<1> DEFINE o == local[c].current
<1>0. /\ c \in Procs /\ TypeOK /\ CycleInv(c) /\ RootInv
      /\ mem \in [Objects -> Mem]
      /\ ref \in [Objects -> [Fields -> Pointer]]
  BY DEF RefinementInv, CycleInv, BaseInv, QueueInv, BusyInv, HeapInv,
     WholeListInv, ListInv, TypeOK, Procs
<1>1. CASE Allocate(c)
  <2>1. PICK x \in Objects : mem[x] = "unborn" /\ mem' = [mem EXCEPT ![x] = "reserved"]
    BY <1>1 DEF Allocate
  <2>2. /\ pc[c] = "ready" /\ pc'[c] \in {"busy_check", "alloc_box"}
        /\ UNCHANGED <<ref, handles>>
    <3>1. \/ Goto(c, "ready", "busy_check") \/ Goto(c, "ready", "alloc_box")
      BY <1>1 DEF Allocate
    <3>2. UNCHANGED <<ref, handles>>
      BY <1>1 DEF Allocate
    <3> QED
      BY <1>0, <3>1, <3>2, GotoMoves
  <2>3. \A y \in Objects : ~ InAllocate(y) /\ ~ InAllocate(y)'
    BY <1>0, <2>2, WhoAllocates, WhoWillAllocate DEF PushLabel
  <2>4. \A y \in Objects : /\ mem'[y] = "freed" <=> mem[y] = "freed"
                           /\ Visible(y)' <=> Visible(y)
    BY <1>0, <2>1, <2>3 DEF Visible
  <2> QED
    BY <2>2, <2>4, UnseenStep
<1>2. CASE \/ AllocateBox(c) \/ AllocateLoadHead(c) \/ AllocatePublish(c)
           \/ AllocateRetry(c)
  <2>1. /\ pc[c] \in {"alloc_box", "alloc_load", "alloc_cas"}
        /\ pc'[c] \in PushLabel /\ UNCHANGED <<handles, local>>
    BY <1>0, <1>2, GotoMoves DEF AllocateBox, AllocateLoadHead,
       AllocatePublish, AllocateRetry, PushLabel, Goto
  <2>2. o \in Objects /\ mem[o] \in {"reserved", "boxed"}
    <3>1. Allocates(c) /\ OwnsItsObject(c)
      BY <1>0, <2>1 DEF RootInv, SeesPublished, PushLabel
    <3> QED
      BY <2>1, <3>1 DEF OwnsItsObject
  <2>3. /\ mem'[o] \in {"reserved", "boxed", "live"}
        /\ \A y \in Objects \ {o} : mem'[y] = mem[y] /\ ref'[y] = ref[y]
    <3>1. CASE AllocateBox(c)
      <4>1. PICK d \in InitialData(c, o) : ref' = [ref EXCEPT ![o] = d]
        BY <3>1 DEF AllocateBox
      <4>2. mem' = [mem EXCEPT ![o] = "boxed"]
        BY <3>1 DEF AllocateBox
      <4> QED
        BY <1>0, <2>2, <4>1, <4>2
    <3>2. CASE AllocatePublish(c)
      BY <1>0, <2>2, <3>2 DEF AllocatePublish
    <3>3. CASE AllocateLoadHead(c) \/ AllocateRetry(c)
      BY <2>2, <3>3 DEF AllocateLoadHead, AllocateRetry
    <3> QED
      BY <1>2, <3>1, <3>2, <3>3
  <2>4. /\ ~ Visible(o) /\ ~ Visible(o)'
        /\ \A y \in Objects \ {o} : ~ InAllocate(y) /\ ~ InAllocate(y)'
    <3>1. \A y \in Objects \ {o} : ~ InAllocate(y)
      BY <1>0, WhoAllocates
    <3>2. \A y \in Objects : InAllocate(y)' <=> y = o
      BY <1>0, <2>1, WhoWillAllocate
    <3> QED
      BY <2>1, <2>2, <3>1, <3>2 DEF Visible
  <2>5. \A y \in Objects : /\ mem'[y] = "freed" <=> mem[y] = "freed"
                           /\ Visible(y)' <=> Visible(y)
                           /\ mem[y] = "freed" \/ Visible(y) => ref'[y] = ref[y]
    <3>1. PICK x \in Objects : x = o
      BY <2>2
    <3>2. mem[x] # "freed" /\ mem'[x] # "freed" /\ ~ Visible(x)
      BY <2>2, <2>3, <2>4, <3>1
    <3>3. ~ Visible(x)'
      BY <2>1, <2>4, <3>1
    <3>4. \A y \in Objects \ {x} : Visible(y)' <=> Visible(y)
      BY <2>3, <2>4, <3>1 DEF Visible
    <3> QED
      BY <2>3, <3>1, <3>2, <3>3, <3>4
  <2> QED
    BY <2>1, <2>5, UnseenStep
<1> QED
  BY <1>1, <1>2

(***************************************************************************)
(* Every step of a call of the collecting thread.                          *)
(***************************************************************************)
LEMMA OwnCallRefines ==
  ASSUME NEW c \in Threads, LeafMutators(c), RefinementInv(c), CycleInv(c)',
         MutatorCall(c) \/ MutatorStep(c)
  PROVE  [Abstract!Next]_(Abstract!vars)
<1> DEFINE l == local[c]
<1>0. /\ c \in Procs /\ TypeOK /\ TypeOK' /\ CycleInv(c) /\ ControlInv(c)
      /\ BaseInv(c) /\ ListClosed(InList) /\ pc \in [Procs -> Label]
  BY InListIsLeast
  DEF RefinementInv, CycleInv, BaseInv, QueueInv, BusyInv, TypeOK, Procs
<1>1. InList' = InList \/ AllocatePublish(c)
  BY <1>0, OwnListStep
<1>2. /\ pc[c] \in CallLabel /\ pc'[c] \in CallLabel
      /\ ~ CellShade(c) /\ ~ CellMergeWork(c)
  BY <1>0, <1>1, OwnCallKeepsControl
<1>3. ASSUME pc[c] \notin PushLabel, pc'[c] \notin PushLabel, mem' = mem
      PROVE  \A x \in Objects : Visible(x)' <=> Visible(x)
  BY <1>0, <1>3, WhoAllocates, WhoWillAllocate DEF Visible
<1>4. CASE \/ Allocate(c) \/ AllocateBox(c) \/ AllocateLoadHead(c)
           \/ AllocatePublish(c) \/ AllocateRetry(c)
  BY <1>4, AllocatingIsUnseen
<1>5. CASE AllocateReturn(c)
  BY <1>5, AllocateReturnRefines
<1>6. CASE CloneRoot(c) \/ DropRoot(c) \/ CellStore(c) \/ RootPointer(c)
  <2>1. /\ pc[c] \in {"ready", "store", "rooting"} /\ pc'[c] = "ready"
        /\ mem' = mem
    BY <1>0, <1>6, GotoMoves DEF CloneRoot, DropRoot, CellStore, RootPointer,
       Goto
  <2>2. \A x \in Objects : Visible(x)' <=> Visible(x)
    BY <1>3, <2>1 DEF PushLabel
  <2>3. CASE CloneRoot(c)
    <3>1. PICK o \in HeldBy(c), u \in Threads :
            handles' = [handles EXCEPT ![u][o] = @ + 1]
      BY <2>3 DEF CloneRoot
    <3>2. o \in Objects /\ o \in Abstract!Reachable
      BY <1>0, AbstractReach DEF HeldBy
    <3> QED
      BY <2>2, <2>3, <3>1, <3>2, RootRefines DEF CloneRoot
  <2>4. CASE DropRoot(c)
    <3>1. PICK o \in HeldBy(c) : handles' = [handles EXCEPT ![c][o] = @ - 1]
      BY <2>4 DEF DropRoot
    <3> QED
      BY <2>2, <2>4, <3>1, DropRefines DEF DropRoot
  <2>5. CASE RootPointer(c)
    <3>1. /\ l.value \in Reachable /\ UNCHANGED <<mem, ref>>
          /\ handles' = [handles EXCEPT ![c][l.value] = @ + 1]
          /\ pc[c] = "rooting"
      BY <2>5 DEF RootPointer, Goto
    <3>2. l.value \in Objects /\ l.value \in Abstract!Reachable
      BY <1>0, <3>1, AbstractReach DEF Reachable, PushLabel
    <3> QED
      BY <2>2, <3>1, <3>2, RootRefines
  <2>6. CASE CellStore(c)
    <3> DEFINE o == l.current
               f == l.field
               v == l.value
    <3>1. /\ pc[c] = "store" /\ UNCHANGED <<mem, handles>>
          /\ ref' = [ref EXCEPT ![o][f] = v]
      BY <2>6 DEF CellStore, Goto
    <3>2. l.op = "set" /\ o \in HeldBy(c) /\ f \in Fields
      BY <1>0, <3>1 DEF ControlInv, OwnCalls, SetLabel
    <3>3. v \in HeldBy(c) \cup {Null} \/ v \in InCells(c)
      BY <3>1, <3>2 DEF RefinementInv, WritesReachable, SetLabel
    <3>4. Visible(o) /\ v \in Abstract!Reachable \cup {Null}
      BY <1>0, <3>2, <3>3, HeldIsVisible, AbstractReach
    <3> HIDE DEF o, f, v
    <3> QED
      BY <1>0, <2>2, <3>1, <3>2, <3>4, StoreRefines
  <2> QED
    BY <1>6, <2>3, <2>4, <2>5, <2>6
<1>7. CASE \/ CellSet(c) \/ CellGet(c) \/ CountLoadHead(c) \/ BusyCheck(c)
           \/ DecrementBusyMarking(c) \/ ForgetPointer(c) \/ CountNode(c)
  <2>1. /\ UNCHANGED <<mem, ref, handles>>
        /\ pc[c] \in {"ready", "busy_check", "busy_dec", "rooting", "count"}
    BY <1>7 DEF CellSet, CellGet, CountLoadHead, BusyCheck,
       DecrementBusyMarking, ForgetPointer, CountNode, Goto
  <2>2. pc'[c] \notin PushLabel
    <3>1. CASE DecrementBusyMarking(c)
      BY <1>0, <3>1, GotoMoves
      DEF DecrementBusyMarking, AfterBusy, PushLabel
    <3>2. CASE CellSet(c) \/ CellGet(c) \/ CountLoadHead(c)
      <4>1. \/ Goto(c, "ready", "busy_check") \/ Goto(c, "ready", "rooting")
            \/ Goto(c, "ready", "count")
        BY <3>2 DEF CellSet, CellGet, CountLoadHead
      <4> QED
        BY <1>0, <4>1, GotoMoves DEF PushLabel
    <3>4. CASE BusyCheck(c)
      BY <1>0, <3>4 DEF BusyCheck, PushLabel
    <3>3. CASE ForgetPointer(c) \/ CountNode(c)
      BY <1>0, <3>3, GotoMoves DEF ForgetPointer, CountNode, PushLabel
    <3> QED
      BY <1>7, <3>1, <3>2, <3>3, <3>4
  <2>3. \A x \in Objects : Visible(x)' <=> Visible(x)
    BY <1>3, <2>1, <2>2 DEF PushLabel
  <2> QED
    BY <2>1, <2>3, UnseenStep
<1> QED
  BY <1>2, <1>4, <1>5, <1>6, <1>7 DEF MutatorCall, MutatorStep

-----------------------------------------------------------------------------

(***************************************************************************)
(* The heap the program starts with is one the promise starts from.        *)
(***************************************************************************)
LEMMA InitRefines == Init => Abstract!Init
<1> SUFFICES ASSUME Init PROVE Abstract!Init
  OBVIOUS
<1>0. /\ handles \in [Threads -> [Objects -> Nat]]
      /\ ref \in [Objects -> [Fields -> Pointer]]
  BY InitTypeOK DEF TypeOK
<1>1. /\ \A o \in Objects : mem[o] = "live" <=> o \in BuiltObjects
      /\ \A o \in Objects : mem[o] # "freed"
  BY DEF Init
<1>2. \A o \in Objects : ~ InAllocate(o)
  BY DEF Init, InAllocate, Procs
<1>3. \A o \in Objects : Visible(o) <=> o \in BuiltObjects
  BY <1>1, <1>2 DEF Visible
<1>4. \A o \in Objects :
        AbstractMem[o] = IF o \in BuiltObjects THEN "live" ELSE "unborn"
  BY <1>1, <1>3, WhatIsSeen
<1>5. AbstractRef = ref
  <2>1. \A o \in Objects : AbstractRef[o] = ref[o]
    BY <1>1, <1>3, WhatIsSeen DEF Init
  <2> QED
    BY <1>0, <2>1, ViewsAreFunctions
<1>6. Abstract!Live = BuiltObjects \cap Objects
  BY <1>4 DEF Abstract!Live
<1>7. Abstract!TypeOK
  <2>1. AbstractMem \in [Objects -> {"unborn", "live", "dropped"}]
    BY <1>4, ViewsAreFunctions
  <2> QED
    BY <1>0, <1>5, <2>1 DEF Abstract!TypeOK, Pointer
<1>8. Abstract!Held \subseteq Abstract!Live
  <2>1. \A t \in Threads : HeldBy(t) \subseteq BuiltObjects
    BY HeapAssumption DEF Init, HeldBy
  <2> QED
    BY <1>6, <2>1 DEF Abstract!Held, HeldBy
<1>9. \A o \in Objects : Abstract!Successors(o) \subseteq Abstract!Live
  <2>1. \A o \in Objects, f \in Fields : ref[o][f] \in BuiltObjects \cup {Null}
    BY DEF Init
  <2>2. \A o \in Objects, f \in Fields : ref[o][f] \in Objects \cup {Null}
    BY <1>0 DEF Pointer
  <2> QED
    BY <1>5, <1>6, <2>1, <2>2 DEF Abstract!Successors
<1>10. \A o \in Objects : AbstractMem[o] # "dropped"
  BY <1>4
<1> QED
  BY <1>7, <1>8, <1>9, <1>10 DEF Abstract!Init

(***************************************************************************)
(* The invariant of the refinement holds initially.                        *)
(***************************************************************************)
LEMMA InitRefinementInv ==
  ASSUME NEW c \in Procs, LeafMutators(c), Init
  PROVE  RefinementInv(c)
<1>1. c \in Threads => pc[c] = "ready"
  BY DEF Init, Procs
<1>2. WritesReachable(c)
  BY <1>1 DEF WritesReachable, PushLabel, SetLabel
<1> QED
  BY <1>2, InitCycleInv DEF RefinementInv

(***************************************************************************)
(* Every step of the program keeps it.                                     *)
(***************************************************************************)
LEMMA NextRefinementInv ==
  ASSUME NEW c \in Procs, LeafMutators(c), CopiesAlone(c), RefinementInv(c),
         [Next]_vars
  PROVE  RefinementInv(c)'
<1>0. /\ CycleInv(c) /\ CycleInv(c)' /\ TypeOK /\ TypeOK' /\ ControlInv(c)
  BY NextCycleInv DEF RefinementInv, CycleInv, BaseInv, QueueInv, BusyInv
<1>1. CASE \E t \in Threads \ {c} : LeafMove(t)
  BY <1>0, <1>1, LeafMoveWritesReachable DEF RefinementInv
<1>2. CASE c \in Threads /\ (MutatorCall(c) \/ MutatorStep(c))
  BY <1>0, <1>2, OwnCallWritesReachable DEF RefinementInv
<1>3. CASE CollectorMove(c)
  BY <1>0, <1>3, CollectorMoveIsNoCall DEF RefinementInv, WritesReachable
<1>4. CASE UNCHANGED vars
  <2>1. HeldBy(c)' = HeldBy(c) /\ InCells(c)' = InCells(c)
    BY <1>4 DEF vars, HeldBy, InCells, Successors
  <2> QED
    BY <1>0, <1>4, <2>1 DEF vars, RefinementInv, WritesReachable
<1> QED
  BY <1>0, <1>1, <1>2, <1>3, <1>4, StepsOfTheProgram

(***************************************************************************)
(* Every step of the program is a step of the promise, or none.            *)
(***************************************************************************)
LEMMA NextRefines ==
  ASSUME NEW c \in Procs, LeafMutators(c), CopiesAlone(c), RefinementInv(c),
         [Next]_vars
  PROVE  [Abstract!Next]_(Abstract!vars)
<1>0. /\ CycleInv(c) /\ CycleInv(c)' /\ TypeOK /\ ControlInv(c)
  BY NextRefinementInv DEF RefinementInv, CycleInv, BaseInv, QueueInv, BusyInv
<1>1. CASE \E t \in Threads \ {c} : LeafMove(t)
  BY <1>0, <1>1, LeafMoveRefines
<1>2. CASE c \in Threads /\ (MutatorCall(c) \/ MutatorStep(c))
  BY <1>0, <1>2, OwnCallRefines
<1>3. CASE CollectorMove(c)
  BY <1>0, <1>3, CollectorMoveRefines
<1>4. CASE UNCHANGED vars
  <2>1. \A o \in Objects : Visible(o)' <=> Visible(o)
    BY <1>4 DEF vars, Visible, InAllocate
  <2> QED
    BY <1>4, <2>1, UnseenStep DEF vars
<1> QED
  BY <1>0, <1>1, <1>2, <1>3, <1>4, StepsOfTheProgram

(***************************************************************************)
(* One thread collects, allocates and links, the others store leaves, and  *)
(* no thread copies from cell to cell while another writes: then the       *)
(* collector implements the abstract heap.  The sweep drops only what is   *)
(* out of reach at that moment, and every call of the program is one step  *)
(* of the promise.                                                         *)
(***************************************************************************)
THEOREM HeapImplementsPromise ==
  ASSUME NEW c \in Procs, LeafMutators(c), CopiesAlone(c)
  PROVE  Spec => ImplementsAbstractHeap
<1>1. Init => RefinementInv(c) /\ Abstract!Init
  BY InitRefinementInv, InitRefines
<1>2. RefinementInv(c) /\ [Next]_vars => RefinementInv(c)'
  BY NextRefinementInv
<1>3. RefinementInv(c) /\ [Next]_vars => [Abstract!Next]_(Abstract!vars)
  BY NextRefines
<1> QED
  BY <1>1, <1>2, <1>3, PTL DEF Spec, ImplementsAbstractHeap, Abstract!Spec

-----------------------------------------------------------------------------

(***************************************************************************)
(* A box somebody has a GcRoot of, or is about to be given one by          *)
(* allocate, has not been dropped, whatever else becomes of the heap.      *)
(***************************************************************************)
HeldIsNotDropped == \A o \in Held : mem[o] # "freed"

(***************************************************************************)
(* do_sweep looks at the root count some steps before it drops the box;    *)
(* nobody can come to hold the box meanwhile, for a clone takes a GcRoot.  *)
(* Only GcPtr::root makes one out of nothing.                              *)
(***************************************************************************)
FreesUnheld(c) == pc[c] = "sweep_free" => local[c].current \notin Held

NobodyRoots == \A t \in Threads : pc[t] # "rooting"

HoldInv(c) == /\ ListInv(c) /\ NobodyRoots
              /\ HeldIsNotDropped /\ FreesUnheld(c)

(***************************************************************************)
(* A step that hands out no GcRoot, takes none back and drops no box.      *)
(***************************************************************************)
Unseen == /\ handles' = handles
          /\ \A o \in Objects : /\ mem'[o] = "freed" <=> mem[o] = "freed"
                                /\ Visible(o)' <=> Visible(o)
                                /\ InAllocate(o)' /\ o \in Published
                                     => InAllocate(o)

(***************************************************************************)
(* A step that changes no box and leaves the threads that push as they are *)
(* is such a step.                                                         *)
(***************************************************************************)
LEMMA NoPushIsUnseen ==
  ASSUME UNCHANGED <<handles, mem>>,
         \A t \in Threads :
           /\ pc'[t] \in PushLabel <=> pc[t] \in PushLabel
           /\ pc[t] \in PushLabel => local'[t].current = local[t].current
  PROVE  Unseen
<1>1. \A o \in Objects : InAllocate(o)' <=> InAllocate(o)
  BY SameInAllocate
<1> QED
  BY <1>1 DEF Unseen, Visible

(***************************************************************************)
(* The steps that write no box.                                            *)
(***************************************************************************)
LEMMA QuietIsUnseen ==
  ASSUME RootInv, NEW p \in Procs, QuietMove(p)
  PROVE  Unseen
<1>0. Threads \subseteq Procs /\ UNCHANGED <<handles, mem>>
  BY DEF Procs, QuietMove, Frame
<1> SUFFICES ASSUME NEW t \in Threads
             PROVE  /\ pc'[t] \in PushLabel <=> pc[t] \in PushLabel
                    /\ pc[t] \in PushLabel =>
                         local'[t].current = local[t].current
  BY <1>0, NoPushIsUnseen
<1>1. CASE t # p
  BY <1>0, <1>1 DEF QuietMove, Others
<1>2. CASE t = p /\ AllocateGoesOn(p)
  BY <1>2 DEF AllocateGoesOn, SameWalk, PushLabel, AssistLabel
<1>3. CASE t = p /\ WalkGoesOn(p)
  <2>1. pc[p] \notin PushLabel
    BY <1>3 DEF WalkGoesOn, RootInv, SeesPublished
  <2> QED
    BY <1>3, <2>1 DEF WalkGoesOn
<1> QED
  BY <1>1, <1>2, <1>3 DEF QuietMove

(***************************************************************************)
(* The steps of allocate before it returns.                                *)
(***************************************************************************)
LEMMA PushIsUnseen ==
  ASSUME RootInv, NEW t \in Threads,
         \/ Allocate(t) \/ AllocateBox(t) \/ AllocateLoadHead(t)
         \/ AllocatePublish(t)
  PROVE  Unseen
<1>0. /\ t \in Procs /\ TypeOK /\ Threads \subseteq Procs
      /\ mem \in [Objects -> Mem] /\ handles' = handles
  BY DEF Procs, RootInv, TypeOK, Allocate, AllocateBox, AllocateLoadHead,
     AllocatePublish
<1>1. \A u \in Threads \ {t} : pc'[u] = pc[u] /\ local'[u] = local[u]
  BY <1>0, MutatorCallCounts, MutatorStepCounts
  DEF BusyStep, Others, MutatorCall, MutatorStep
<1>2. CASE Allocate(t)
  <2>1. PICK o \in Objects :
          mem[o] = "unborn" /\ mem' = [mem EXCEPT ![o] = "reserved"]
    BY <1>2 DEF Allocate
  <2>2. pc[t] = "ready" /\ pc'[t] \in {"busy_check", "alloc_box"}
    BY <1>0, <1>2, GotoMoves DEF Allocate
  <2>3. \A x \in Objects : InAllocate(x)' <=> InAllocate(x)
    BY <1>1, <2>2, SameInAllocate DEF PushLabel
  <2> QED
    BY <1>0, <2>1, <2>3 DEF Unseen, Visible
<1>3. CASE AllocateLoadHead(t)
  <2>1. /\ pc[t] = "alloc_load" /\ pc'[t] = "alloc_cas"
        /\ UNCHANGED <<mem, local>>
    BY <1>0, <1>3, GotoMoves DEF AllocateLoadHead
  <2> QED
    BY <1>0, <1>1, <2>1, NoPushIsUnseen DEF PushLabel
<1>4. CASE AllocateBox(t)
  <2>1. /\ pc[t] = "alloc_box" /\ pc'[t] = "alloc_load" /\ local' = local
        /\ mem' = [mem EXCEPT ![local[t].current] = "boxed"]
    BY <1>0, <1>4, GotoMoves DEF AllocateBox
  <2>2. PICK o \in Objects : o = local[t].current /\ mem[o] = "reserved"
    BY <1>0, <2>1 DEF RootInv, SeesPublished, OwnsItsObject, PushLabel
  <2>3. \A x \in Objects \ {o} : InAllocate(x)' <=> InAllocate(x)
    BY <1>1, <2>1, <2>2 DEF InAllocate
  <2>4. /\ mem'[o] = "boxed" /\ o \notin Published
        /\ \A x \in Objects \ {o} : mem'[x] = mem[x]
    BY <1>0, <2>1, <2>2 DEF Published
  <2> QED
    BY <1>0, <2>2, <2>3, <2>4 DEF Unseen, Visible
<1>5. CASE AllocatePublish(t)
  <2>1. /\ pc[t] = "alloc_cas" /\ pc'[t] = "alloc_add" /\ local' = local
        /\ mem' = [mem EXCEPT ![local[t].current] = "live"]
    BY <1>0, <1>5, GotoMoves DEF AllocatePublish
  <2>2. PICK o \in Objects : o = local[t].current /\ mem[o] = "boxed"
    BY <1>0, <2>1 DEF RootInv, SeesPublished, OwnsItsObject, PushLabel,
       AssistLabel
  <2>3. \A x \in Objects : InAllocate(x)' <=> InAllocate(x)
    BY <1>1, <2>1, SameInAllocate DEF PushLabel
  <2>4. InAllocate(o)
    BY <2>1, <2>2 DEF InAllocate
  <2>5. mem'[o] = "live" /\ \A x \in Objects \ {o} : mem'[x] = mem[x]
    BY <1>0, <2>1, <2>2
  <2> QED
    BY <1>0, <2>2, <2>3, <2>4, <2>5 DEF Unseen, Visible
<1> QED
  BY <1>2, <1>3, <1>4, <1>5

(***************************************************************************)
(* The steps the program sees: allocate returns, a GcRoot is cloned,       *)
(* dropped or made of a pointer, a cell is written, a box is dropped.      *)
(***************************************************************************)
Seen == \/ \E t \in Threads : \/ AllocateReturn(t) \/ CloneRoot(t)
                              \/ DropRoot(t) \/ RootPointer(t)
        \/ \E p \in Procs : SweepFree(p)

(***************************************************************************)
(* A pointer stored in a cell changes no GcRoot.                           *)
(***************************************************************************)
LEMMA StoreIsUnseen ==
  ASSUME RootInv, NEW t \in Threads, CellStore(t)
  PROVE  Unseen
<1>0. t \in Procs /\ TypeOK /\ Threads \subseteq Procs
  BY DEF Procs, RootInv
<1>1. /\ pc[t] = "store" /\ pc'[t] = "ready" /\ UNCHANGED <<handles, mem>>
      /\ \A u \in Threads \ {t} : pc'[u] = pc[u] /\ local'[u] = local[u]
  BY <1>0, GotoMoves, SetLocalMoves DEF CellStore
<1> QED
  BY <1>1, NoPushIsUnseen DEF PushLabel

(***************************************************************************)
(* Nor does starting a background thread.                                  *)
(***************************************************************************)
LEMMA StartIsUnseen ==
  ASSUME RootInv, NEW t \in Threads, StartBackgroundCollection(t)
  PROVE  Unseen
<1>1. /\ UNCHANGED <<handles, mem, local>>
      /\ \E b \in Background : pc' = [pc EXCEPT ![b] = "bg_enter"]
  BY DEF StartBackgroundCollection
<1>2. \A u \in Threads : pc'[u] = pc[u]
  BY <1>1, HeapAssumption DEF RootInv, TypeOK, Procs
<1> QED
  BY <1>1, <1>2, NoPushIsUnseen

(***************************************************************************)
(* Every other step is not seen.                                           *)
(***************************************************************************)
LEMMA SeenOrUnseen ==
  ASSUME RootInv, [Next]_vars
  PROVE  Seen \/ Unseen
<1> SUFFICES ASSUME ~ Seen PROVE Unseen
  OBVIOUS
<1>1. ASSUME NEW p \in Procs, CycleStep(p) PROVE Unseen
  <2>1. CASE MarkStep(p)
    BY <2>1, MarkStepIsQuiet, QuietIsUnseen
  <2>2. CASE ~ MarkStep(p)
    BY <1>1, <2>2, ScanStepIsQuiet, QuietIsUnseen
    DEF CycleStep, SweepStep, Seen
  <2> QED
    BY <2>1, <2>2
<1>2. ASSUME NEW t \in Threads,
             MutatorCall(t) \/ CollectorCall(t) \/ ThreadStep(t)
      PROVE  Unseen
  <2>1. t \in Procs
    BY DEF Procs
  <2>2. CASE MutatorCall(t)
    BY <2>1, <2>2, MutatorCallIsQuiet, QuietIsUnseen, PushIsUnseen
    DEF MutatorCall, Seen
  <2>3. CASE MutatorStep(t)
    BY <2>1, <2>3, MutatorStepIsQuiet, QuietIsUnseen, PushIsUnseen,
       StoreIsUnseen DEF MutatorStep, Seen
  <2>4. CASE StartBackgroundCollection(t)
    BY <2>4, StartIsUnseen
  <2>5. CASE \/ ForceCollect(t) \/ StopBackgroundCollection(t)
             \/ JoinBackgroundThread(t)
    BY <2>1, <2>5, ControlStepIsQuiet, QuietIsUnseen
  <2> QED
    BY <1>1, <1>2, <2>1, <2>2, <2>3, <2>4, <2>5 DEF CollectorCall, ThreadStep
<1>3. ASSUME NEW b \in Background, BackgroundThread(b) PROVE Unseen
  <2>1. b \in Procs
    BY DEF Procs
  <2> QED
    BY <1>1, <1>3, <2>1, ControlStepIsQuiet, QuietIsUnseen
    DEF BackgroundThread
<1>4. CASE UNCHANGED vars
  BY <1>4, NoPushIsUnseen DEF vars
<1> QED
  BY <1>2, <1>3, <1>4 DEF Next

(***************************************************************************)
(* Without GcPtr::root no thread comes to where it roots a pointer.        *)
(***************************************************************************)
LEMMA NobodyRootsStays ==
  ASSUME TypeOK, NobodyRoots, \A t \in Threads : "root" \notin Calls[t],
         [Next]_vars
  PROVE  NobodyRoots'
<1> USE DEF NobodyRoots
<1>0. /\ Threads \subseteq Procs /\ Background \subseteq Procs
      /\ pc \in [Procs -> Label]
  BY DEF Procs, TypeOK
<1>1. ASSUME NEW p \in Procs, NEW to, to # "rooting", pc' = [pc EXCEPT ![p] = to]
      PROVE  NobodyRoots'
  BY <1>0, <1>1
<1>2. pc' = pc => NobodyRoots'
  OBVIOUS
<1>3. ASSUME NEW p \in Procs, CycleStep(p) PROVE NobodyRoots'
  <2>1. CASE MarkStep(p)
    <3>1. AfterMarking(p) # "rooting"
      BY DEF AfterMarking
    <3> QED
      BY <1>1, <1>2, <2>1, <3>1 DEF MarkStep, MarkPop, MarkSteal, TraceField,
         MarkBlack, MarkNoWork, MarkBudgetSpent, Goto
  <2>2. CASE SweepStep(p)
    BY <1>1, <1>2, <2>2 DEF SweepStep, StartSweeping, SweepLoadHead,
       SweepColor, SweepRoot, SweepKeep, SweepFree, SweepSubtract,
       FinishSweep, UpdateThreshold, FinishGc, CollectorHome, Goto
  <2>3. CASE \/ TryStartMarking(p) \/ RootsLoadHead(p) \/ RootsVisit(p)
             \/ RootsMerge(p) \/ BusyTest(p)
    BY <1>1, <1>2, <2>3 DEF TryStartMarking, RootsLoadHead, RootsVisit,
       RootsMerge, BusyTest, CollectorHome, Goto
  <2> QED
    BY <1>3, <2>1, <2>2, <2>3 DEF CycleStep
<1>4. ASSUME NEW t \in Threads, MutatorCall(t) PROVE NobodyRoots'
  BY <1>0, <1>1, <1>2, <1>4 DEF MutatorCall, Allocate, CloneRoot, DropRoot,
     CellSet, CellGet, CountLoadHead, Goto
<1>5. ASSUME NEW t \in Threads, MutatorStep(t) PROVE NobodyRoots'
  BY <1>0, <1>1, <1>2, <1>5 DEF MutatorStep, BusyCheck,
     DecrementBusyMarking, AfterBusy, AllocateBox, AllocateLoadHead,
     AllocatePublish, AllocateRetry, AllocateReturn, CellShade,
     CellMergeWork, CellStore, RootPointer, ForgetPointer, CountNode, Goto
<1>6. ASSUME NEW t \in Threads, CollectorCall(t) \/ JoinBackgroundThread(t)
      PROVE  NobodyRoots'
  BY <1>0, <1>1, <1>6 DEF CollectorCall, ForceCollect,
     StartBackgroundCollection, StopBackgroundCollection,
     JoinBackgroundThread, Goto
<1>7. ASSUME NEW b \in Background, BackgroundStep(b) PROVE NobodyRoots'
  BY <1>0, <1>1, <1>7 DEF BackgroundStep, BackgroundWait, BackgroundNotified,
     BackgroundTimeout, BackgroundCheck, BackgroundAbort, Goto
<1>8. UNCHANGED vars => NobodyRoots'
  BY DEF vars
<1> QED
  BY <1>0, <1>3, <1>4, <1>5, <1>6, <1>7, <1>8
  DEF Next, ThreadStep, BackgroundThread

(***************************************************************************)
(* No step makes a published box held that nobody held.                    *)
(***************************************************************************)
LEMMA NobodyComesToHold ==
  ASSUME RootInv, NobodyRoots, [Next]_vars, NEW o \in Published, o \in Held'
  PROVE  o \in Held
<1>0. TypeOK /\ Threads \subseteq Procs /\ o \in Objects
      /\ handles \in [Threads -> [Objects -> 0..MaxHandles]]
  BY DEF RootInv, Procs, Published, TypeOK
<1>1. CASE Unseen
  BY <1>0, <1>1 DEF Unseen, Held
<1>2. CASE \E p \in Procs : SweepFree(p)
  <2>1. PICK p \in Procs : SweepFree(p)
    BY <1>2
  <2>2. /\ pc[p] = "sweep_free" /\ pc'[p] = "sweep" /\ handles' = handles
        /\ \A u \in Threads \ {p} : pc'[u] = pc[u] /\ local'[u] = local[u]
    BY <1>0, <2>1, GotoMoves, SetLocalMoves DEF SweepFree
  <2>3. InAllocate(o)' <=> InAllocate(o)
    BY <1>0, <2>2, SameInAllocate DEF PushLabel
  <2> QED
    BY <2>2, <2>3 DEF Held
<1>3. ASSUME NEW t \in Threads, AllocateReturn(t) PROVE o \in Held
  <2>1. /\ pc[t] = "alloc_add" /\ pc'[t] = "ready"
        /\ handles' = [handles EXCEPT ![t][local[t].current] = 1]
        /\ \A u \in Threads \ {t} : pc'[u] = pc[u] /\ local'[u] = local[u]
    BY <1>0, <1>3, GotoMoves, SetLocalMoves DEF AllocateReturn
  <2>2. InAllocate(o)' => InAllocate(o)
    BY <2>1 DEF InAllocate
  <2>3. ASSUME NEW u \in Threads, handles'[u][o] > 0
        PROVE  handles[u][o] > 0 \/ o = local[t].current
    BY <1>0, <2>1, <2>3
  <2>4. o = local[t].current => InAllocate(o)
    BY <2>1 DEF InAllocate
  <2> QED
    BY <1>0, <2>2, <2>3, <2>4 DEF Held
<1>4. ASSUME NEW t \in Threads, CloneRoot(t) PROVE o \in Held
  <2>1. PICK x \in HeldBy(t), u \in Threads :
          handles' = [handles EXCEPT ![u][x] = @ + 1]
    BY <1>4 DEF CloneRoot
  <2>2. InAllocate(o)' => InAllocate(o)
    BY <1>4 DEF CloneRoot, InAllocate
  <2>3. x \in Objects /\ x \in Held
    BY DEF HeldBy, Held
  <2>4. ASSUME NEW w \in Threads, handles'[w][o] > 0
        PROVE  handles[w][o] > 0 \/ o = x
    BY <1>0, <2>1, <2>3, <2>4
  <2> QED
    BY <1>0, <2>2, <2>3, <2>4 DEF Held
<1>5. ASSUME NEW t \in Threads, DropRoot(t) PROVE o \in Held
  <2>1. PICK x \in HeldBy(t) : handles' = [handles EXCEPT ![t][x] = @ - 1]
    BY <1>5 DEF DropRoot
  <2>2. InAllocate(o)' => InAllocate(o)
    BY <1>5 DEF DropRoot, InAllocate
  <2>3. x \in Objects /\ handles[t][x] > 0 /\ MaxHandles \in Nat
    BY HeapAssumption DEF HeldBy
  <2>4. ASSUME NEW w \in Threads, handles'[w][o] > 0
        PROVE  handles[w][o] > 0
    BY <1>0, <2>1, <2>3, <2>4
  <2> QED
    BY <1>0, <2>2, <2>4 DEF Held
<1>6. ASSUME NEW t \in Threads, RootPointer(t) PROVE o \in Held
  BY <1>6 DEF RootPointer, Goto, NobodyRoots
<1> QED
  BY <1>1, <1>2, <1>3, <1>4, <1>5, <1>6, SeenOrUnseen DEF Seen

(***************************************************************************)
(* The collector comes to the drop of a box by looking at its root count,  *)
(* and waits there while others run.                                       *)
(***************************************************************************)
LEMMA HowItComesToFree ==
  ASSUME NEW c \in Procs, SoleCollector(c), ListInv(c), [Next]_vars,
         pc'[c] = "sweep_free"
  PROVE  \/ SweepRoot(c)
         \/ pc[c] = "sweep_free" /\ local'[c] = local[c]
<1>0. TypeOK /\ BusyInv
  BY DEF ListInv, RootInv
<1>1. OffSweep(c) => pc'[c] # "sweep_free"
  BY DEF OffSweep, SweepLabel
<1>2. ASSUME CycleStep(c) \/ ForceCollect(c) \/ BackgroundStep(c)
      PROVE  SweepRoot(c)
  <2>1. ~ SweepRoot(c) /\ SweepStep(c) => pc'[c] # "sweep_free"
    BY <1>0, GotoMoves DEF SweepStep, StartSweeping, SweepLoadHead,
       SweepColor, SweepKeep, SweepFree, SweepSubtract, FinishSweep,
       UpdateThreshold, FinishGc, CollectorHome
  <2> QED
    BY <1>0, <1>1, <1>2, <2>1, MarkStepIsOffSweep, CollectorIsOffSweep
    DEF CycleStep
<1>3. ASSUME NEW t \in Threads, StartBackgroundCollection(t)
      PROVE  pc[c] = "sweep_free" /\ local'[c] = local[c]
  <2>1. local' = local /\ \E b \in Background : pc' = [pc EXCEPT ![b] = "bg_enter"]
    BY <1>3 DEF StartBackgroundCollection
  <2> QED
    BY <1>0, <2>1 DEF TypeOK, Procs
<1>4. ASSUME NEW t \in Threads, MutatorMove(t)
      PROVE  pc[c] = "sweep_free" /\ local'[c] = local[c]
  <2>1. t # c
    BY <1>0, <1>1, <1>4, MutatorMoveIsOffSweep
  <2>2. t \in Procs /\ MarksAsCollector(t)
    BY <1>0 DEF Procs, BusyInv
  <2>3. Others(t)
    BY <1>0, <1>4, <2>2, MutatorCallCounts, MutatorStepCounts,
       MarkStepCounts, ControlStepCounts DEF MutatorMove, BusyStep
  <2> QED
    BY <2>1, <2>3 DEF Others
<1>5. ASSUME NEW t \in Threads \ {c},
             MutatorCall(t) \/ CollectorCall(t) \/ ThreadStep(t)
      PROVE  MutatorMove(t) \/ StartBackgroundCollection(t)
  BY <1>0, <1>5, MutatorsOnlyMutate DEF ListInv, Procs
<1>6. ASSUME c \in Threads,
             MutatorCall(c) \/ CollectorCall(c) \/ ThreadStep(c)
      PROVE  \/ MutatorMove(c) \/ StartBackgroundCollection(c)
             \/ CycleStep(c) \/ ForceCollect(c)
  BY <1>6 DEF CollectorCall, ThreadStep, MutatorMove
<1>7. ASSUME NEW b \in Background, BackgroundThread(b)
      PROVE  CycleStep(c) \/ BackgroundStep(c)
  BY <1>7 DEF SoleCollector, BackgroundThread
<1>8. UNCHANGED vars => pc[c] = "sweep_free" /\ local'[c] = local[c]
  BY DEF vars
<1> QED
  BY <1>2, <1>3, <1>4, <1>5, <1>6, <1>7, <1>8 DEF Next

(***************************************************************************)
(* The box the sweep is about to drop is a live one of the list.           *)
(***************************************************************************)
LEMMA SweptIsLive ==
  ASSUME NEW c, ListInv(c), pc[c] \in {"sweep_root", "sweep_free"}
  PROVE  local[c].current \in Objects /\ mem[local[c].current] = "live"
<1>1. local[c].current \in InList
  BY DEF ListInv, SweepsTheList, WalkLabel
<1> QED
  BY <1>1 DEF ListInv, AllocationListSound, Live

(***************************************************************************)
(* Only the sole collector drops boxes.                                    *)
(***************************************************************************)
LEMMA SoleCollectorFrees ==
  ASSUME NEW c, ListInv(c), NEW p \in Procs, SweepFree(p)
  PROVE  p = c
BY DEF ListInv, OnlyMutates, CollectingLabel, SweepLabel, SweepFree, Goto

(***************************************************************************)
(* The invariant is kept.                                                  *)
(***************************************************************************)
LEMMA NextHoldInv ==
  ASSUME NEW c \in Procs, SoleCollector(c),
         \A t \in Threads : "root" \notin Calls[t], HoldInv(c), [Next]_vars
  PROVE  HoldInv(c)'
<1>0. /\ ListInv(c) /\ ListInv(c)' /\ RootInv /\ TypeOK /\ NobodyRoots
      /\ HeldIsNotDropped /\ FreesUnheld(c) /\ mem \in [Objects -> Mem]
  BY NextListInv DEF HoldInv, ListInv, RootInv, TypeOK
<1>1. NobodyRoots'
  BY <1>0, NobodyRootsStays
<1>2. FreesUnheld(c)'
  <2> SUFFICES ASSUME pc'[c] = "sweep_free" PROVE local'[c].current \notin Held'
    BY DEF FreesUnheld
  <2>1. CASE SweepRoot(c)
    <3>1. pc[c] = "sweep_root" /\ local' = local /\ ~ is_root(local[c].current)
      BY <1>0, <2>1, GotoMoves DEF SweepRoot
    <3>2. /\ local[c].current \in Objects
          /\ mem[local[c].current] = "live"
      BY <1>0, <3>1, SweptIsLive
    <3>3. local[c].current \notin Held
      BY <1>0, <3>1, <3>2, CountedIsHeld
    <3> QED
      BY <1>0, <3>1, <3>2, <3>3, NobodyComesToHold DEF Published
  <2>2. CASE pc[c] = "sweep_free" /\ local'[c] = local[c]
    <3>1. /\ local[c].current \in Objects
          /\ mem[local[c].current] = "live"
          /\ local[c].current \notin Held
      BY <1>0, <2>2, SweptIsLive DEF FreesUnheld
    <3> QED
      BY <1>0, <2>2, <3>1, NobodyComesToHold DEF Published
  <2> QED
    BY <1>0, <2>1, <2>2, HowItComesToFree
<1>3. HeldIsNotDropped'
  <2> SUFFICES ASSUME NEW o \in Objects, o \in Held', mem'[o] = "freed"
               PROVE  FALSE
    BY DEF HeldIsNotDropped, Held
  <2>1. CASE mem[o] = "freed"
    BY <1>0, <2>1, NobodyComesToHold DEF HeldIsNotDropped, Published
  <2>2. CASE mem[o] # "freed"
    <3>0. Next
      BY <2>2 DEF vars
    <3>1. PICK p \in Procs : SweepFree(p)
      BY <1>0, <2>2, <3>0, OnlySweepFrees
    <3>2. p = c
      BY <1>0, <3>1, SoleCollectorFrees
    <3>3. /\ pc[c] = "sweep_free"
          /\ mem' = [mem EXCEPT ![local[c].current] = "freed"]
      BY <3>1, <3>2 DEF SweepFree, Goto
    <3>4. o = local[c].current
      BY <1>0, <2>2, <3>3
    <3>5. mem[o] = "live" /\ o \notin Held
      BY <1>0, <3>3, <3>4, SweptIsLive DEF FreesUnheld
    <3> QED
      BY <1>0, <3>5, NobodyComesToHold DEF Published
  <2> QED
    BY <2>1, <2>2
<1> QED
  BY <1>0, <1>1, <1>2, <1>3 DEF HoldInv

(***************************************************************************)
(* It holds initially.                                                     *)
(***************************************************************************)
LEMMA InitHoldInv ==
  ASSUME NEW c \in Procs, SoleCollector(c), Init
  PROVE  HoldInv(c)
<1>1. /\ \A p \in Procs : pc[p] \in {"ready", "bg_enter", "unborn"}
      /\ \A t \in Threads : pc[t] = "ready"
      /\ \A o \in Objects : mem[o] # "freed"
  BY DEF Init, Procs
<1>2. NobodyRoots /\ HeldIsNotDropped /\ FreesUnheld(c)
  BY <1>1 DEF NobodyRoots, HeldIsNotDropped, FreesUnheld, Held
<1> QED
  BY <1>2, InitListInv DEF HoldInv

(***************************************************************************)
(* One thread collects, and any number of threads allocate, link, clone,   *)
(* drop and write cells meanwhile: a box that somebody holds by a GcRoot,  *)
(* or that an allocate is going to return, is never dropped.  The root     *)
(* count is loaded some steps before the box is dropped, and nothing but   *)
(* GcPtr::root can make a GcRoot of a box that has none in between.  (What *)
(* is held by cells alone is another matter: WhiteAllocation.)             *)
(***************************************************************************)
THEOREM HeldBoxesAreSafe ==
  ASSUME NEW c \in Procs, SoleCollector(c),
         \A t \in Threads : "root" \notin Calls[t]
  PROVE  Spec => []HeldIsNotDropped
<1>1. Init => HoldInv(c)
  BY InitHoldInv
<1>2. HoldInv(c) /\ [Next]_vars => HoldInv(c)'
  BY NextHoldInv
<1>3. HoldInv(c) => HeldIsNotDropped
  BY DEF HoldInv
<1> QED
  BY <1>1, <1>2, <1>3, PTL DEF Spec

-----------------------------------------------------------------------------

(***************************************************************************)
(* A program in which every thread allocates and no cell ever holds a      *)
(* pointer.  A box allocated after the root scan is not scanned, and one   *)
(* stored in a cell after the barrier is off is not shaded, so with other  *)
(* threads that allocate a cell may be all that keeps a box and not be     *)
(* seen: such a program keeps its boxes by GcRoots.  set may clear a cell  *)
(* all the same, with the barrier it calls.                                *)
(***************************************************************************)
FlatProgram(c) ==
  /\ SoleCollector(c)
  /\ BuiltObjects \subseteq NoTrace \/ Fields = {}
  /\ \A t \in Threads :
       Calls[t] \cap {"link", "set", "set_leaf", "move", "root"} = {}

CellsAreEmpty ==
  /\ \A o \in Objects : ref[o] = [f \in Fields |-> Null]
  /\ \A p \in Procs : local[p].value = Null

FlatInv(c) == HoldInv(c) /\ CellsAreEmpty

(***************************************************************************)
(* No step but set and get of a cell puts a pointer in a thread's hands.   *)
(***************************************************************************)
LEMMA NoValueIsTaken ==
  ASSUME TypeOK, NEW p \in Procs,
         \/ MutatorCall(p) /\ ~ CellSet(p) /\ ~ CellGet(p)
         \/ MutatorStep(p) \/ CollectorCall(p) \/ JoinBackgroundThread(p)
         \/ CycleStep(p) \/ BackgroundStep(p)
  PROVE  \A q \in Procs : local'[q].value \in {local[q].value, Null}
<1> DEFINE l == local[p]
           Stays == \A q \in Procs : local'[q].value \in {local[q].value, Null}
<1>0. l \in Locals
  BY LocalType
<1>1. ASSUME NEW m, SetLocal(p, m), m.value \in {l.value, Null} PROVE Stays
  BY <1>1, SetLocalMoves
<1>2. ASSUME local' = local PROVE Stays
  BY <1>2
<1>3. NoLocals.value = Null
  BY DEF NoLocals
<1>4. CASE \/ CloneRoot(p) \/ DropRoot(p) \/ BusyCheck(p)
           \/ DecrementBusyMarking(p) \/ AllocateBox(p) \/ AllocateLoadHead(p)
           \/ AllocatePublish(p) \/ AllocateRetry(p) \/ ForceCollect(p)
           \/ StartBackgroundCollection(p) \/ BusyTest(p) \/ StartSweeping(p)
           \/ SweepRoot(p) \/ FinishSweep(p) \/ UpdateThreshold(p)
           \/ BackgroundWait(p) \/ BackgroundNotified(p)
           \/ BackgroundTimeout(p) \/ BackgroundCheck(p)
  BY <1>2, <1>4 DEF CloneRoot, DropRoot, BusyCheck, DecrementBusyMarking,
     AllocateBox, AllocateLoadHead, AllocatePublish, AllocateRetry,
     ForceCollect, StartBackgroundCollection, BusyTest, StartSweeping,
     SweepRoot, FinishSweep, UpdateThreshold, BackgroundWait,
     BackgroundNotified, BackgroundTimeout, BackgroundCheck
<1>5. CASE \/ AllocateReturn(p) \/ CellStore(p) \/ RootPointer(p)
           \/ ForgetPointer(p) \/ JoinBackgroundThread(p) \/ FinishGc(p)
           \/ BackgroundAbort(p)
  BY <1>1, <1>3, <1>5 DEF AllocateReturn, CellStore, RootPointer,
     ForgetPointer, JoinBackgroundThread, FinishGc, BackgroundAbort
<1>6. CASE Allocate(p)
  <2>1. \A o : [l EXCEPT !.op = "allocate", !.current = o].value = l.value
    BY <1>0 DEF Locals
  <2>2. PICK o \in Objects :
          SetLocal(p, [l EXCEPT !.op = "allocate", !.current = o])
    BY <1>6 DEF Allocate
  <2> QED
    BY <1>1, <2>1, <2>2
<1>7. CASE CellShade(p) \/ CellMergeWork(p) \/ RootsMerge(p)
  <2>1. \A s : [l EXCEPT !.tracer = s].value = l.value
    BY <1>0 DEF Locals
  <2>2. PICK s : SetLocal(p, [l EXCEPT !.tracer = s])
    BY <1>7 DEF CellShade, CellMergeWork, RootsMerge
  <2> QED
    BY <1>1, <2>1, <2>2
<1>8. CASE \/ CountLoadHead(p) \/ CountNode(p) \/ RootsLoadHead(p)
           \/ SweepLoadHead(p)
  <2>1. \A o : [l EXCEPT !.current = o].value = l.value
    BY <1>0 DEF Locals
  <2>2. \/ SetLocal(p, NoLocals)
        \/ \E o : SetLocal(p, [l EXCEPT !.current = o])
    BY <1>8 DEF CountLoadHead, CountNode, RootsLoadHead, SweepLoadHead
  <2> QED
    BY <1>1, <1>3, <2>1, <2>2
<1>9. CASE StopBackgroundCollection(p) \/ TryStartMarking(p)
  <2>1. /\ \A n : [l EXCEPT !.joining = n].value = l.value
        /\ [l EXCEPT !.op = "collect"].value = l.value
    BY <1>0 DEF Locals
  <2>2. \/ local' = local
        \/ SetLocal(p, [l EXCEPT !.op = "collect"])
        \/ \E n : SetLocal(p, [l EXCEPT !.joining = n])
    BY <1>9 DEF StopBackgroundCollection, TryStartMarking
  <2> QED
    BY <1>1, <1>2, <2>1, <2>2
<1>10. CASE RootsVisit(p)
  <2>1. \A s, o : /\ [l EXCEPT !.tracer = s, !.current = o].value = l.value
                  /\ [l EXCEPT !.current = o].value = l.value
    BY <1>0 DEF Locals
  <2>2. \/ \E s, o : SetLocal(p, [l EXCEPT !.tracer = s, !.current = o])
        \/ \E o : SetLocal(p, [l EXCEPT !.current = o])
    BY <1>10 DEF RootsVisit
  <2> QED
    BY <1>1, <2>1, <2>2
<1>11. CASE MarkStep(p)
  <2>1. \A q \in Procs \ {p} : local'[q] = local[q]
    BY <1>11, SetLocalMoves DEF MarkStep, MarkPop, MarkSteal, TraceField,
       MarkBlack, MarkNoWork, MarkBudgetSpent
  <2> QED
    BY <1>11, <2>1, MarkStepStands DEF SameWalk
<1>12. CASE SweepColor(p) \/ SweepKeep(p) \/ SweepFree(p) \/ SweepSubtract(p)
  <2>1. \A o, x, n :
          /\ [l EXCEPT !.following = o].value = l.value
          /\ [l EXCEPT !.prev = x, !.current = o].value = l.value
          /\ [l EXCEPT !.freed = n, !.current = o].value = l.value
          /\ [l EXCEPT !.live = n].value = l.value
    BY <1>0 DEF Locals
  <2>2. \/ \E o : SetLocal(p, [l EXCEPT !.following = o])
        \/ \E o, x : SetLocal(p, [l EXCEPT !.prev = x, !.current = o])
        \/ \E o, n : SetLocal(p, [l EXCEPT !.freed = n, !.current = o])
        \/ \E n : SetLocal(p, [l EXCEPT !.live = n])
    BY <1>12 DEF SweepColor, SweepKeep, SweepFree, SweepSubtract
  <2> QED
    BY <1>1, <2>1, <2>2
<1> QED
  BY <1>4, <1>5, <1>6, <1>7, <1>8, <1>9, <1>10, <1>11, <1>12
  DEF MutatorCall, MutatorStep, CollectorCall, CycleStep, SweepStep,
      BackgroundStep

(***************************************************************************)
(* No step of such a program writes a pointer to a cell or takes one.      *)
(***************************************************************************)
LEMMA NextCellsAreEmpty ==
  ASSUME NEW c, FlatProgram(c), TypeOK, TypeOK', CellsAreEmpty, [Next]_vars
  PROVE  CellsAreEmpty' /\ ref' = ref
<1>0. /\ Threads \subseteq Procs /\ Background \subseteq Procs
      /\ ref \in [Objects -> [Fields -> Pointer]]
      /\ ref' \in [Objects -> [Fields -> Pointer]]
  BY DEF Procs, TypeOK
<1>1. \A t \in Threads : NewValues(t) \subseteq {Null} /\ ~ CellGet(t)
  BY DEF NewValues, CellGet, FlatProgram
<1>2. ASSUME NEW t \in Threads, CellSet(t)
      PROVE  \A q \in Procs : local'[q].value = Null
  <2>1. PICK o \in HeldBy(t), f \in Fields, v \in NewValues(t) :
          SetLocal(t, [local[t] EXCEPT !.op = "set", !.current = o,
                                       !.field = f, !.value = v])
    BY <1>2 DEF CellSet
  <2>2. local[t] \in Locals /\ v = Null
    BY <1>0, <1>1, LocalType
  <2>3. /\ local'[t] = [local[t] EXCEPT !.op = "set", !.current = o,
                                        !.field = f, !.value = v]
        /\ \A q \in Procs \ {t} : local'[q] = local[q]
    BY <1>0, <2>1, SetLocalMoves
  <2>4. local'[t].value = Null
    BY <2>2, <2>3 DEF Locals
  <2> QED
    BY <2>3, <2>4 DEF CellsAreEmpty
<1>3. ASSUME NEW p \in Procs,
             \/ MutatorCall(p) /\ ~ CellSet(p) /\ ~ CellGet(p)
             \/ MutatorStep(p) \/ CollectorCall(p) \/ JoinBackgroundThread(p)
             \/ CycleStep(p) \/ BackgroundStep(p)
      PROVE  \A q \in Procs : local'[q].value = Null
  BY <1>3, NoValueIsTaken DEF CellsAreEmpty
<1>4. \A q \in Procs : local'[q].value = Null
  <2>1. ASSUME NEW t \in Threads,
               MutatorCall(t) \/ CollectorCall(t) \/ ThreadStep(t)
        PROVE  \A q \in Procs : local'[q].value = Null
    BY <1>0, <1>1, <1>2, <1>3, <2>1 DEF ThreadStep
  <2>2. ASSUME NEW b \in Background, BackgroundThread(b)
        PROVE  \A q \in Procs : local'[q].value = Null
    BY <1>0, <1>3, <2>2 DEF BackgroundThread
  <2>3. UNCHANGED vars => \A q \in Procs : local'[q].value = Null
    BY DEF vars, CellsAreEmpty
  <2> QED
    BY <2>1, <2>2, <2>3 DEF Next
<1>5. ref' = ref
  <2>1. ASSUME NEW t \in Threads, AllocateBox(t) PROVE ref' = ref
    <3>1. PICK d \in InitialData(t, local[t].current) :
            ref' = [ref EXCEPT ![local[t].current] = d]
      BY <2>1 DEF AllocateBox
    <3>2. d = [f \in Fields |-> Null]
      BY DEF InitialData, FlatProgram
    <3> QED
      BY <1>0, <3>1, <3>2 DEF CellsAreEmpty
  <2>2. ASSUME NEW t \in Threads, CellStore(t) PROVE ref' = ref
    <3>1. ref' = [ref EXCEPT ![local[t].current][local[t].field] = Null]
      BY <1>0, <2>2 DEF CellStore, CellsAreEmpty
    <3>2. \A o \in Objects : ref'[o] = ref[o]
      <4> SUFFICES ASSUME NEW o \in Objects PROVE ref'[o] = ref[o]
        OBVIOUS
      <4>1. ref[o] = [f \in Fields |-> Null]
        BY DEF CellsAreEmpty
      <4>2. CASE o = local[t].current
        <5>1. ref'[o] = [ref[o] EXCEPT ![local[t].field] = Null]
          BY <1>0, <3>1, <4>2
        <5> QED
          BY <4>1, <5>1
      <4>3. CASE o # local[t].current
        BY <1>0, <3>1, <4>3
      <4> QED
        BY <4>2, <4>3
    <3> QED
      BY <1>0, <3>2
  <2>3. ASSUME NEW p \in Procs, CycleStep(p) PROVE ref' = ref
    BY <2>3 DEF CycleStep, MarkStep, SweepStep, TryStartMarking,
       RootsLoadHead, RootsVisit, RootsMerge, MarkPop, MarkSteal, TraceField,
       MarkBlack, MarkNoWork, MarkBudgetSpent, BusyTest, StartSweeping,
       SweepLoadHead, SweepColor, SweepRoot, SweepKeep, SweepFree,
       SweepSubtract, FinishSweep, UpdateThreshold, FinishGc
  <2>4. ASSUME NEW t \in Threads, MutatorCall(t) PROVE ref' = ref
    BY <2>4 DEF MutatorCall, Allocate, CloneRoot, DropRoot, CellSet, CellGet,
       CountLoadHead
  <2>5. ASSUME NEW t \in Threads, MutatorStep(t) PROVE ref' = ref
    BY <2>1, <2>2, <2>5 DEF MutatorStep, BusyCheck, DecrementBusyMarking,
       AllocateLoadHead, AllocatePublish, AllocateRetry, AllocateReturn,
       CellShade, CellMergeWork, RootPointer, ForgetPointer, CountNode
  <2>6. ASSUME NEW t, CollectorCall(t) \/ JoinBackgroundThread(t)
        PROVE  ref' = ref
    BY <2>6 DEF CollectorCall, ForceCollect, StartBackgroundCollection,
       StopBackgroundCollection, JoinBackgroundThread
  <2>7. ASSUME NEW b, BackgroundStep(b) PROVE ref' = ref
    BY <2>7 DEF BackgroundStep, BackgroundWait, BackgroundNotified,
       BackgroundTimeout, BackgroundCheck, BackgroundAbort
  <2>8. UNCHANGED vars => ref' = ref
    BY DEF vars
  <2> QED
    BY <1>0, <2>3, <2>4, <2>5, <2>6, <2>7, <2>8
    DEF Next, ThreadStep, BackgroundThread
<1> QED
  BY <1>4, <1>5 DEF CellsAreEmpty

(***************************************************************************)
(* The invariant of flat programs, initially and step by step.             *)
(***************************************************************************)
LEMMA InitFlatInv ==
  ASSUME NEW c \in Procs, FlatProgram(c), Init
  PROVE  FlatInv(c)
<1>1. SoleCollector(c)
  BY DEF FlatProgram
<1>2. HoldInv(c)
  BY <1>1, InitHoldInv
<1>3. \A o \in Objects : ref[o] = [f \in Fields |-> Null]
  <2>1. CASE BuiltObjects \subseteq NoTrace
    BY <2>1 DEF Init
  <2>2. CASE Fields = {}
    <3>1. ref \in [Objects -> [Fields -> BuiltObjects \cup {Null}]]
      BY DEF Init
    <3> QED
      BY <2>2, <3>1
  <2> QED
    BY <2>1, <2>2 DEF FlatProgram
<1>4. \A p \in Procs : local[p].value = Null
  BY DEF Init, NoLocals
<1> QED
  BY <1>2, <1>3, <1>4 DEF FlatInv, CellsAreEmpty

(***************************************************************************)
(* Every step keeps it, and leaves the cells as they are.                  *)
(***************************************************************************)
LEMMA NextFlatInv ==
  ASSUME NEW c \in Procs, FlatProgram(c), FlatInv(c), [Next]_vars
  PROVE  FlatInv(c)' /\ ref' = ref
<1>1. SoleCollector(c) /\ \A t \in Threads : "root" \notin Calls[t]
  BY DEF FlatProgram
<1>2. HoldInv(c)'
  BY <1>1, NextHoldInv DEF FlatInv
<1>3. TypeOK /\ TypeOK'
  BY <1>2 DEF FlatInv, HoldInv, ListInv, RootInv
<1> QED
  BY <1>2, <1>3, NextCellsAreEmpty DEF FlatInv

(***************************************************************************)
(* What such a program can reach is what it holds.                         *)
(***************************************************************************)
LEMMA FlatReach ==
  ASSUME CellsAreEmpty
  PROVE  /\ Reachable \subseteq Held
         /\ Abstract!Reachable = Abstract!Held
<1>1. \A o \in Objects : Successors(o) = {}
  BY DEF CellsAreEmpty, Successors
<1>2. \A o \in Objects : Abstract!Successors(o) = {}
  BY WhatIsSeen DEF CellsAreEmpty, Abstract!Successors
<1>3. Held \in SUBSET Objects /\ Abstract!Held \in SUBSET Objects
  BY DEF Held, Abstract!Held
<1>4. Reachable \subseteq Held
  BY <1>1, <1>3 DEF Reachable, ClosedUnderRefs
<1>5. Abstract!Reachable \subseteq Abstract!Held
  BY <1>2, <1>3 DEF Abstract!Reachable, Abstract!Closed
<1>6. Abstract!Held \subseteq Abstract!Reachable
  BY <1>3 DEF Abstract!Reachable, Abstract!Closed
<1> QED
  BY <1>4, <1>5, <1>6

(***************************************************************************)
(* allocate returns the box to the program.                                *)
(***************************************************************************)
LEMMA FlatAllocateRefines ==
  ASSUME NEW c, HoldInv(c), CellsAreEmpty, NEW t \in Threads,
         AllocateReturn(t)
  PROVE  Abstract!Next
<1>0. /\ t \in Procs /\ TypeOK /\ RootInv /\ Threads \subseteq Procs
  BY DEF HoldInv, ListInv, RootInv, Procs
<1>1. /\ pc[t] = "alloc_add" /\ pc'[t] = "ready"
      /\ handles' = [handles EXCEPT ![t][local[t].current] = 1]
      /\ UNCHANGED <<mem, ref>>
      /\ \A u \in Threads \ {t} : pc'[u] = pc[u] /\ local'[u] = local[u]
  BY <1>0, GotoMoves, SetLocalMoves DEF AllocateReturn
<1>2. PICK o \in Objects : /\ o = local[t].current /\ o \in Published
                           /\ Allocates(t)
  BY <1>0, <1>1 DEF RootInv, SeesPublished, OwnsItsObject, PushLabel,
     AssistLabel, Published
<1>3. InAllocate(o) /\ o \in Held
  BY <1>1, <1>2 DEF InAllocate, Held
<1>4. mem[o] = "live"
  BY <1>2, <1>3 DEF HoldInv, HeldIsNotDropped, Published
<1>5. ~ InAllocate(o)'
  <2> SUFFICES ASSUME NEW u \in Threads \ {t}, local[u].current = o,
                      pc[u] \in PushLabel
               PROVE  FALSE
    BY <1>1 DEF InAllocate, PushLabel
  <2>1. Allocates(u)
    BY <1>0 DEF RootInv, SeesPublished
  <2> QED
    BY <1>0, <1>2, <2>1 DEF RootInv, NoObjectTwice
<1>6. \A x \in Objects \ {o} : InAllocate(x)' <=> InAllocate(x)
  BY <1>1, <1>2 DEF InAllocate
<1>7. /\ ~ Visible(o) /\ Visible(o)'
      /\ \A x \in Objects \ {o} : Visible(x)' <=> Visible(x)
  BY <1>1, <1>3, <1>4, <1>5, <1>6 DEF Visible
<1>8. AbstractMem[o] = "unborn" /\ AbstractMem' = [AbstractMem EXCEPT ![o] = "live"]
  <2>1. /\ AbstractMem[o] = "unborn" /\ AbstractMem'[o] = "live"
        /\ \A x \in Objects \ {o} : AbstractMem'[x] = AbstractMem[x]
    BY <1>1, <1>4, <1>7, WhatIsSeen, WhatWillBeSeen
  <2> QED
    BY <1>2, <2>1, ViewsAreFunctions
<1>9. AbstractRef' = [AbstractRef EXCEPT ![o] = ref[o]]
  <2>1. /\ AbstractRef'[o] = ref[o]
        /\ \A x \in Objects \ {o} : AbstractRef'[x] = AbstractRef[x]
    BY <1>1, <1>2, <1>7, WhatIsSeen, WhatWillBeSeen
  <2> QED
    BY <1>2, <2>1, ViewsAreFunctions
<1>10. ref[o] \in [Fields -> Abstract!HeldBy(t) \cup {Null}]
  BY DEF CellsAreEmpty
<1>11. Abstract!Allocate(t, o)
  BY <1>1, <1>2, <1>8, <1>9, <1>10 DEF Abstract!Allocate
<1> QED
  BY <1>11 DEF Abstract!Next

(***************************************************************************)
(* The sweep drops a box nobody holds.                                     *)
(***************************************************************************)
LEMMA FlatFreeRefines ==
  ASSUME NEW c, HoldInv(c), CellsAreEmpty, NEW p \in Procs, SweepFree(p)
  PROVE  Abstract!Next
<1>0. /\ TypeOK /\ ListInv(c) /\ Threads \subseteq Procs /\ p = c
      /\ mem \in [Objects -> Mem]
  BY SoleCollectorFrees DEF HoldInv, ListInv, RootInv, Procs, TypeOK
<1>1. /\ pc[c] = "sweep_free" /\ pc'[c] = "sweep"
      /\ mem' = [mem EXCEPT ![local[c].current] = "freed"]
      /\ UNCHANGED <<handles, ref>>
      /\ \A u \in Threads \ {c} : pc'[u] = pc[u] /\ local'[u] = local[u]
  BY <1>0, GotoMoves, SetLocalMoves DEF SweepFree
<1>2. PICK o \in Objects : /\ o = local[c].current /\ mem[o] = "live"
                           /\ o \notin Held
  BY <1>0, <1>1, SweptIsLive DEF HoldInv, FreesUnheld
<1>3. \A x \in Objects : InAllocate(x)' <=> InAllocate(x)
  BY <1>1, SameInAllocate DEF PushLabel
<1>4. ~ InAllocate(o) /\ o \notin Abstract!Held
  BY <1>2 DEF Held, Abstract!Held
<1>5. /\ mem'[o] = "freed" /\ Visible(o)
      /\ \A x \in Objects \ {o} : /\ mem'[x] = mem[x]
                                  /\ Visible(x)' <=> Visible(x)
  BY <1>0, <1>1, <1>2, <1>3, <1>4 DEF Visible
<1>6. AbstractRef' = AbstractRef
  <2>1. \A x \in Objects : AbstractRef'[x] = AbstractRef[x]
    BY <1>1, <1>2, <1>5, WhatIsSeen, WhatWillBeSeen
  <2> QED
    BY <2>1, ViewsAreFunctions
<1>7. AbstractMem[o] = "live" /\ AbstractMem' = [AbstractMem EXCEPT ![o] = "dropped"]
  <2>1. /\ AbstractMem[o] = "live" /\ AbstractMem'[o] = "dropped"
        /\ \A x \in Objects \ {o} : AbstractMem'[x] = AbstractMem[x]
    BY <1>2, <1>5, WhatIsSeen, WhatWillBeSeen
  <2> QED
    BY <1>2, <2>1, ViewsAreFunctions
<1>8. Abstract!Collect(o)
  BY <1>1, <1>4, <1>6, <1>7, FlatReach DEF Abstract!Collect, Abstract!Live
<1> QED
  BY <1>8 DEF Abstract!Next

(***************************************************************************)
(* Every step of a flat program is a step of the promise, or none.         *)
(***************************************************************************)
LEMMA FlatNextRefines ==
  ASSUME NEW c \in Procs, FlatProgram(c), FlatInv(c), [Next]_vars
  PROVE  [Abstract!Next]_(Abstract!vars)
<1>0. /\ HoldInv(c) /\ CellsAreEmpty /\ RootInv /\ NobodyRoots
      /\ ref' = ref
  BY NextFlatInv DEF FlatInv, HoldInv, ListInv
<1>1. CASE Unseen
  BY <1>0, <1>1, UnseenStep DEF Unseen
<1>2. ASSUME NEW t \in Threads, CloneRoot(t) \/ DropRoot(t)
      PROVE  Abstract!Next
  <2>1. \A x \in Objects : Visible(x)' <=> Visible(x)
    BY <1>2 DEF CloneRoot, DropRoot, Visible, InAllocate
  <2>2. CASE CloneRoot(t)
    <3>1. PICK o \in HeldBy(t), u \in Threads :
            handles' = [handles EXCEPT ![u][o] = @ + 1]
      BY <2>2 DEF CloneRoot
    <3>2. o \in Objects /\ o \in Abstract!Reachable
      BY <1>0, FlatReach DEF HeldBy, Abstract!Held
    <3> QED
      BY <2>1, <2>2, <3>1, <3>2, RootRefines DEF CloneRoot
  <2>3. CASE DropRoot(t)
    <3>1. PICK o \in HeldBy(t) : handles' = [handles EXCEPT ![t][o] = @ - 1]
      BY <2>3 DEF DropRoot
    <3> QED
      BY <2>1, <2>3, <3>1, DropRefines DEF DropRoot
  <2> QED
    BY <1>2, <2>2, <2>3
<1>3. ASSUME NEW t \in Threads, RootPointer(t) PROVE FALSE
  BY <1>0, <1>3 DEF RootPointer, Goto, NobodyRoots
<1> QED
  BY <1>0, <1>1, <1>2, <1>3, FlatAllocateRefines, FlatFreeRefines,
     SeenOrUnseen DEF Seen

(***************************************************************************)
(* One thread collects and every thread allocates, clones, drops and       *)
(* clears cells at the same time: the collector implements the abstract    *)
(* heap, though a push can be lost to the sweep.  With assists on a        *)
(* traversal can meet a dropped box; the model lets that access do nothing *)
(* to other objects, and FlatTraversalIsSafe says when there is none.      *)
(***************************************************************************)
THEOREM FlatHeapImplementsPromise ==
  ASSUME NEW c \in Procs, FlatProgram(c)
  PROVE  Spec => ImplementsAbstractHeap
<1>1. Init => FlatInv(c) /\ Abstract!Init
  BY InitFlatInv, InitRefines
<1>2. FlatInv(c) /\ [Next]_vars => FlatInv(c)'
  BY NextFlatInv
<1>3. FlatInv(c) /\ [Next]_vars => [Abstract!Next]_(Abstract!vars)
  BY FlatNextRefines
<1> QED
  BY <1>1, <1>2, <1>3, PTL DEF Spec, ImplementsAbstractHeap, Abstract!Spec

(***************************************************************************)
(* And no box it can reach is dropped, not even one that an allocate is    *)
(* going to return.                                                        *)
(***************************************************************************)
THEOREM FlatHeapIsSafe ==
  ASSUME NEW c \in Procs, FlatProgram(c)
  PROVE  Spec => []NoDangling
<1>1. Init => FlatInv(c)
  BY InitFlatInv
<1>2. FlatInv(c) /\ [Next]_vars => FlatInv(c)'
  BY NextFlatInv
<1>3. FlatInv(c) => NoDangling
  BY FlatReach DEF FlatInv, HoldInv, HeldIsNotDropped, NoDangling
<1> QED
  BY <1>1, <1>2, <1>3, PTL DEF Spec

-----------------------------------------------------------------------------

(***************************************************************************)
(* A flat program without assists, whose threads do not count allocations  *)
(* while another one sweeps.  Nobody but the collector takes objects off   *)
(* the gray queue then, so that no gray object comes back to it between    *)
(* the round that finds it empty and the test of n_busy_marking, to stay   *)
(* there when it is dropped.                                               *)
(***************************************************************************)
UnassistedProgram(c) ==
  /\ FlatProgram(c)
  /\ AssistWorkBudget = 0
  /\ IncrementalWorkBudget > 0
  /\ \A t \in Threads \ {c} : "allocation_count" \notin Calls[t]

DoesNotAssist(p) ==
  /\ pc[p] \in {"busy_check", "mark", "trace"} => ~ Allocates(p)
  /\ pc[p] = "shade_merge" => local[p].tracer = <<>>

QueueIsLive(c) ==
  /\ SeqRange(gray_queue) \cup InHand(c) \subseteq Live \cup {Null}
  /\ pc[c] = "trace" => local[c].tracing \in Objects

StandsInList(c) ==
  /\ pc[c] \in {"roots", "count"} => local[c].current \in InList \cup {Null}
  /\ pc[c] \in MarkLabel \cup {"sweep_head"} => local[c].current = Null

DrainsQueue(c) ==
  pc[c] \in {"busy_test", "sweep_start"} \cup SweepLabel => gray_queue = <<>>

TracesLive(c) ==
  /\ \A p \in Procs : DoesNotAssist(p)
  /\ \A t \in Threads \ {c} : pc[t] # "count"
  /\ QueueIsLive(c)
  /\ StandsInList(c)
  /\ DrainsQueue(c)

UnassistedInv(c) == FlatInv(c) /\ QueueInv /\ TracesLive(c)

(***************************************************************************)
(* The facts of the invariant that the lemmas below use.                   *)
(***************************************************************************)
LEMMA UnassistedFacts ==
  ASSUME NEW c \in Procs, UnassistedInv(c)
  PROVE  /\ TypeOK /\ ListInv(c) /\ RootInv /\ NobodyRoots /\ CellsAreEmpty
         /\ \A p \in Procs : MarksAsCollector(p) /\ IdleHands(p)
         /\ \A p \in Procs \ {c} : OnlyMutates(p)
         /\ InList \subseteq Live /\ SweepsTheList(c) /\ TracesLive(c)
         /\ ListClosed(InList) /\ gray_queue \in Seq(Objects)
BY InListIsLeast
DEF UnassistedInv, FlatInv, HoldInv, ListInv, QueueInv, BusyInv, RootInv,
    AllocationListSound, TypeOK

(***************************************************************************)
(* The steps of mutators drop no box and unlink none.                      *)
(***************************************************************************)
LEMMA MutatorsDropNothing ==
  ASSUME NEW c \in Procs, ListInv(c), TypeOK', RootInv', NEW t \in Threads,
         MutatorMove(t)
  PROVE  Live \subseteq Live' /\ InList \subseteq InList'
<1>0. /\ TypeOK /\ RootInv /\ AllocationListSound /\ NoNodeTwice /\ BusyInv
      /\ mem \in [Objects -> Mem]
  BY DEF ListInv, RootInv, TypeOK
<1>1. CASE SameList
  BY <1>0, <1>1, SameListKeeps DEF SameList
<1>2. CASE AllocatePublish(t)
  <2>1. InList \subseteq InList'
    BY <1>0, <1>2, PushKeepsList
  <2>2. Live \subseteq Live'
    BY <1>0, <1>2 DEF AllocatePublish, Live
  <2> QED
    BY <2>1, <2>2
<1> QED
  BY <1>0, <1>1, <1>2, MutatorMoveOnList

(***************************************************************************)
(* A step of another thread that adds nothing to the queue.                *)
(***************************************************************************)
LEMMA OthersKeepTraces ==
  ASSUME NEW c, NEW t \in Procs \ {c}, TracesLive(c), Others(t), c \in Procs,
         gray_queue' = gray_queue, Live \subseteq Live',
         InList \subseteq InList', DoesNotAssist(t)', pc'[t] # "count"
  PROVE  TracesLive(c)'
<1>0. pc'[c] = pc[c] /\ local'[c] = local[c] /\ Threads \subseteq Procs
  BY DEF Others, Procs
<1>1. \A p \in Procs : DoesNotAssist(p)'
  BY DEF Others, TracesLive, DoesNotAssist, Allocates
<1>2. \A u \in Threads \ {c} : pc'[u] # "count"
  BY <1>0 DEF Others, TracesLive
<1>3. QueueIsLive(c)'
  BY <1>0 DEF QueueIsLive, InHand, TracesLive
<1>4. StandsInList(c)' /\ DrainsQueue(c)'
  BY <1>0 DEF StandsInList, DrainsQueue, TracesLive
<1> QED
  BY <1>1, <1>2, <1>3, <1>4 DEF TracesLive

(***************************************************************************)
(* A step of the collecting thread.                                        *)
(***************************************************************************)
LEMMA OwnKeepsTraces ==
  ASSUME NEW c \in Procs, TracesLive(c), Others(c), DoesNotAssist(c)',
         QueueIsLive(c)', StandsInList(c)', DrainsQueue(c)'
  PROVE  TracesLive(c)'
<1>1. \A p \in Procs : DoesNotAssist(p)'
  BY DEF Others, TracesLive, DoesNotAssist, Allocates
<1>2. \A u \in Threads \ {c} : pc'[u] # "count"
  BY DEF Others, TracesLive, Procs
<1> QED
  BY <1>1, <1>2 DEF TracesLive

(***************************************************************************)
(* A thread outside its tracing has nothing gray in hand.                  *)
(***************************************************************************)
LEMMA NothingInHand ==
  ASSUME NEW p \in Procs, IdleHands(p), DoesNotAssist(p),
         pc[p] \notin {"roots", "mark", "trace"}
  PROVE  InHand(p) = {Null}
<1>1. local[p].tracer = <<>> /\ local[p].tracing = Null
  BY DEF IdleHands, DoesNotAssist, TracerLabel
<1> QED
  BY <1>1 DEF InHand, SeqRange

(***************************************************************************)
(* The same of the next state.                                             *)
(***************************************************************************)
LEMMA NothingWillBeInHand ==
  ASSUME NEW p \in Procs, IdleHands(p)', DoesNotAssist(p)',
         pc'[p] \notin {"roots", "mark", "trace"}
  PROVE  InHand(p)' = {Null}
<1>1. local'[p].tracer = <<>> /\ local'[p].tracing = Null
  BY DEF IdleHands, DoesNotAssist, TracerLabel
<1> QED
  BY <1>1 DEF InHand, SeqRange

(***************************************************************************)
(* What a call of the program does in such a program: it neither assists   *)
(* nor shades, for the value it stores is None.                            *)
(***************************************************************************)
LEMMA CallsDoNotTrace ==
  ASSUME NEW c \in Procs, UnassistedProgram(c), UnassistedInv(c),
         NEW t \in Threads, MutatorCall(t) \/ MutatorStep(t)
  PROVE  /\ gray_queue' = gray_queue
         /\ DoesNotAssist(t)'
         /\ pc'[t] \notin CollectingLabel \cup {"mark", "trace"}
         /\ pc'[t] = "count" =>
              t = c /\ local'[c].current \in InList \cup {Null}
<1> DEFINE l == local[t]
<1>0. /\ t \in Procs /\ l \in Locals /\ TypeOK /\ NobodyRoots
      /\ IdleHands(t) /\ DoesNotAssist(t) /\ l.value = Null
      /\ ListClosed(InList) /\ gray_queue \in Seq(Objects)
      /\ t # c => pc[t] # "count"
  BY UnassistedFacts, LocalType DEF Procs, TracesLive, CellsAreEmpty
<1> USE DEF CollectingLabel, SweepLabel, SweptLabel
<1>1. CASE \/ CloneRoot(t) \/ DropRoot(t) \/ AllocateBox(t)
           \/ AllocateLoadHead(t) \/ AllocatePublish(t) \/ AllocateRetry(t)
           \/ AllocateReturn(t) \/ CellStore(t) \/ DecrementBusyMarking(t)
  <2>1. /\ gray_queue' = gray_queue
        /\ pc'[t] \in PushLabel \cup {"ready", "alloc_box", "store"}
    BY <1>0, <1>1, GotoMoves DEF CloneRoot, DropRoot, AllocateBox,
       AllocateLoadHead, AllocatePublish, AllocateRetry, AllocateReturn,
       CellStore, DecrementBusyMarking, AfterBusy, PushLabel
  <2> QED
    BY <2>1 DEF DoesNotAssist, PushLabel
<1>2. CASE Allocate(t)
  <2>1. gray_queue' = gray_queue /\ pc'[t] = "alloc_box"
    BY <1>0, <1>2, GotoMoves DEF Allocate, UnassistedProgram
  <2> QED
    BY <2>1 DEF DoesNotAssist
<1>3. CASE CellSet(t)
  <2>1. PICK o, f, v :
          SetLocal(t, [l EXCEPT !.op = "set", !.current = o,
                                !.field = f, !.value = v])
    BY <1>3 DEF CellSet
  <2>2. local'[t] = [l EXCEPT !.op = "set", !.current = o,
                              !.field = f, !.value = v]
    BY <1>0, <2>1, SetLocalMoves
  <2>3. local'[t].op = "set"
    BY <1>0, <2>2 DEF Locals
  <2>4. gray_queue' = gray_queue /\ pc'[t] = "busy_check"
    BY <1>0, <1>3, GotoMoves DEF CellSet
  <2> QED
    BY <2>3, <2>4 DEF DoesNotAssist, Allocates
<1>4. CASE BusyCheck(t)
  <2>1. /\ gray_queue' = gray_queue /\ local' = local
        /\ pc'[t] \in {"shade", "busy_dec"}
    BY <1>0, <1>4 DEF BusyCheck, DoesNotAssist, Allocates, TypeOK
  <2> QED
    BY <2>1 DEF DoesNotAssist
<1>5. CASE CellShade(t)
  <2>1. /\ pc[t] = "shade" /\ pc'[t] = "shade_merge"
        /\ gray_queue' = gray_queue
    BY <1>0, <1>5, GotoMoves DEF CellShade
  <2>2. l.tracer = <<>> /\ MarkTracer(l.tracer, l.value) = l.tracer
    BY <1>0, <2>1, HeapAssumption DEF IdleHands, TracerLabel, MarkTracer
  <2>3. local'[t] = [l EXCEPT !.tracer = <<>>]
    BY <1>0, <1>5, <2>2, SetLocalMoves DEF CellShade
  <2>4. local'[t].tracer = <<>>
    BY <1>0, <2>3 DEF Locals
  <2> QED
    BY <2>1, <2>4 DEF DoesNotAssist
<1>6. CASE CellMergeWork(t)
  <2>1. /\ pc[t] = "shade_merge" /\ pc'[t] = "busy_dec"
        /\ gray_queue' = gray_queue \o l.tracer
    BY <1>0, <1>6, GotoMoves DEF CellMergeWork
  <2>2. l.tracer = <<>>
    BY <1>0, <2>1 DEF DoesNotAssist
  <2>3. gray_queue' = gray_queue
    BY <1>0, <2>1, <2>2
  <2> QED
    BY <2>1, <2>3 DEF DoesNotAssist
<1>7. CASE CountLoadHead(t)
  <2>1. gray_queue' = gray_queue /\ pc'[t] = "count" /\ t = c
    BY <1>0, <1>7, GotoMoves DEF CountLoadHead, UnassistedProgram
  <2>2. local'[t] = [l EXCEPT !.current = head]
    BY <1>0, <1>7, SetLocalMoves DEF CountLoadHead
  <2>3. local'[t].current = head
    BY <1>0, <2>2 DEF Locals
  <2> QED
    BY <1>0, <2>1, <2>3 DEF DoesNotAssist, ListClosed
<1>8. CASE CountNode(t)
  <2>1. gray_queue' = gray_queue /\ pc[t] = "count" /\ t = c
    BY <1>0, <1>8 DEF CountNode
  <2>2. CASE l.current = Null
    <3>1. pc'[t] = "ready"
      BY <1>0, <1>8, <2>2 DEF CountNode, TypeOK
    <3> QED
      BY <2>1, <3>1 DEF DoesNotAssist
  <2>3. CASE l.current # Null
    <3>1. pc' = pc /\ local'[t] = [l EXCEPT !.current = next[l.current]]
      BY <1>0, <1>8, <2>3, SetLocalMoves DEF CountNode
    <3>2. local'[t].current = next[l.current]
      BY <1>0, <3>1 DEF Locals
    <3>3. l.current \in InList
      BY <2>1, <2>3, UnassistedFacts DEF TracesLive, StandsInList
    <3> QED
      BY <1>0, <2>1, <3>1, <3>2, <3>3 DEF DoesNotAssist, ListClosed
  <2> QED
    BY <2>2, <2>3
<1>9. ~ CellGet(t)
  BY DEF CellGet, UnassistedProgram, FlatProgram
<1>10. ~ RootPointer(t) /\ ~ ForgetPointer(t)
  BY <1>0 DEF RootPointer, ForgetPointer, Goto, NobodyRoots
<1> QED
  BY <1>1, <1>2, <1>3, <1>4, <1>5, <1>6, <1>7, <1>8, <1>9, <1>10
  DEF MutatorCall, MutatorStep

(***************************************************************************)
(* A step of the collector after which it has nothing gray in hand.        *)
(***************************************************************************)
LEMMA QuietKeepsTraces ==
  ASSUME NEW c \in Procs, TracesLive(c), Others(c), IdleHands(c)',
         gray_queue' = gray_queue, Live \subseteq Live' \/ gray_queue = <<>>,
         pc'[c] \notin {"roots", "mark", "trace", "busy_check", "shade_merge"},
         StandsInList(c)', DrainsQueue(c)'
  PROVE  TracesLive(c)'
<1>1. DoesNotAssist(c)'
  BY DEF DoesNotAssist
<1>2. InHand(c)' = {Null}
  BY <1>1, NothingWillBeInHand
<1>3. SeqRange(gray_queue) \subseteq Live' \cup {Null}
  <2>1. CASE Live \subseteq Live'
    BY <2>1 DEF TracesLive, QueueIsLive
  <2>2. CASE gray_queue = <<>>
    BY <2>2 DEF SeqRange
  <2> QED
    BY <2>1, <2>2
<1>4. QueueIsLive(c)'
  BY <1>2, <1>3 DEF QueueIsLive
<1> QED
  BY <1>1, <1>4, OwnKeepsTraces

(***************************************************************************)
(* A step of the collector that only jumps, and not into the walk of the   *)
(* list.                                                                   *)
(***************************************************************************)
LEMMA JumpKeepsTraces ==
  ASSUME NEW c \in Procs, TracesLive(c), Others(c), IdleHands(c)',
         gray_queue' = gray_queue, Live' = Live, local'[c] = local[c],
         IdleHands(c), MarksAsCollector(c),
         \/ /\ pc[c] \in {"busy_test", "bg_check"} /\ pc'[c] = "mark"
         \/ /\ pc[c] \in {"busy_test", "sweep_start"}
            /\ pc'[c] \in {"bg_check", "sweep_start", "sweep_head"}
         \/ pc'[c] \in {"ready", "try_mark", "bg_enter", "bg_sleep",
                        "bg_done", "bg_abort"}
  PROVE  TracesLive(c)'
<1>1. CASE pc[c] \in {"busy_test", "bg_check"} /\ pc'[c] = "mark"
  <2>1. DoesNotAssist(c)'
    BY <1>1 DEF DoesNotAssist, MarksAsCollector, BeforeMarking, Allocates
  <2>2. QueueIsLive(c)'
    BY <1>1 DEF TracesLive, QueueIsLive, InHand
  <2>3. StandsInList(c)' /\ DrainsQueue(c)'
    BY <1>1 DEF TracesLive, StandsInList, DrainsQueue, MarkLabel, SweepLabel
  <2> QED
    BY <2>1, <2>2, <2>3, OwnKeepsTraces
<1>2. CASE pc'[c] # "mark"
  <2>1. StandsInList(c)' /\ DrainsQueue(c)'
    BY <1>2 DEF TracesLive, StandsInList, DrainsQueue, MarkLabel, SweepLabel
  <2> QED
    BY <1>2, <2>1, QuietKeepsTraces
<1> QED
  BY <1>1, <1>2

(***************************************************************************)
(* Steps that leave the list alone leave its nodes and the live boxes.     *)
(***************************************************************************)
LEMMA SameNodesSameBoxes ==
  ASSUME NEW c, ListInv(c), TypeOK', UNCHANGED <<head, next, mem>>
  PROVE  Live' = Live /\ InList' = InList
<1>1. TypeOK /\ AllocationListSound /\ NoNodeTwice
  BY DEF ListInv, RootInv
<1> QED
  BY <1>1, SameListKeeps DEF SameList, Live

(***************************************************************************)
(* The collector's own calls that are not of the cycle, and the background *)
(* thread's waiting and checking.                                          *)
(***************************************************************************)
LEMMA ControlKeepsTraces ==
  ASSUME NEW c \in Procs, UnassistedInv(c), QueueInv',
         \/ ForceCollect(c) \/ StopBackgroundCollection(c)
         \/ JoinBackgroundThread(c) \/ BackgroundStep(c)
  PROVE  TracesLive(c)'
<1>0. /\ TypeOK /\ TypeOK' /\ ListInv(c) /\ TracesLive(c)
      /\ MarksAsCollector(c) /\ IdleHands(c) /\ IdleHands(c)'
  BY UnassistedFacts DEF QueueInv, BusyInv
<1>1. Others(c)
  BY <1>0, ControlStepCounts DEF BusyStep
<1>2. UNCHANGED <<head, next, mem, gray_queue>>
  BY DEF ForceCollect, StopBackgroundCollection, JoinBackgroundThread,
     BackgroundStep, BackgroundWait, BackgroundNotified, BackgroundTimeout,
     BackgroundCheck, BackgroundAbort
<1>3. Live' = Live
  BY <1>0, <1>2, SameNodesSameBoxes
<1>4. CASE \/ StopBackgroundCollection(c) \/ JoinBackgroundThread(c)
           \/ BackgroundAbort(c)
  <2>1. pc'[c] \in {"join", "ready", "bg_done"}
    BY <1>0, <1>4, GotoMoves DEF StopBackgroundCollection,
       JoinBackgroundThread, BackgroundAbort
  <2>2. StandsInList(c)' /\ DrainsQueue(c)'
    BY <2>1 DEF StandsInList, DrainsQueue, MarkLabel, SweepLabel
  <2> QED
    BY <1>0, <1>1, <1>2, <1>3, <2>1, <2>2, QuietKeepsTraces
<1>5. CASE \/ ForceCollect(c) \/ BackgroundWait(c) \/ BackgroundNotified(c)
           \/ BackgroundTimeout(c) \/ BackgroundCheck(c)
  <2>1. /\ local' = local
        /\ \/ pc[c] = "bg_check" /\ pc'[c] = "mark"
           \/ pc'[c] \in {"try_mark", "bg_enter", "bg_sleep", "bg_done",
                          "bg_abort"}
    BY <1>0, <1>5, GotoMoves DEF ForceCollect, BackgroundWait,
       BackgroundNotified, BackgroundTimeout, BackgroundCheck
  <2> QED
    BY <1>0, <1>1, <1>2, <1>3, <2>1, JumpKeepsTraces
<1> QED
  BY <1>4, <1>5 DEF BackgroundStep

(***************************************************************************)
(* The start of a cycle and the root scan, which pushes nodes of the list. *)
(***************************************************************************)
LEMMA ScanKeepsTraces ==
  ASSUME NEW c \in Procs, UnassistedInv(c), QueueInv',
         \/ TryStartMarking(c) \/ RootsLoadHead(c) \/ RootsVisit(c)
         \/ RootsMerge(c) \/ BusyTest(c)
  PROVE  TracesLive(c)'
<1> DEFINE l == local[c]
<1>0. /\ TypeOK /\ TypeOK' /\ ListInv(c) /\ TracesLive(c) /\ l \in Locals
      /\ MarksAsCollector(c) /\ IdleHands(c) /\ IdleHands(c)'
      /\ InList \subseteq Live /\ ListClosed(InList)
      /\ gray_queue \in Seq(Objects) /\ l.tracer \in Seq(Objects)
  BY UnassistedFacts, LocalType DEF QueueInv, BusyInv, Locals
<1>1. Others(c)
  BY <1>0, ScanStepCounts DEF BusyStep
<1>2. UNCHANGED <<head, next, mem>>
  BY DEF TryStartMarking, RootsLoadHead, RootsVisit, RootsMerge, BusyTest
<1>3. Live' = Live /\ InList' = InList
  BY <1>0, <1>2, SameNodesSameBoxes
<1>4. CASE TryStartMarking(c)
  <2>1. gray_queue' = gray_queue
        /\ pc'[c] \in {"roots_head", "ready", "bg_enter"}
    BY <1>0, <1>4, GotoMoves DEF TryStartMarking, CollectorHome
  <2>2. StandsInList(c)' /\ DrainsQueue(c)'
    BY <2>1 DEF StandsInList, DrainsQueue, MarkLabel, SweepLabel
  <2> QED
    BY <1>0, <1>1, <1>3, <2>1, <2>2, QuietKeepsTraces
<1>5. CASE RootsLoadHead(c)
  <2>1. /\ gray_queue' = gray_queue /\ pc[c] = "roots_head"
        /\ pc'[c] = "roots"
    BY <1>0, <1>5, GotoMoves DEF RootsLoadHead
  <2>2. local'[c] = [l EXCEPT !.current = head]
    BY <1>0, <1>5, SetLocalMoves DEF RootsLoadHead
  <2>3. /\ local'[c].current = head /\ local'[c].tracer = l.tracer
        /\ local'[c].tracing = l.tracing
    BY <1>0, <2>2 DEF Locals
  <2>4. QueueIsLive(c)'
    BY <1>0, <1>3, <2>1, <2>3 DEF TracesLive, QueueIsLive, InHand
  <2>5. StandsInList(c)' /\ DrainsQueue(c)' /\ DoesNotAssist(c)'
    BY <1>0, <1>3, <2>1, <2>3 DEF StandsInList, DrainsQueue, MarkLabel,
       SweepLabel, DoesNotAssist, ListClosed
  <2> QED
    BY <1>0, <1>1, <2>4, <2>5, OwnKeepsTraces
<1>6. CASE RootsVisit(c)
  <2>1. /\ gray_queue' = gray_queue /\ pc[c] = "roots" /\ pc'[c] = "roots"
        /\ l.current # Null
    BY <1>0, <1>6 DEF RootsVisit
  <2>2. l.current \in InList
    BY <1>0, <2>1 DEF TracesLive, StandsInList
  <2>3. PICK s \in {l.tracer, PushIfWhite(l.tracer, l.current)} :
          SetLocal(c, [l EXCEPT !.tracer = s, !.current = next[l.current]])
    <3>1. CASE SetLocal(c, [l EXCEPT !.current = next[l.current]])
      <4>1. [l EXCEPT !.current = next[l.current]]
              = [l EXCEPT !.tracer = l.tracer, !.current = next[l.current]]
        BY <1>0 DEF Locals
      <4> QED
        BY <3>1, <4>1
    <3>2. CASE SetLocal(c, [l EXCEPT
                              !.tracer = PushIfWhite(l.tracer, l.current),
                              !.current = next[l.current]])
      BY <3>2
    <3> QED
      BY <1>6, <3>1, <3>2 DEF RootsVisit
  <2>4. local'[c] = [l EXCEPT !.tracer = s, !.current = next[l.current]]
    BY <1>0, <2>3, SetLocalMoves
  <2>5. /\ local'[c].current = next[l.current] /\ local'[c].tracer = s
        /\ local'[c].tracing = l.tracing
    BY <1>0, <2>4 DEF Locals
  <2>6. SeqRange(s) \subseteq Live \cup {Null}
    <3>1. SeqRange(l.tracer) \subseteq Live \cup {Null}
      BY <1>0 DEF TracesLive, QueueIsLive, InHand
    <3>2. l.current \in Live \cup {Null}
      BY <1>0, <2>2
    <3>3. SeqRange(Append(l.tracer, l.current)) \subseteq Live \cup {Null}
      BY <1>0, <3>1, <3>2, ItemsStay
    <3> QED
      BY <2>3, <3>1, <3>3 DEF PushIfWhite
  <2>7. QueueIsLive(c)'
    BY <1>0, <1>3, <2>1, <2>5, <2>6 DEF TracesLive, QueueIsLive, InHand
  <2>8. StandsInList(c)' /\ DrainsQueue(c)' /\ DoesNotAssist(c)'
    BY <1>0, <1>3, <2>1, <2>2, <2>5 DEF StandsInList, DrainsQueue,
       MarkLabel, SweepLabel, DoesNotAssist, ListClosed
  <2> QED
    BY <1>0, <1>1, <2>7, <2>8, OwnKeepsTraces
<1>7. CASE RootsMerge(c)
  <2>1. /\ gray_queue' = gray_queue \o l.tracer /\ pc[c] = "roots"
        /\ l.current = Null /\ pc'[c] \in {"bg_check", "mark"}
    BY <1>0, <1>7, GotoMoves DEF RootsMerge
  <2>2. local'[c] = [l EXCEPT !.tracer = <<>>]
    BY <1>0, <1>7, SetLocalMoves DEF RootsMerge
  <2>3. /\ local'[c].current = Null /\ local'[c].tracer = <<>>
        /\ local'[c].tracing = l.tracing /\ local'[c].op = l.op
    BY <1>0, <2>1, <2>2 DEF Locals
  <2>4. SeqRange(gray_queue') \subseteq Live \cup {Null}
    <3>1. /\ SeqRange(l.tracer) \subseteq Live \cup {Null}
          /\ SeqRange(gray_queue) \subseteq Live \cup {Null}
      BY <1>0 DEF TracesLive, QueueIsLive, InHand
    <3> QED
      BY <1>0, <2>1, <3>1, ItemsStay
  <2>5. InHand(c)' \subseteq Live \cup {Null}
    BY <1>0, <2>3 DEF TracesLive, QueueIsLive, InHand, SeqRange
  <2>6. QueueIsLive(c)'
    BY <1>3, <2>1, <2>4, <2>5 DEF QueueIsLive
  <2>7. StandsInList(c)' /\ DrainsQueue(c)' /\ DoesNotAssist(c)'
    BY <1>0, <2>1, <2>3 DEF StandsInList, DrainsQueue, MarkLabel,
       SweepLabel, DoesNotAssist, MarksAsCollector, BeforeMarking, Allocates
  <2> QED
    BY <1>0, <1>1, <2>6, <2>7, OwnKeepsTraces
<1>8. CASE BusyTest(c)
  <2>1. /\ gray_queue' = gray_queue /\ local' = local
        /\ pc[c] = "busy_test"
        /\ pc'[c] \in {"bg_check", "mark", "sweep_start"}
    BY <1>0, <1>8, GotoMoves DEF BusyTest
  <2> QED
    BY <1>0, <1>1, <1>3, <2>1, JumpKeepsTraces
<1> QED
  BY <1>4, <1>5, <1>6, <1>7, <1>8

(***************************************************************************)
(* The marker: what it pops is live, the object it traces names none, and  *)
(* a round that did no work ends with the queue empty.                     *)
(***************************************************************************)
LEMMA MarkKeepsTraces ==
  ASSUME NEW c \in Procs, UnassistedProgram(c), UnassistedInv(c), QueueInv',
         MarkStep(c)
  PROVE  TracesLive(c)'
<1> DEFINE l == local[c]
           S == Live \cup {Null}
<1>0. /\ TypeOK /\ TypeOK' /\ ListInv(c) /\ TracesLive(c) /\ l \in Locals
      /\ IdleHands(c) /\ IdleHands(c)' /\ CellsAreEmpty
      /\ gray_queue \in Seq(Objects) /\ l.tracer \in Seq(Objects)
      /\ l.work_done \in Nat
  BY UnassistedFacts, LocalType DEF QueueInv, BusyInv, Locals
<1>1. Others(c)
  BY <1>0, MarkStepCounts DEF BusyStep
<1>2. UNCHANGED <<head, next, mem>>
  BY DEF MarkStep, MarkPop, MarkSteal, TraceField, MarkBlack, MarkNoWork,
     MarkBudgetSpent
<1>3. Live' = Live
  BY <1>0, <1>2, SameNodesSameBoxes
<1>4. /\ pc[c] \in {"mark", "trace"} /\ ~ Allocates(c) /\ l.current = Null
      /\ SeqRange(gray_queue) \subseteq S /\ SeqRange(l.tracer) \subseteq S
  <2>1. pc[c] \in {"mark", "trace"}
    BY DEF MarkStep, MarkPop, MarkSteal, TraceField, MarkBlack, MarkNoWork,
       MarkBudgetSpent, Goto
  <2> QED
    BY <1>0, <2>1 DEF TracesLive, DoesNotAssist, StandsInList, QueueIsLive,
       InHand, MarkLabel
<1>5. local'[c].op = l.op /\ local'[c].current = Null
  BY <1>0, <1>4, MarkStepStands DEF SameWalk
<1>6. ASSUME pc'[c] \in {"mark", "trace"}, SeqRange(gray_queue') \subseteq S,
             SeqRange(local'[c].tracer) \subseteq S, local'[c].tracing \in S,
             pc'[c] = "trace" => local'[c].tracing \in Objects
      PROVE  TracesLive(c)'
  <2>1. QueueIsLive(c)'
    BY <1>3, <1>6 DEF QueueIsLive, InHand
  <2>2. StandsInList(c)' /\ DrainsQueue(c)' /\ DoesNotAssist(c)'
    BY <1>4, <1>5, <1>6 DEF StandsInList, DrainsQueue, DoesNotAssist,
       MarkLabel, SweepLabel, Allocates
  <2> QED
    BY <1>0, <1>1, <2>1, <2>2, OwnKeepsTraces
<1>7. CASE MarkPop(c)
  <2> DEFINE o == l.tracer[Len(l.tracer)]
             r == SubSeq(l.tracer, 1, Len(l.tracer) - 1)
             d == IF o \in NoTrace THEN {} ELSE Fields
  <2>1. gray_queue' = gray_queue /\ pc'[c] = "trace" /\ l.tracer # <<>>
    BY <1>0, <1>7, GotoMoves DEF MarkPop
  <2>2. local'[c] = [l EXCEPT !.tracer = r, !.tracing = o, !.pending = d]
    BY <1>0, <1>7, SetLocalMoves DEF MarkPop
  <2>3. local'[c].tracer = r /\ local'[c].tracing = o
    BY <1>0, <2>2 DEF Locals
  <2>4. Len(l.tracer) \in Nat /\ Len(l.tracer) # 0
    BY <1>0, <2>1, LenProperties, EmptySeq
  <2>5. o \in Objects /\ o \in S
    BY <1>0, <1>4, <2>4, ElementOfSeq DEF SeqRange
  <2>6. SeqRange(r) \subseteq S
    <3>1. Len(l.tracer) - 1 \in 0..Len(l.tracer)
      BY <2>4
    <3> QED
      BY <1>0, <1>4, <3>1, ItemsStay
  <2> QED
    BY <1>4, <1>6, <2>1, <2>3, <2>5, <2>6
<1>8. CASE MarkSteal(c)
  <2> DEFINE n == IF Len(gray_queue) < BatchSize THEN Len(gray_queue)
                                                 ELSE BatchSize
  <2>1. pc'[c] = "mark" /\ gray_queue'
                            = SubSeq(gray_queue, 1, Len(gray_queue) - n)
    BY <1>0, <1>8 DEF MarkSteal
  <2>2. local'[c] = [l EXCEPT !.tracer = LastItems(n)]
    BY <1>0, <1>8, SetLocalMoves DEF MarkSteal
  <2>3. local'[c].tracer = LastItems(n) /\ local'[c].tracing = l.tracing
    BY <1>0, <2>2 DEF Locals
  <2>4. n \in 0..Len(gray_queue) /\ Len(gray_queue) - n \in 0..Len(gray_queue)
    BY <1>0, LenProperties, HeapAssumption
  <2>5. SeqRange(LastItems(n)) \subseteq S /\ SeqRange(gray_queue') \subseteq S
    BY <1>0, <1>4, <2>1, <2>4, StolenItems, ItemsStay
  <2> QED
    BY <1>0, <1>6, <2>1, <2>3, <2>5 DEF TracesLive, QueueIsLive, InHand
<1>9. CASE TraceField(c)
  <2>1. PICK f \in l.pending :
          SetLocal(c, [l EXCEPT !.tracer =
                                  MarkTracer(l.tracer, ref[l.tracing][f]),
                                !.pending = l.pending \ {f}])
    BY <1>9 DEF TraceField
  <2>2. /\ gray_queue' = gray_queue /\ pc[c] = "trace" /\ pc'[c] = "trace"
        /\ l.tracing \in Objects /\ f \in Fields
    BY <1>0, <1>9, <2>1 DEF TraceField, TracesLive, QueueIsLive, Locals
  <2>3. MarkTracer(l.tracer, ref[l.tracing][f]) = l.tracer
    BY <1>0, <2>2, HeapAssumption DEF CellsAreEmpty, MarkTracer
  <2>4. local'[c] = [l EXCEPT !.tracer = l.tracer, !.pending = l.pending \ {f}]
    BY <1>0, <2>1, <2>3, SetLocalMoves
  <2>5. local'[c].tracer = l.tracer /\ local'[c].tracing = l.tracing
    BY <1>0, <2>4 DEF Locals
  <2> QED
    BY <1>0, <1>4, <1>6, <2>2, <2>5 DEF TracesLive, QueueIsLive, InHand
<1>10. CASE MarkBlack(c)
  <2>1. gray_queue' = gray_queue /\ pc'[c] = "mark"
    BY <1>0, <1>10, GotoMoves DEF MarkBlack
  <2>2. local'[c] = [l EXCEPT !.tracing = Null, !.work_done = @ + 1]
    BY <1>0, <1>10, SetLocalMoves DEF MarkBlack
  <2>3. local'[c].tracer = l.tracer /\ local'[c].tracing = Null
    BY <1>0, <2>2 DEF Locals
  <2> QED
    BY <1>4, <1>6, <2>1, <2>3
<1>11. CASE MarkNoWork(c)
  <2>1. /\ gray_queue' = gray_queue /\ gray_queue = <<>> /\ l.tracer = <<>>
        /\ pc[c] = "mark" /\ pc'[c] \in {"busy_test", "bg_check", "mark"}
    BY <1>0, <1>4, <1>11, GotoMoves DEF MarkNoWork, AfterMarking, Allocates
  <2>2. local'[c] = [l EXCEPT !.work_done = 0]
    BY <1>0, <1>11, SetLocalMoves DEF MarkNoWork
  <2>3. local'[c].tracer = l.tracer /\ local'[c].tracing = Null
    BY <1>0, <2>1, <2>2 DEF Locals, IdleHands
  <2>4. CASE pc'[c] = "mark"
    BY <1>4, <1>6, <2>1, <2>3, <2>4
  <2>5. CASE pc'[c] \in {"busy_test", "bg_check"}
    <3>1. StandsInList(c)' /\ DrainsQueue(c)'
      BY <1>5, <2>1, <2>5 DEF StandsInList, DrainsQueue
    <3> QED
      BY <1>0, <1>1, <1>3, <2>1, <2>5, <3>1, QuietKeepsTraces
  <2> QED
    BY <2>1, <2>4, <2>5
<1>12. CASE MarkBudgetSpent(c)
  <2>1. /\ gray_queue' = gray_queue \o l.tracer /\ pc[c] = "mark"
        /\ pc'[c] = AfterMarking(c) /\ ~ HasBudget(c)
    BY <1>0, <1>12, GotoMoves DEF MarkBudgetSpent
  <2>2. l.work_done # 0
    BY <1>0, <1>4, <2>1, HeapAssumption
    DEF HasBudget, WorkBudget, Allocates, UnassistedProgram
  <2>3. pc'[c] \in {"bg_check", "mark"}
    BY <1>4, <2>1, <2>2 DEF AfterMarking, Allocates
  <2>4. local'[c] = [l EXCEPT !.tracer = <<>>, !.work_done = 0]
    BY <1>0, <1>12, SetLocalMoves DEF MarkBudgetSpent
  <2>5. local'[c].tracer = <<>> /\ local'[c].tracing = Null
    BY <1>0, <2>1, <2>4 DEF Locals, IdleHands
  <2>6. SeqRange(gray_queue') \subseteq S
    BY <1>0, <1>4, <2>1, ItemsStay
  <2>7. SeqRange(local'[c].tracer) = {}
    BY <2>5 DEF SeqRange
  <2>8. QueueIsLive(c)'
    BY <1>3, <2>3, <2>5, <2>6, <2>7 DEF QueueIsLive, InHand
  <2>9. StandsInList(c)' /\ DrainsQueue(c)' /\ DoesNotAssist(c)'
    BY <1>4, <1>5, <2>3 DEF StandsInList, DrainsQueue, DoesNotAssist,
       MarkLabel, SweepLabel, Allocates
  <2> QED
    BY <1>0, <1>1, <2>8, <2>9, OwnKeepsTraces
<1> QED
  BY <1>7, <1>8, <1>9, <1>10, <1>11, <1>12 DEF MarkStep

(***************************************************************************)
(* The sweep, which drops boxes while the gray queue is empty.             *)
(***************************************************************************)
LEMMA SweepKeepsTraces ==
  ASSUME NEW c \in Procs, UnassistedInv(c), QueueInv', SweepStep(c)
  PROVE  TracesLive(c)'
<1>0. /\ TypeOK /\ TypeOK' /\ ListInv(c) /\ TracesLive(c)
      /\ MarksAsCollector(c) /\ IdleHands(c) /\ IdleHands(c)'
  BY UnassistedFacts DEF QueueInv, BusyInv
<1>1. Others(c)
  BY <1>0, ScanStepCounts DEF BusyStep
<1>2. gray_queue' = gray_queue
  BY DEF SweepStep, StartSweeping, SweepLoadHead, SweepColor, SweepRoot,
     SweepKeep, SweepFree, SweepSubtract, FinishSweep, UpdateThreshold,
     FinishGc
<1>3. CASE StartSweeping(c)
  <2>1. /\ local' = local /\ pc[c] = "sweep_start" /\ pc'[c] = "sweep_head"
        /\ UNCHANGED <<head, next, mem>>
    BY <1>0, <1>3, GotoMoves DEF StartSweeping
  <2> QED
    BY <1>0, <1>1, <1>2, <2>1, SameNodesSameBoxes, JumpKeepsTraces
<1>4. CASE \/ SweepLoadHead(c) \/ SweepColor(c) \/ SweepRoot(c)
           \/ SweepKeep(c) \/ SweepFree(c)
  <2>1. /\ pc[c] \in SweepLabel
        /\ pc'[c] \in {"sweep", "sweep_root", "sweep_keep", "sweep_free"}
    BY <1>0, <1>4, GotoMoves DEF SweepLoadHead, SweepColor, SweepRoot,
       SweepKeep, SweepFree, SweepLabel
  <2>2. gray_queue = <<>>
    BY <1>0, <2>1 DEF TracesLive, DrainsQueue
  <2>3. StandsInList(c)' /\ DrainsQueue(c)'
    BY <1>2, <2>1, <2>2 DEF StandsInList, DrainsQueue, MarkLabel
  <2> QED
    BY <1>0, <1>1, <1>2, <2>1, <2>2, <2>3, QuietKeepsTraces
<1>5. CASE \/ SweepSubtract(c) \/ FinishSweep(c) \/ UpdateThreshold(c)
           \/ FinishGc(c)
  <2>1. /\ pc'[c] \in {"finish_sweep", "threshold", "finish", "ready",
                       "bg_enter"}
        /\ UNCHANGED <<head, next, mem>>
    BY <1>0, <1>5, GotoMoves DEF SweepSubtract, FinishSweep,
       UpdateThreshold, FinishGc, CollectorHome
  <2>2. Live' = Live
    BY <1>0, <2>1, SameNodesSameBoxes
  <2>3. StandsInList(c)' /\ DrainsQueue(c)'
    BY <2>1 DEF StandsInList, DrainsQueue, MarkLabel, SweepLabel
  <2> QED
    BY <1>0, <1>1, <1>2, <2>1, <2>2, <2>3, QuietKeepsTraces
<1> QED
  BY <1>3, <1>4, <1>5 DEF SweepStep

(***************************************************************************)
(* The steps of the other threads.                                         *)
(***************************************************************************)
LEMMA OtherStepKeepsTraces ==
  ASSUME NEW c \in Procs, UnassistedProgram(c), UnassistedInv(c), QueueInv',
         RootInv', NEW t \in Threads \ {c},
         MutatorCall(t) \/ CollectorCall(t) \/ ThreadStep(t)
  PROVE  TracesLive(c)'
<1>0. /\ TypeOK /\ TypeOK' /\ ListInv(c) /\ TracesLive(c) /\ t \in Procs \ {c}
      /\ OnlyMutates(t) /\ DoesNotAssist(t) /\ MarksAsCollector(t)
      /\ IdleHands(c)' /\ SoleCollector(c) /\ UnbornUntilStarted
  BY UnassistedFacts DEF QueueInv, BusyInv, TracesLive, Procs, ListInv,
     UnassistedProgram, FlatProgram
<1>1. CASE MutatorCall(t) \/ MutatorStep(t)
  <2>1. Others(t)
    BY <1>0, <1>1, MutatorCallCounts, MutatorStepCounts DEF BusyStep
  <2>2. Live \subseteq Live' /\ InList \subseteq InList'
    BY <1>0, <1>1, MutatorsDropNothing DEF MutatorMove
  <2>3. gray_queue' = gray_queue /\ DoesNotAssist(t)' /\ pc'[t] # "count"
    BY <1>1, CallsDoNotTrace
  <2> QED
    BY <1>0, <2>1, <2>2, <2>3, OthersKeepTraces
<1>2. CASE StopBackgroundCollection(t) \/ JoinBackgroundThread(t)
  <2>1. Others(t)
    BY <1>0, <1>2, ControlStepCounts DEF BusyStep
  <2>2. /\ UNCHANGED <<head, next, mem, gray_queue>>
        /\ pc'[t] \in {"join", "ready"}
    BY <1>0, <1>2, GotoMoves DEF StopBackgroundCollection,
       JoinBackgroundThread
  <2>3. Live' = Live /\ InList' = InList /\ DoesNotAssist(t)'
    BY <1>0, <2>2, SameNodesSameBoxes DEF DoesNotAssist
  <2> QED
    BY <1>0, <2>1, <2>2, <2>3, OthersKeepTraces
<1>3. CASE StartBackgroundCollection(t)
  <2>1. /\ pc' = [pc EXCEPT ![c] = "bg_enter"]
        /\ UNCHANGED <<head, next, mem, gray_queue, local>>
    BY <1>0, <1>3 DEF StartBackgroundCollection, SoleCollector
  <2>2. pc'[c] = "bg_enter" /\ Others(c)
    BY <1>0, <2>1 DEF TypeOK, Others
  <2>3. Live' = Live
    BY <1>0, <2>1, SameNodesSameBoxes
  <2>4. StandsInList(c)' /\ DrainsQueue(c)'
    BY <2>2 DEF StandsInList, DrainsQueue, MarkLabel, SweepLabel
  <2> QED
    BY <1>0, <2>1, <2>2, <2>3, <2>4, QuietKeepsTraces
<1>4. ~ MarkStep(t)
  BY <1>0 DEF OnlyMutates, DoesNotAssist, MarkStep, MarkPop, MarkSteal,
     TraceField, MarkBlack, MarkNoWork, MarkBudgetSpent, Goto
<1> QED
  BY <1>0, <1>1, <1>2, <1>3, <1>4, MutatorsOnlyMutate DEF MutatorMove

(***************************************************************************)
(* The steps of the collecting thread between two collections.             *)
(***************************************************************************)
LEMMA OwnCallKeepsTraces ==
  ASSUME NEW c \in Threads, UnassistedProgram(c), UnassistedInv(c),
         QueueInv', RootInv', MutatorCall(c) \/ MutatorStep(c)
  PROVE  TracesLive(c)'
<1>0. /\ TypeOK /\ TypeOK' /\ ListInv(c) /\ TracesLive(c) /\ c \in Procs
      /\ IdleHands(c)'
  BY UnassistedFacts DEF QueueInv, BusyInv, Procs
<1>1. Others(c)
  BY <1>0, MutatorCallCounts, MutatorStepCounts DEF BusyStep
<1>2. Live \subseteq Live' /\ InList \subseteq InList'
  BY <1>0, MutatorsDropNothing DEF MutatorMove
<1>3. /\ gray_queue' = gray_queue /\ DoesNotAssist(c)'
      /\ pc'[c] \notin CollectingLabel \cup {"mark", "trace"}
      /\ pc'[c] = "count" => local'[c].current \in InList \cup {Null}
  BY <1>0, CallsDoNotTrace
<1>4. InHand(c)' = {Null}
  BY <1>0, <1>3, NothingWillBeInHand DEF CollectingLabel
<1>5. QueueIsLive(c)'
  BY <1>0, <1>2, <1>3, <1>4 DEF QueueIsLive, TracesLive
<1>6. StandsInList(c)' /\ DrainsQueue(c)'
  BY <1>2, <1>3 DEF StandsInList, DrainsQueue, CollectingLabel, MarkLabel,
     SweepLabel
<1> QED
  BY <1>0, <1>1, <1>3, <1>5, <1>6, OwnKeepsTraces

(***************************************************************************)
(* Every step keeps what is gray live.                                     *)
(***************************************************************************)
LEMMA NextUnassistedInv ==
  ASSUME NEW c \in Procs, UnassistedProgram(c), UnassistedInv(c), [Next]_vars
  PROVE  UnassistedInv(c)'
<1>0. FlatInv(c)' /\ QueueInv' /\ RootInv'
  BY NextFlatInv, NextQueueInv
  DEF UnassistedInv, UnassistedProgram, FlatInv, HoldInv, ListInv
<1>1. ASSUME CycleStep(c) PROVE TracesLive(c)'
  BY <1>0, <1>1, ScanKeepsTraces, MarkKeepsTraces, SweepKeepsTraces
  DEF CycleStep
<1>2. ASSUME c \in Threads, MutatorCall(c) \/ CollectorCall(c) \/ ThreadStep(c)
      PROVE  TracesLive(c)'
  <2>1. ~ StartBackgroundCollection(c)
    BY <1>2, HeapAssumption
    DEF StartBackgroundCollection, UnassistedProgram, FlatProgram, SoleCollector
  <2> QED
    BY <1>0, <1>1, <1>2, <2>1, OwnCallKeepsTraces, ControlKeepsTraces
    DEF CollectorCall, ThreadStep
<1>3. ASSUME NEW b \in Background, BackgroundThread(b)
      PROVE  TracesLive(c)'
  <2>1. b = c
    BY DEF UnassistedProgram, FlatProgram, SoleCollector
  <2> QED
    BY <1>0, <1>1, <1>3, <2>1, ControlKeepsTraces DEF BackgroundThread
<1>4. ASSUME UNCHANGED vars PROVE TracesLive(c)'
  <2>1. UNCHANGED <<head, next, mem, gray_queue, pc, local>>
    BY <1>4 DEF vars
  <2>2. TypeOK' /\ ListInv(c) /\ TracesLive(c)
    BY <1>0, UnassistedFacts DEF QueueInv, BusyInv
  <2>3. Live' = Live /\ InList' = InList
    BY <2>1, <2>2, SameNodesSameBoxes
  <2> QED
    BY <2>1, <2>2, <2>3 DEF TracesLive, DoesNotAssist, Allocates,
       QueueIsLive, InHand, StandsInList, DrainsQueue
<1>5. TracesLive(c)'
  BY <1>0, <1>1, <1>2, <1>3, <1>4, OtherStepKeepsTraces DEF Next
<1> QED
  BY <1>0, <1>5 DEF UnassistedInv

(***************************************************************************)
(* Nothing is gray or walked to initially.                                 *)
(***************************************************************************)
LEMMA InitUnassistedInv ==
  ASSUME NEW c \in Procs, UnassistedProgram(c), Init
  PROVE  UnassistedInv(c)
<1>1. FlatInv(c) /\ QueueInv
  BY InitFlatInv, InitQueueInv DEF UnassistedProgram
<1>2. /\ gray_queue = <<>>
      /\ \A p \in Procs : pc[p] \in {"ready", "bg_enter", "unborn"}
  BY DEF Init
<1>3. \A p \in Procs : DoesNotAssist(p) /\ pc[p] # "count"
  BY <1>2 DEF DoesNotAssist
<1>4. QueueIsLive(c)
  <2>1. InHand(c) = {Null}
    BY <1>1, <1>2, <1>3, NothingInHand DEF QueueInv
  <2> QED
    BY <1>2, <2>1 DEF QueueIsLive, SeqRange
<1>5. StandsInList(c) /\ DrainsQueue(c)
  BY <1>2 DEF StandsInList, DrainsQueue, MarkLabel, SweepLabel
<1>6. TracesLive(c)
  BY <1>3, <1>4, <1>5 DEF TracesLive, Procs
<1> QED
  BY <1>1, <1>6 DEF UnassistedInv

(***************************************************************************)
(* The other threads have nothing gray in hand and walk nowhere.           *)
(***************************************************************************)
LEMMA OthersTraceNothing ==
  ASSUME NEW c \in Procs, UnassistedProgram(c), UnassistedInv(c),
         NEW p \in Procs \ {c}
  PROVE  /\ InHand(p) = {Null} /\ WalkedTo(p) = {}
         /\ pc[p] # "sweep_start"
<1>1. /\ OnlyMutates(p) /\ IdleHands(p) /\ DoesNotAssist(p)
      /\ pc[p] # "count"
  BY UnassistedFacts
  DEF TracesLive, UnassistedProgram, FlatProgram, SoleCollector, Procs
<1>2. pc[p] \notin CollectingLabel \cup {"mark", "trace"}
  BY <1>1 DEF OnlyMutates, DoesNotAssist
<1>3. InHand(p) = {Null}
  BY <1>1, <1>2, NothingInHand DEF CollectingLabel
<1> QED
  BY <1>1, <1>2, <1>3 DEF WalkedTo, CollectingLabel

(***************************************************************************)
(* Queue, tracer and walk lead to live boxes.                              *)
(***************************************************************************)
LEMMA FlatTraversalsAreLive ==
  ASSUME NEW c \in Procs, UnassistedProgram(c), UnassistedInv(c)
  PROVE  NoStaleTraversal
<1>0. InList \subseteq Live /\ SweepsTheList(c) /\ TracesLive(c)
  BY UnassistedFacts
<1>1. /\ SeqRange(gray_queue) \subseteq Live \cup {Null}
      /\ \A p \in Procs : InHand(p) \subseteq Live \cup {Null}
  BY <1>0, OthersTraceNothing DEF TracesLive, QueueIsLive
<1>2. WalkedTo(c) \subseteq Live \cup {Null}
  <2>1. CASE pc[c] \in {"roots", "count"}
    BY <1>0, <2>1 DEF TracesLive, StandsInList, WalkedTo, SweepLabel
  <2>2. CASE pc[c] = "sweep_head"
    BY <1>0, <2>2 DEF TracesLive, StandsInList, WalkedTo, SweepLabel,
       SweepsTheList, WalkLabel, SweptLabel
  <2>3. CASE pc[c] \in WalkLabel
    BY <1>0, <2>3 DEF WalkedTo, SweepLabel, SweepsTheList, WalkLabel
  <2>4. CASE pc[c] \notin {"roots", "count"} \cup SweepLabel
    BY <2>4 DEF WalkedTo
  <2> QED
    BY <2>1, <2>2, <2>3, <2>4 DEF SweepLabel, WalkLabel
<1>3. \A p \in Procs : WalkedTo(p) \subseteq Live \cup {Null}
  BY <1>2, OthersTraceNothing
<1> QED
  BY <1>1, <1>3 DEF NoStaleTraversal, InTracer, Live

(***************************************************************************)
(* The collector goes on to sweep from an empty queue, and nobody has      *)
(* anything gray in hand.                                                  *)
(***************************************************************************)
LEMMA FlatMarkingCompletes ==
  ASSUME NEW c \in Procs, UnassistedProgram(c), UnassistedInv(c)
  PROVE  MarkingComplete
<1> SUFFICES ASSUME NEW p \in Procs, pc[p] = "sweep_start"
             PROVE  /\ gray_queue = <<>>
                    /\ \A o \in Live : color[o] # "Gray"
  BY DEF MarkingComplete
<1>1. p = c
  BY OthersTraceNothing
<1>2. /\ TracesLive(c) /\ IdleHands(c) /\ DoesNotAssist(c)
      /\ EveryGrayIsQueued
  BY UnassistedFacts DEF UnassistedInv, QueueInv, TracesLive
<1>3. gray_queue = <<>>
  BY <1>1, <1>2 DEF TracesLive, DrainsQueue
<1>4. \A q \in Procs : InHand(q) = {Null}
  BY <1>1, <1>2, NothingInHand, OthersTraceNothing
<1>5. SeqRange(gray_queue) \cup InTracer \subseteq {Null}
  BY <1>3, <1>4 DEF InTracer, SeqRange
<1> QED
  BY <1>2, <1>3, <1>5, HeapAssumption DEF EveryGrayIsQueued, Live

(***************************************************************************)
(* In such a program neither the gray queue, nor a tracer, nor a walk of   *)
(* the list meets a dropped box, though all threads push boxes and drop    *)
(* GcRoots while the heap is marked and swept.                             *)
(***************************************************************************)
THEOREM FlatTraversalIsSafe ==
  ASSUME NEW c \in Procs, UnassistedProgram(c)
  PROVE  Spec => []NoStaleTraversal
<1>1. Init => UnassistedInv(c)
  BY InitUnassistedInv
<1>2. UnassistedInv(c) /\ [Next]_vars => UnassistedInv(c)'
  BY NextUnassistedInv
<1>3. UnassistedInv(c) => NoStaleTraversal
  BY FlatTraversalsAreLive
<1> QED
  BY <1>1, <1>2, <1>3, PTL DEF Spec

(***************************************************************************)
(* And do_sweep starts with no object gray.                                *)
(***************************************************************************)
THEOREM FlatMarkingIsCompleted ==
  ASSUME NEW c \in Procs, UnassistedProgram(c)
  PROVE  Spec => []MarkingComplete
<1>1. Init => UnassistedInv(c)
  BY InitUnassistedInv
<1>2. UnassistedInv(c) /\ [Next]_vars => UnassistedInv(c)'
  BY NextUnassistedInv
<1>3. UnassistedInv(c) => MarkingComplete
  BY FlatMarkingCompletes
<1> QED
  BY <1>1, <1>2, <1>3, PTL DEF Spec

-----------------------------------------------------------------------------

Promise == INSTANCE AbstractHeapProofs WITH mem <- AbstractMem,
                                            ref <- AbstractRef

(***************************************************************************)
(* Every object the program can reach through GcRoots that calls have      *)
(* returned, in the cells as they are, is a box do_sweep has not dropped.  *)
(***************************************************************************)
ReturnedRootsSafe == \A o \in Abstract!Reachable : mem[o] = "live"

(***************************************************************************)
(* Any behaviour of the collector that implements the abstract heap is     *)
(* memory safe for its program.                                            *)
(***************************************************************************)
THEOREM ImplementationIsSafe == ImplementsAbstractHeap => []ReturnedRootsSafe
<1>1. Abstract!Init => Promise!Init
  BY DEF Abstract!Init, Abstract!TypeOK, Abstract!Held, Abstract!Live,
         Abstract!Successors, Promise!Init, Promise!TypeOK, Promise!Held,
         Promise!Live, Promise!Successors
<1>2. Abstract!Reachable = Promise!Reachable
  BY DEF Abstract!Reachable, Abstract!Closed, Abstract!Held,
         Abstract!Successors, Promise!Reachable, Promise!Closed, Promise!Held,
         Promise!Successors
<1>3. [Abstract!Next]_(Abstract!vars) => [Promise!Next]_(Promise!vars)
  BY <1>2 DEF Abstract!Next, Abstract!vars, Abstract!Allocate,
         Abstract!Root, Abstract!DropRoot, Abstract!Store, Abstract!Collect,
         Abstract!HeldBy, Abstract!Live,
         Promise!Next, Promise!vars, Promise!Allocate, Promise!Root,
         Promise!DropRoot, Promise!Store, Promise!Collect, Promise!HeldBy,
         Promise!Live
<1>4. Promise!NoDangling => ReturnedRootsSafe
  BY <1>2 DEF Promise!NoDangling, Promise!Live, AbstractMem, ReturnedRootsSafe
<1>5. Promise!Spec => []Promise!NoDangling
  BY Promise!PromiseIsSafe
<1>6. QED
  BY <1>1, <1>3, <1>4, <1>5, PTL
     DEF ImplementsAbstractHeap, Abstract!Spec, Promise!Spec

(***************************************************************************)
(* So it does, in programs of both kinds, whatever the options.            *)
(***************************************************************************)
THEOREM ReturnedRootsAreSafe ==
  ASSUME NEW c \in Procs,
         (LeafMutators(c) /\ CopiesAlone(c)) \/ FlatProgram(c)
  PROVE  Spec => []ReturnedRootsSafe
<1>1. Spec => ImplementsAbstractHeap
  BY HeapImplementsPromise, FlatHeapImplementsPromise
<1> QED
  BY <1>1, ImplementationIsSafe, PTL

=============================================================================
