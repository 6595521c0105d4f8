---------------------------- MODULE GcHeapProofs ----------------------------
(***************************************************************************)
(* What holds of a heap for every number of objects, threads, background   *)
(* threads and every choice of GcOptions: its types, the count of busy     *)
(* mutators and the gray queues, and then what the sweep relies on: root   *)
(* counts that count, a list of live boxes, and a collector that has the   *)
(* Sweeping phase to itself.                                               *)
(***************************************************************************)
EXTENDS GcHeap, PacingLemmas, FiniteSetTheorems, SequenceTheorems,
        WellFoundedInduction

(***************************************************************************)
(* The tuples that UNCHANGED names are always expanded.                    *)
(***************************************************************************)
USE DEF listVars, objectVars, counterVars

(***************************************************************************)
(* The locals of one thread are replaced by well-typed ones.               *)
(***************************************************************************)
LEMMA SetLocalType ==
  ASSUME TypeOK, NEW p \in Procs, NEW l \in Locals, SetLocal(p, l)
  PROVE  local' \in [Procs -> Locals]
BY DEF TypeOK, SetLocal

(***************************************************************************)
(* The locals of a thread, and those of an idle one, are well-typed.       *)
(***************************************************************************)
LEMMA LocalType ==
  ASSUME TypeOK, NEW p \in Procs
  PROVE  local[p] \in Locals /\ NoLocals \in Locals
BY DEF TypeOK, Locals, NoLocals, Operation, Pointer

(***************************************************************************)
(* A jump to a label is well-typed.                                        *)
(***************************************************************************)
LEMMA GotoType ==
  ASSUME TypeOK, NEW p \in Procs, NEW from, NEW to \in Label, Goto(p, from, to)
  PROVE  pc' \in [Procs -> Label]
BY DEF TypeOK, Goto

(***************************************************************************)
(* Tracer::mark and mark_header keep colors and queues well-typed, for any *)
(* value found in a field.                                                 *)
(***************************************************************************)
LEMMA MarkType ==
  ASSUME TypeOK, NEW s \in Seq(Objects), NEW v
  PROVE  /\ MarkColor(v) \in [Objects -> Color]
         /\ MarkTracer(s, v) \in Seq(Objects)
         /\ mark_white_to_gray(v) \in [Objects -> Color]
         /\ v \in Objects => PushIfWhite(s, v) \in Seq(Objects)
<1>1. mark_white_to_gray(v) \in [Objects -> Color]
  BY DEF TypeOK, mark_white_to_gray, Color
<1>2. MarkColor(v) \in [Objects -> Color]
  BY <1>1 DEF TypeOK, MarkColor, Color
<1>3. v \in Objects => PushIfWhite(s, v) \in Seq(Objects)
  BY DEF PushIfWhite
<1>4. MarkTracer(s, v) \in Seq(Objects)
  BY <1>3 DEF MarkTracer
<1> QED
  BY <1>1, <1>2, <1>3, <1>4

(***************************************************************************)
(* pop_work and steal_work take objects off the ends of well-typed queues. *)
(***************************************************************************)
LEMMA PopType ==
  ASSUME NEW s \in Seq(Objects), s # <<>>
  PROVE  /\ s[Len(s)] \in Objects
         /\ SubSeq(s, 1, Len(s) - 1) \in Seq(Objects)
<1>1. Len(s) \in Nat \ {0}
  BY EmptySeq
<1>2. \A i \in 1..Len(s) : s[i] \in Objects
  BY ElementOfSeq
<1>3. Len(s) \in 1..Len(s) /\ 1..(Len(s) - 1) \subseteq 1..Len(s)
  BY <1>1
<1>4. SubSeq(s, 1, Len(s) - 1) \in Seq(Objects)
  BY <1>1, <1>2, <1>3, SubSeqProperties
<1> QED
  BY <1>2, <1>3, <1>4

(***************************************************************************)
(* steal_work splits the shared queue in two well-typed parts.             *)
(***************************************************************************)
LEMMA StealType ==
  ASSUME TypeOK, NEW n \in 0..Len(gray_queue)
  PROVE  /\ LastItems(n) \in Seq(Objects)
         /\ SubSeq(gray_queue, 1, Len(gray_queue) - n) \in Seq(Objects)
<1>1. gray_queue \in Seq(Objects) /\ Len(gray_queue) \in Nat
  BY LenProperties DEF TypeOK
<1>2. \A i \in 1..Len(gray_queue) : gray_queue[i] \in Objects
  BY <1>1, ElementOfSeq
<1>3. \A i \in 1..n : gray_queue[Len(gray_queue) + 1 - i] \in Objects
  BY <1>1, <1>2
<1>4. LastItems(n) \in [1..n -> Objects]
  BY <1>3 DEF LastItems
<1>5. LastItems(n) \in Seq(Objects)
  BY <1>1, <1>4, IsASeq
<1>6. SubSeq(gray_queue, 1, Len(gray_queue) - n) \in Seq(Objects)
  BY <1>1, <1>2, SubSeqProperties
<1> QED
  BY <1>5, <1>6

-----------------------------------------------------------------------------

(***************************************************************************)
(* Beginning allocate, clone, drop, set, get or allocation_count.          *)
(***************************************************************************)
LEMMA MutatorCallTypeOK ==
  ASSUME TypeOK, NEW t \in Threads, MutatorCall(t)
  PROVE  TypeOK'
<1> DEFINE l == local[t]
<1>0. t \in Procs /\ l \in Locals
  BY LocalType DEF Procs
<1>1. CASE Allocate(t)
  <2>1. PICK o \in Objects :
          /\ mem' = [mem EXCEPT ![o] = "reserved"]
          /\ SetLocal(t, [l EXCEPT !.op = "allocate", !.current = o])
    BY <1>1 DEF Allocate
  <2>2. [l EXCEPT !.op = "allocate", !.current = o] \in Locals
    BY <1>0 DEF Locals, Operation, Pointer
  <2>3. local' \in [Procs -> Locals]
    BY <1>0, <2>1, <2>2, SetLocalType
  <2>4. pc' \in [Procs -> Label]
    BY <1>0, <1>1, GotoType DEF Allocate, Label
  <2>5. n_busy_marking' \in Int
    BY <1>1 DEF Allocate, TypeOK
  <2>6. mem' \in [Objects -> Mem]
    BY <2>1 DEF TypeOK, Mem
  <2> QED
    BY <1>1, <2>3, <2>4, <2>5, <2>6 DEF Allocate, TypeOK
<1>2. CASE CloneRoot(t)
  BY <1>0, <1>2, HeapAssumption DEF CloneRoot, HeldBy, TypeOK
<1>3. CASE DropRoot(t)
  BY <1>0, <1>3, HeapAssumption DEF DropRoot, HeldBy, TypeOK
<1>4. CASE CellSet(t)
  <2>0. NewValues(t) \subseteq Pointer
    <3>1. InCells(t) \subseteq Pointer
      BY DEF InCells, Successors, HeldBy, Pointer, TypeOK
    <3> QED
      BY <3>1 DEF NewValues, HeldBy, Pointer
  <2>1. PICK o \in Objects, f \in Fields, v \in Pointer :
          SetLocal(t, [l EXCEPT !.op = "set", !.current = o,
                                !.field = f, !.value = v])
    BY <1>4, <2>0 DEF CellSet, HeldBy
  <2>2. [l EXCEPT !.op = "set", !.current = o, !.field = f, !.value = v]
          \in Locals
    BY <1>0 DEF Locals, Operation, Pointer
  <2>3. local' \in [Procs -> Locals]
    BY <1>0, <2>1, <2>2, SetLocalType
  <2>4. pc' \in [Procs -> Label]
    BY <1>0, <1>4, GotoType DEF CellSet, Label
  <2> QED
    BY <1>4, <2>3, <2>4 DEF CellSet, TypeOK
<1>5. CASE CellGet(t)
  <2>1. PICK v \in Pointer : SetLocal(t, [l EXCEPT !.value = v])
    <3>1. PICK o \in Objects, f \in Fields :
            SetLocal(t, [l EXCEPT !.value = ref[o][f]])
      BY <1>5 DEF CellGet, HeldBy
    <3> QED
      BY <3>1 DEF TypeOK
  <2>2. [l EXCEPT !.value = v] \in Locals
    BY <1>0 DEF Locals
  <2>3. local' \in [Procs -> Locals]
    BY <1>0, <2>1, <2>2, SetLocalType
  <2>4. pc' \in [Procs -> Label]
    BY <1>0, <1>5, GotoType DEF CellGet, Label
  <2> QED
    BY <1>5, <2>3, <2>4 DEF CellGet, TypeOK
<1>6. CASE CountLoadHead(t)
  <2>1. [l EXCEPT !.current = head] \in Locals
    BY <1>0 DEF Locals, TypeOK
  <2>2. local' \in [Procs -> Locals]
    BY <1>0, <1>6, <2>1, SetLocalType DEF CountLoadHead
  <2>3. pc' \in [Procs -> Label]
    BY <1>0, <1>6, GotoType DEF CountLoadHead, Label
  <2> QED
    BY <1>6, <2>2, <2>3 DEF CountLoadHead, TypeOK
<1> QED
  BY <1>1, <1>2, <1>3, <1>4, <1>5, <1>6 DEF MutatorCall

(***************************************************************************)
(* The steps of those calls.                                               *)
(***************************************************************************)
LEMMA MutatorStepTypeOK ==
  ASSUME TypeOK, NEW t \in Threads, MutatorStep(t)
  PROVE  TypeOK'
<1> DEFINE l == local[t]
<1>0. t \in Procs /\ l \in Locals /\ NoLocals \in Locals
  BY LocalType DEF Procs
<1>1. CASE BusyCheck(t)
  <2>1. pc' \in [Procs -> Label]
    BY <1>0, <1>1 DEF BusyCheck, TypeOK, Label
  <2> QED
    BY <1>1, <2>1 DEF BusyCheck, TypeOK
<1>2. CASE DecrementBusyMarking(t)
  <2>1. pc' \in [Procs -> Label]
    BY <1>0, <1>2, GotoType DEF DecrementBusyMarking, AfterBusy, Label
  <2> QED
    BY <1>2, <2>1 DEF DecrementBusyMarking, TypeOK
<1>3. CASE AllocateBox(t)
  <2>1. pc' \in [Procs -> Label]
    BY <1>0, <1>3, GotoType DEF AllocateBox, Label
  <2>2. InitialData(t, l.current) \subseteq [Fields -> Pointer]
    BY DEF InitialData, HeldBy, Pointer
  <2>3. ref' \in [Objects -> [Fields -> Pointer]]
    BY <1>3, <2>2 DEF AllocateBox, TypeOK
  <2>4. mem' \in [Objects -> Mem]
    BY <1>3 DEF AllocateBox, TypeOK, Mem
  <2>5. color' \in [Objects -> Color]
    BY <1>3 DEF AllocateBox, TypeOK, Color
  <2>6. root_count' \in [Objects -> Int]
    <3>1. root_count \in [Objects -> Int]
      BY DEF TypeOK
    <3>2. root_count' = [root_count EXCEPT ![l.current] = 1]
      BY <1>3 DEF AllocateBox
    <3>3. 1 \in Int
      OBVIOUS
    <3>4. \A n \in Int : [root_count EXCEPT ![l.current] = n] \in [Objects -> Int]
      BY <3>1
    <3> QED
      BY <3>2, <3>3, <3>4
  <2> QED
    BY <1>3, <2>1, <2>3, <2>4, <2>5, <2>6 DEF AllocateBox, TypeOK
<1>4. CASE AllocateLoadHead(t)
  <2>1. pc' \in [Procs -> Label]
    BY <1>0, <1>4, GotoType DEF AllocateLoadHead, Label
  <2> QED
    BY <1>4, <2>1 DEF AllocateLoadHead, TypeOK
<1>5. CASE AllocatePublish(t)
  <2>1. pc' \in [Procs -> Label]
    BY <1>0, <1>5, GotoType DEF AllocatePublish, Label
  <2>2. l.current \in Pointer
    BY <1>0 DEF Locals
  <2> QED
    BY <1>5, <2>1, <2>2 DEF AllocatePublish, TypeOK, Mem
<1>6. CASE AllocateRetry(t)
  <2>1. pc' \in [Procs -> Label]
    BY <1>0, <1>6, GotoType DEF AllocateRetry, Label
  <2> QED
    BY <1>6, <2>1 DEF AllocateRetry, TypeOK
<1>7. CASE AllocateReturn(t)
  <2>1. pc' \in [Procs -> Label]
    BY <1>0, <1>7, GotoType DEF AllocateReturn, Label
  <2>2. local' \in [Procs -> Locals]
    BY <1>0, <1>7, SetLocalType DEF AllocateReturn
  <2>3. 1 \in 0..MaxHandles
    BY HeapAssumption
  <2>4. handles' \in [Threads -> [Objects -> 0..MaxHandles]]
    BY <1>7, <2>3 DEF AllocateReturn, TypeOK
  <2> QED
    BY <1>7, <2>1, <2>2, <2>4 DEF AllocateReturn, TypeOK
<1>8. CASE CellShade(t)
  <2>1. pc' \in [Procs -> Label]
    BY <1>0, <1>8, GotoType DEF CellShade, Label
  <2>2. l.tracer \in Seq(Objects)
    BY <1>0 DEF Locals
  <2>3. [l EXCEPT !.tracer = MarkTracer(@, l.value)] \in Locals
    BY <1>0, <2>2, MarkType DEF Locals
  <2>4. local' \in [Procs -> Locals]
    BY <1>0, <1>8, <2>3, SetLocalType DEF CellShade
  <2>5. color' \in [Objects -> Color]
    BY <1>8, <2>2, MarkType DEF CellShade
  <2> QED
    BY <1>8, <2>1, <2>4, <2>5 DEF CellShade, TypeOK
<1>9. CASE CellMergeWork(t)
  <2>1. pc' \in [Procs -> Label]
    BY <1>0, <1>9, GotoType DEF CellMergeWork, Label
  <2>2. l.tracer \in Seq(Objects)
    BY <1>0 DEF Locals
  <2>3. [l EXCEPT !.tracer = <<>>] \in Locals
    BY <1>0, EmptySeq DEF Locals
  <2>4. local' \in [Procs -> Locals]
    BY <1>0, <1>9, <2>3, SetLocalType DEF CellMergeWork
  <2>5. gray_queue' \in Seq(Objects)
    BY <1>9, <2>2, ConcatProperties DEF CellMergeWork, TypeOK
  <2> QED
    BY <1>9, <2>1, <2>4, <2>5 DEF CellMergeWork, TypeOK
<1>10. CASE CellStore(t)
  <2>1. pc' \in [Procs -> Label]
    BY <1>0, <1>10, GotoType DEF CellStore, Label
  <2>2. local' \in [Procs -> Locals]
    BY <1>0, <1>10, SetLocalType DEF CellStore
  <2>3. l.value \in Pointer
    BY <1>0 DEF Locals
  <2>4. ref' \in [Objects -> [Fields -> Pointer]]
    BY <1>10, <2>3 DEF CellStore, TypeOK
  <2> QED
    BY <1>10, <2>1, <2>2, <2>4 DEF CellStore, TypeOK
<1>11. CASE RootPointer(t)
  <2>1. pc' \in [Procs -> Label]
    BY <1>0, <1>11, GotoType DEF RootPointer, Label
  <2>2. local' \in [Procs -> Locals]
    BY <1>0, <1>11, SetLocalType DEF RootPointer
  <2>3. l.value \in Objects
    BY <1>11 DEF RootPointer, Reachable
  <2>4. /\ handles' \in [Threads -> [Objects -> 0..MaxHandles]]
        /\ root_count' \in [Objects -> Int]
    BY <1>11, <2>3, HeapAssumption DEF RootPointer, TypeOK
  <2> QED
    BY <1>11, <2>1, <2>2, <2>4 DEF RootPointer, TypeOK
<1>12. CASE ForgetPointer(t)
  <2>1. pc' \in [Procs -> Label]
    BY <1>0, <1>12, GotoType DEF ForgetPointer, Label
  <2>2. local' \in [Procs -> Locals]
    BY <1>0, <1>12, SetLocalType DEF ForgetPointer
  <2> QED
    BY <1>12, <2>1, <2>2 DEF ForgetPointer, TypeOK
<1>13. CASE CountNode(t)
  <2>1. pc' \in [Procs -> Label]
    BY <1>0, <1>13 DEF CountNode, TypeOK, Label
  <2>2. l.current # Null => [l EXCEPT !.current = next[l.current]] \in Locals
    BY <1>0 DEF Locals, Pointer, TypeOK
  <2>3. local' \in [Procs -> Locals]
    BY <1>0, <1>13, <2>2, SetLocalType DEF CountNode
  <2> QED
    BY <1>13, <2>1, <2>3 DEF CountNode, TypeOK
<1> QED
  BY <1>1, <1>2, <1>3, <1>4, <1>5, <1>6, <1>7, <1>8, <1>9, <1>10, <1>11,
     <1>12, <1>13 DEF MutatorStep

(***************************************************************************)
(* The steps of do_mark_with_tracer.                                       *)
(***************************************************************************)
LEMMA MarkStepTypeOK ==
  ASSUME TypeOK, NEW p \in Procs, MarkStep(p)
  PROVE  TypeOK'
<1> DEFINE l == local[p]
<1>0. l \in Locals /\ l.tracer \in Seq(Objects) /\ <<>> \in Seq(Objects)
  BY LocalType, EmptySeq DEF Locals
<1>1. CASE MarkPop(p)
  <2> DEFINE o == l.tracer[Len(l.tracer)]
             m == [l EXCEPT !.tracer  = SubSeq(l.tracer, 1, Len(l.tracer) - 1),
                            !.tracing = o,
                            !.pending = IF o \in NoTrace THEN {} ELSE Fields]
  <2>1. o \in Objects /\ SubSeq(l.tracer, 1, Len(l.tracer) - 1) \in Seq(Objects)
    BY <1>0, <1>1, PopType DEF MarkPop
  <2>2. m \in Locals
    BY <1>0, <2>1 DEF Locals, Pointer
  <2>3. local' \in [Procs -> Locals]
    BY <1>1, <2>2, SetLocalType DEF MarkPop
  <2>4. pc' \in [Procs -> Label]
    BY <1>1, GotoType DEF MarkPop, Label
  <2> QED
    BY <1>1, <2>3, <2>4 DEF MarkPop, TypeOK
<1>2. CASE MarkSteal(p)
  <2> DEFINE n == IF Len(gray_queue) < BatchSize THEN Len(gray_queue)
                                                 ELSE BatchSize
  <2>1. n \in 0..Len(gray_queue)
    BY HeapAssumption, LenProperties DEF TypeOK
  <2>2. LastItems(n) \in Seq(Objects)
        /\ SubSeq(gray_queue, 1, Len(gray_queue) - n) \in Seq(Objects)
    BY <2>1, StealType
  <2>3. [l EXCEPT !.tracer = LastItems(n)] \in Locals
    BY <1>0, <2>2 DEF Locals
  <2>4. local' \in [Procs -> Locals]
    BY <1>2, <2>3, SetLocalType DEF MarkSteal
  <2>5. gray_queue' \in Seq(Objects)
    BY <1>2, <2>2 DEF MarkSteal
  <2> QED
    BY <1>2, <2>4, <2>5 DEF MarkSteal, TypeOK
<1>3. CASE TraceField(p)
  <2>1. PICK f \in l.pending :
          LET v == ref[l.tracing][f]
          IN  /\ color' = MarkColor(v)
              /\ SetLocal(p, [l EXCEPT !.tracer = MarkTracer(@, v),
                                       !.pending = @ \ {f}])
    BY <1>3 DEF TraceField
  <2> DEFINE v == ref[l.tracing][f]
  <2>2. [l EXCEPT !.tracer = MarkTracer(@, v), !.pending = @ \ {f}] \in Locals
    BY <1>0, MarkType DEF Locals
  <2>3. local' \in [Procs -> Locals]
    BY <2>1, <2>2, SetLocalType
  <2>4. color' \in [Objects -> Color]
    BY <1>0, <2>1, MarkType
  <2> QED
    BY <1>3, <2>3, <2>4 DEF TraceField, TypeOK
<1>4. CASE MarkBlack(p)
  <2>1. [l EXCEPT !.tracing = Null, !.work_done = @ + 1] \in Locals
    <3>1. l.work_done + 1 \in Nat
      BY <1>0 DEF Locals
    <3>2. \A n \in Nat : [l EXCEPT !.tracing = Null, !.work_done = n] \in Locals
      BY <1>0 DEF Locals, Pointer
    <3> QED
      BY <3>1, <3>2
  <2>2. local' \in [Procs -> Locals]
    BY <1>4, <2>1, SetLocalType DEF MarkBlack
  <2>3. pc' \in [Procs -> Label]
    BY <1>4, GotoType DEF MarkBlack, Label
  <2>4. color' \in [Objects -> Color]
    BY <1>4 DEF MarkBlack, TypeOK, Color
  <2> QED
    BY <1>4, <2>2, <2>3, <2>4 DEF MarkBlack, TypeOK
<1>5. AfterMarking(p) \in Label
  BY DEF AfterMarking, Label
<1>6. CASE MarkNoWork(p)
  <2>1. [l EXCEPT !.work_done = 0] \in Locals
    BY <1>0 DEF Locals
  <2>2. local' \in [Procs -> Locals]
    BY <1>6, <2>1, SetLocalType DEF MarkNoWork
  <2>3. pc' \in [Procs -> Label]
    BY <1>5, <1>6, GotoType DEF MarkNoWork
  <2> QED
    BY <1>6, <2>2, <2>3 DEF MarkNoWork, TypeOK
<1>7. CASE MarkBudgetSpent(p)
  <2>1. [l EXCEPT !.tracer = <<>>, !.work_done = 0] \in Locals
    BY <1>0 DEF Locals
  <2>2. local' \in [Procs -> Locals]
    BY <1>7, <2>1, SetLocalType DEF MarkBudgetSpent
  <2>3. pc' \in [Procs -> Label]
    BY <1>5, <1>7, GotoType DEF MarkBudgetSpent
  <2>4. gray_queue' \in Seq(Objects)
    BY <1>0, <1>7, ConcatProperties DEF MarkBudgetSpent, TypeOK
  <2> QED
    BY <1>7, <2>2, <2>3, <2>4 DEF MarkBudgetSpent, TypeOK
<1> QED
  BY <1>1, <1>2, <1>3, <1>4, <1>6, <1>7 DEF MarkStep

(***************************************************************************)
(* Winning the phase, do_mark_roots, and the test of n_busy_marking.       *)
(***************************************************************************)
LEMMA ScanStepTypeOK ==
  ASSUME TypeOK, NEW p \in Procs,
         \/ TryStartMarking(p) \/ RootsLoadHead(p) \/ RootsVisit(p)
         \/ RootsMerge(p) \/ BusyTest(p)
  PROVE  TypeOK'
<1> DEFINE l == local[p]
<1>0. l \in Locals /\ l.tracer \in Seq(Objects) /\ <<>> \in Seq(Objects)
  BY LocalType, EmptySeq DEF Locals
<1>1. CASE TryStartMarking(p)
  <2>1. pc' \in [Procs -> Label]
    BY <1>1, GotoType DEF TryStartMarking, CollectorHome, Label
  <2>2. [l EXCEPT !.op = "collect"] \in Locals
    BY <1>0 DEF Locals, Operation
  <2>3. local' \in [Procs -> Locals]
    <3>1. CASE UNCHANGED local
      BY <3>1 DEF TypeOK
    <3>2. CASE SetLocal(p, [l EXCEPT !.op = "collect"])
      BY <2>2, <3>2, SetLocalType
    <3> QED
      BY <1>1, <3>1, <3>2 DEF TryStartMarking
  <2>4. phase' \in Phase
    BY <1>1 DEF TryStartMarking, TypeOK, Phase
  <2> QED
    BY <1>1, <2>1, <2>3, <2>4 DEF TryStartMarking, TypeOK
<1>2. CASE RootsLoadHead(p)
  <2>1. pc' \in [Procs -> Label]
    BY <1>2, GotoType DEF RootsLoadHead, Label
  <2>2. [l EXCEPT !.current = head] \in Locals
    BY <1>0 DEF Locals, TypeOK
  <2>3. local' \in [Procs -> Locals]
    BY <1>2, <2>2, SetLocalType DEF RootsLoadHead
  <2> QED
    BY <1>2, <2>1, <2>3 DEF RootsLoadHead, TypeOK
<1>3. CASE RootsVisit(p)
  <2> DEFINE o == l.current
  <2>1. o \in Objects /\ next[o] \in Pointer
    BY <1>0, <1>3 DEF RootsVisit, Locals, Pointer, TypeOK
  <2>2. CASE is_root(o)
    <3>1. /\ color' = mark_white_to_gray(o)
          /\ SetLocal(p, [l EXCEPT !.tracer = PushIfWhite(@, o),
                                   !.current = next[o]])
      BY <1>3, <2>2 DEF RootsVisit
    <3>2. [l EXCEPT !.tracer = PushIfWhite(@, o), !.current = next[o]] \in Locals
      BY <1>0, <2>1, MarkType DEF Locals
    <3>3. local' \in [Procs -> Locals]
      BY <3>1, <3>2, SetLocalType
    <3>4. color' \in [Objects -> Color]
      BY <1>0, <3>1, MarkType
    <3> QED
      BY <1>3, <3>3, <3>4 DEF RootsVisit, TypeOK
  <2>3. CASE ~ is_root(o)
    <3>1. UNCHANGED color /\ SetLocal(p, [l EXCEPT !.current = next[o]])
      BY <1>3, <2>3 DEF RootsVisit
    <3>2. [l EXCEPT !.current = next[o]] \in Locals
      BY <1>0, <2>1 DEF Locals
    <3>3. local' \in [Procs -> Locals]
      BY <3>1, <3>2, SetLocalType
    <3> QED
      BY <1>3, <3>1, <3>3 DEF RootsVisit, TypeOK
  <2> QED
    BY <2>2, <2>3
<1>4. CASE RootsMerge(p)
  <2>1. pc' \in [Procs -> Label]
    BY <1>4, GotoType DEF RootsMerge, Label
  <2>2. [l EXCEPT !.tracer = <<>>] \in Locals
    BY <1>0 DEF Locals
  <2>3. local' \in [Procs -> Locals]
    BY <1>4, <2>2, SetLocalType DEF RootsMerge
  <2>4. gray_queue' \in Seq(Objects)
    BY <1>0, <1>4, ConcatProperties DEF RootsMerge, TypeOK
  <2> QED
    BY <1>4, <2>1, <2>3, <2>4 DEF RootsMerge, TypeOK
<1>5. CASE BusyTest(p)
  <2>1. pc' \in [Procs -> Label]
    BY <1>5, GotoType DEF BusyTest, Label
  <2> QED
    BY <1>5, <2>1 DEF BusyTest, TypeOK
<1> QED
  BY <1>1, <1>2, <1>3, <1>4, <1>5

(***************************************************************************)
(* The steps of do_sweep and sweep_and_finish; the threshold stays a usize *)
(* whatever number of live bytes it is computed from.                      *)
(***************************************************************************)
LEMMA SweepStepTypeOK ==
  ASSUME TypeOK, NEW p \in Procs, SweepStep(p)
  PROVE  TypeOK'
<1> DEFINE l == local[p]
<1>0. /\ l \in Locals /\ NoLocals \in Locals
      /\ l.current \in Pointer /\ l.following \in Pointer /\ l.prev \in Pointer
      /\ l.freed \in Nat /\ l.live \in Int
  BY LocalType DEF Locals
<1>1. CASE StartSweeping(p)
  <2>1. pc' \in [Procs -> Label]
    BY <1>1, GotoType DEF StartSweeping, Label
  <2> QED
    BY <1>1, <2>1 DEF StartSweeping, TypeOK, Phase
<1>2. CASE SweepLoadHead(p)
  <2>1. pc' \in [Procs -> Label]
    BY <1>2, GotoType DEF SweepLoadHead, Label
  <2>2. [l EXCEPT !.current = head] \in Locals
    BY <1>0 DEF Locals, TypeOK
  <2>3. local' \in [Procs -> Locals]
    BY <1>2, <2>2, SetLocalType DEF SweepLoadHead
  <2> QED
    BY <1>2, <2>1, <2>3 DEF SweepLoadHead, TypeOK
<1>3. CASE SweepColor(p)
  <2>1. pc' \in [Procs -> Label]
    BY <1>3, GotoType DEF SweepColor, Label
  <2>2. next[l.current] \in Pointer
    BY <1>0, <1>3 DEF SweepColor, Pointer, TypeOK
  <2>3. [l EXCEPT !.following = next[l.current]] \in Locals
    BY <1>0, <2>2 DEF Locals
  <2>4. local' \in [Procs -> Locals]
    BY <1>3, <2>3, SetLocalType DEF SweepColor
  <2> QED
    BY <1>3, <2>1, <2>4 DEF SweepColor, TypeOK
<1>4. CASE SweepRoot(p)
  <2>1. pc' \in [Procs -> Label]
    BY <1>4, GotoType DEF SweepRoot, Label
  <2> QED
    BY <1>4, <2>1 DEF SweepRoot, TypeOK
<1>5. CASE SweepKeep(p)
  <2>1. pc' \in [Procs -> Label]
    BY <1>5, GotoType DEF SweepKeep, Label
  <2>2. [l EXCEPT !.prev = l.current, !.current = l.following] \in Locals
    BY <1>0 DEF Locals
  <2>3. local' \in [Procs -> Locals]
    BY <1>5, <2>2, SetLocalType DEF SweepKeep
  <2>4. color' \in [Objects -> Color]
    BY <1>5 DEF SweepKeep, TypeOK, Color
  <2> QED
    BY <1>5, <2>1, <2>3, <2>4 DEF SweepKeep, TypeOK
<1>6. CASE SweepFree(p)
  <2>1. pc' \in [Procs -> Label]
    BY <1>6, GotoType DEF SweepFree, Label
  <2>2. [l EXCEPT !.freed = @ + 1, !.current = l.following] \in Locals
    <3>1. l.freed + 1 \in Nat
      BY <1>0
    <3>2. \A n \in Nat :
            [l EXCEPT !.freed = n, !.current = l.following] \in Locals
      BY <1>0 DEF Locals
    <3> QED
      BY <3>1, <3>2
  <2>3. local' \in [Procs -> Locals]
    BY <1>6, <2>2, SetLocalType DEF SweepFree
  <2>4. mem' \in [Objects -> Mem]
    BY <1>6 DEF SweepFree, TypeOK, Mem
  <2>5. head' \in Pointer /\ next' \in [Objects -> Pointer]
    BY <1>0, <1>6 DEF SweepFree, Unlink, TypeOK
  <2> QED
    BY <1>6, <2>1, <2>3, <2>4, <2>5 DEF SweepFree, TypeOK
<1>7. CASE SweepSubtract(p)
  <2>1. pc' \in [Procs -> Label]
    BY <1>7, GotoType DEF SweepSubtract, Label
  <2>2. bytes_allocated - l.freed \in Int
    BY <1>0 DEF TypeOK
  <2>3. [l EXCEPT !.live = bytes_allocated - l.freed] \in Locals
    <3>1. \A n \in Int : [l EXCEPT !.live = n] \in Locals
      BY <1>0 DEF Locals
    <3> QED
      BY <2>2, <3>1
  <2>4. local' \in [Procs -> Locals]
    BY <1>7, <2>3, SetLocalType DEF SweepSubtract
  <2> QED
    BY <1>7, <2>1, <2>2, <2>4 DEF SweepSubtract, TypeOK
<1>8. CASE FinishSweep(p)
  <2>1. pc' \in [Procs -> Label]
    BY <1>8, GotoType DEF FinishSweep, Label
  <2> QED
    BY <1>8, <2>1 DEF FinishSweep, TypeOK, Phase
<1>9. CASE UpdateThreshold(p)
  <2>1. pc' \in [Procs -> Label]
    BY <1>9, GotoType DEF UpdateThreshold, Label
  <2>2. current_threshold' \in Usize
    BY <1>0, <1>9, ThresholdBounds DEF UpdateThreshold, TypeOK
  <2> QED
    BY <1>9, <2>1, <2>2 DEF UpdateThreshold, TypeOK
<1>10. CASE FinishGc(p)
  <2>1. pc' \in [Procs -> Label]
    BY <1>10, GotoType DEF FinishGc, CollectorHome, Label
  <2>2. local' \in [Procs -> Locals]
    BY <1>0, <1>10, SetLocalType DEF FinishGc
  <2> QED
    BY <1>10, <2>1, <2>2 DEF FinishGc, TypeOK, Phase
<1> QED
  BY <1>1, <1>2, <1>3, <1>4, <1>5, <1>6, <1>7, <1>8, <1>9, <1>10
  DEF SweepStep

(***************************************************************************)
(* Entering force_collect, the StartStopJoinHandle, and the loop of        *)
(* background_gc_thread.                                                   *)
(***************************************************************************)
LEMMA ControlStepTypeOK ==
  ASSUME TypeOK, NEW p \in Procs,
         \/ p \in Threads /\ (CollectorCall(p) \/ JoinBackgroundThread(p))
         \/ p \in Background /\ BackgroundStep(p)
  PROVE  TypeOK'
<1> DEFINE l == local[p]
<1>0. l \in Locals /\ NoLocals \in Locals
  BY LocalType
<1>1. CASE ForceCollect(p)
  <2>1. pc' \in [Procs -> Label]
    BY <1>1, GotoType DEF ForceCollect, Label
  <2> QED
    BY <1>1, <2>1 DEF ForceCollect, TypeOK
<1>2. CASE StartBackgroundCollection(p)
  <2> DEFINE c == bg_thread.counter + 1
  <2>1. pc' \in [Procs -> Label]
    BY <1>2 DEF StartBackgroundCollection, TypeOK, Label
  <2>2. c \in Nat /\ c \in Background
    BY <1>2 DEF StartBackgroundCollection, TypeOK
  <2>3. bg_thread' \in [counter : Nat, handle : {0} \cup Background]
    BY <1>2, <2>2 DEF StartBackgroundCollection
  <2> QED
    BY <1>2, <2>1, <2>3 DEF StartBackgroundCollection, TypeOK
<1>3. CASE StopBackgroundCollection(p)
  <2>1. pc' \in [Procs -> Label]
    BY <1>3, GotoType DEF StopBackgroundCollection, Label
  <2>2. bg_thread.handle \in Nat
    BY HeapAssumption DEF TypeOK, Background
  <2>3. [l EXCEPT !.joining = bg_thread.handle] \in Locals
    BY <1>0, <2>2 DEF Locals
  <2>4. local' \in [Procs -> Locals]
    BY <1>3, <2>3, SetLocalType DEF StopBackgroundCollection
  <2>5. bg_thread' \in [counter : Nat, handle : {0} \cup Background]
    BY <1>3 DEF StopBackgroundCollection, TypeOK
  <2> QED
    BY <1>3, <2>1, <2>4, <2>5 DEF StopBackgroundCollection, TypeOK
<1>4. CASE JoinBackgroundThread(p)
  <2>1. pc' \in [Procs -> Label]
    BY <1>4, GotoType DEF JoinBackgroundThread, Label
  <2>2. local' \in [Procs -> Locals]
    BY <1>0, <1>4, SetLocalType DEF JoinBackgroundThread
  <2> QED
    BY <1>4, <2>1, <2>2 DEF JoinBackgroundThread, TypeOK
<1>5. CASE \/ BackgroundWait(p) \/ BackgroundNotified(p)
           \/ BackgroundTimeout(p) \/ BackgroundCheck(p)
  <2>1. pc' \in [Procs -> Label]
    BY <1>5, GotoType DEF BackgroundWait, BackgroundNotified,
       BackgroundTimeout, BackgroundCheck, Label
  <2> QED
    BY <1>5, <2>1 DEF BackgroundWait, BackgroundNotified, BackgroundTimeout,
       BackgroundCheck, TypeOK
<1>6. CASE BackgroundAbort(p)
  <2>1. pc' \in [Procs -> Label]
    BY <1>6, GotoType DEF BackgroundAbort, Label
  <2>2. local' \in [Procs -> Locals]
    BY <1>0, <1>6, SetLocalType DEF BackgroundAbort
  <2> QED
    BY <1>6, <2>1, <2>2 DEF BackgroundAbort, TypeOK, Phase
<1> QED
  BY <1>1, <1>2, <1>3, <1>4, <1>5, <1>6 DEF CollectorCall, BackgroundStep

(***************************************************************************)
(* A new heap, and one with objects already allocated, is well-typed.      *)
(***************************************************************************)
LEMMA InitTypeOK == Init => TypeOK
<1> SUFFICES ASSUME Init PROVE TypeOK
  OBVIOUS
<1>1. \A i \in 1..Len(Built) : Built[i] \in Objects
  BY HeapAssumption, ElementOfSeq
<1>2. Len(Built) \in Nat
  BY HeapAssumption, LenProperties
<1>3. head \in Pointer
  <2>1. Built # <<>> => 1 \in 1..Len(Built)
    BY <1>2, HeapAssumption, EmptySeq
  <2> QED
    BY <1>1, <2>1 DEF Init, Pointer
<1>4. next \in [Objects -> Pointer]
  <2>1. ASSUME NEW o \in Objects, \E i \in 1..(Len(Built) - 1) : Built[i] = o
        PROVE  LET i == CHOOSE i \in 1..(Len(Built) - 1) : Built[i] = o
               IN  Built[i + 1] \in Pointer
    <3> DEFINE i == CHOOSE i \in 1..(Len(Built) - 1) : Built[i] = o
    <3>1. i \in 1..(Len(Built) - 1)
      BY <2>1
    <3>2. i + 1 \in 1..Len(Built)
      BY <1>2, <3>1
    <3> QED
      BY <1>1, <3>2 DEF Pointer
  <2> QED
    BY <2>1 DEF Init, Pointer
<1>5. root_count \in [Objects -> Int]
  <2>1. ASSUME NEW o \in Objects
        PROVE  Cardinality({t \in Threads : o \in Owned[t]}) \in Int
    <3>1. IsFiniteSet({t \in Threads : o \in Owned[t]})
      BY HeapAssumption, FS_Subset
    <3> QED
      BY <3>1, FS_CardinalityType
  <2> QED
    BY <2>1 DEF Init
<1>6. ref \in [Objects -> [Fields -> Pointer]]
  <2>1. BuiltObjects \cup {Null} \subseteq Pointer
    BY <1>1 DEF BuiltObjects, Pointer
  <2> QED
    BY <2>1 DEF Init
<1>7. /\ gray_queue \in Seq(Objects) /\ n_busy_marking \in Int
      /\ bytes_allocated \in Int /\ current_threshold \in Usize
  BY <1>2, EmptySeq, PacingAssumption DEF Init, Usize
<1>8. bg_thread \in [counter : Nat, handle : {0} \cup Background]
  BY HeapAssumption DEF Init, Background
<1>9. handles \in [Threads -> [Objects -> 0..MaxHandles]]
  <2>1. 0 \in 0..MaxHandles /\ 1 \in 0..MaxHandles
    BY HeapAssumption
  <2> QED
    BY <2>1 DEF Init
<1>10. /\ phase \in Phase /\ color \in [Objects -> Color]
       /\ mem \in [Objects -> Mem]
  BY DEF Init, Phase, Color, Mem
<1>11. pc \in [Procs -> Label]
  BY DEF Init, Label
<1>12. local \in [Procs -> Locals]
  <2>1. NoLocals \in Locals
    BY EmptySeq DEF Locals, NoLocals, Operation, Pointer
  <2> QED
    BY <2>1 DEF Init
<1> QED
  BY <1>3, <1>4, <1>5, <1>6, <1>7, <1>8, <1>9, <1>10, <1>11, <1>12 DEF TypeOK

(***************************************************************************)
(* Every step of every thread is one of those above.                       *)
(***************************************************************************)
LEMMA NextTypeOK == TypeOK /\ [Next]_vars => TypeOK'
<1> SUFFICES ASSUME TypeOK, [Next]_vars PROVE TypeOK'
  OBVIOUS
<1>1. ASSUME NEW p \in Procs, CycleStep(p) PROVE TypeOK'
  BY <1>1, MarkStepTypeOK, ScanStepTypeOK, SweepStepTypeOK DEF CycleStep
<1>2. ASSUME NEW t \in Threads,
             MutatorCall(t) \/ CollectorCall(t) \/ ThreadStep(t)
      PROVE  TypeOK'
  <2>1. t \in Procs
    BY DEF Procs
  <2> QED
    BY <1>1, <1>2, <2>1, MutatorCallTypeOK, MutatorStepTypeOK,
       ControlStepTypeOK DEF ThreadStep
<1>3. ASSUME NEW b \in Background, BackgroundThread(b) PROVE TypeOK'
  <2>1. b \in Procs
    BY DEF Procs
  <2> QED
    BY <1>1, <1>3, <2>1, ControlStepTypeOK DEF BackgroundThread
<1>4. CASE UNCHANGED vars
  BY <1>4 DEF vars, TypeOK
<1> QED
  BY <1>2, <1>3, <1>4 DEF Next

(***************************************************************************)
(* Every variable of the heap and every local of every thread keeps its    *)
(* type, however the threads interleave.                                   *)
(***************************************************************************)
THEOREM TypeCorrect == Spec => []TypeOK
BY InitTypeOK, NextTypeOK, PTL DEF Spec

-----------------------------------------------------------------------------

(***************************************************************************)
(* What marking relies on, for any number of threads and collectors:       *)
(* n_busy_marking counts the assists and write barriers in progress, and   *)
(* no gray object drops out of the queues.                                 *)
(***************************************************************************)

(***************************************************************************)
(* An assist and a collector run the same mark loop and are told apart by  *)
(* the operation the thread executes, so a thread that is about to enter   *)
(* the loop as a collector must not be in an allocate call.                *)
(***************************************************************************)
BeforeMarking == {"roots_head", "roots", "busy_test", "bg_check"}

MarksAsCollector(p) == pc[p] \in BeforeMarking => local[p].op # "allocate"

(***************************************************************************)
(* A background thread that has not been started has not run: starting it  *)
(* does not take it out of the middle of a call.                           *)
(***************************************************************************)
UnbornUntilStarted ==
  \A b \in Background : b > bg_thread.counter => pc[b] = "unborn"

BusySet == {p \in Procs : InBusySection(p)}

(***************************************************************************)
(* The inductive invariant.                                                *)
(***************************************************************************)
BusyInv == /\ TypeOK
           /\ BusyExact
           /\ \A p \in Procs : MarksAsCollector(p)
           /\ UnbornUntilStarted

-----------------------------------------------------------------------------

(***************************************************************************)
(* What a step of p does to the counter: nobody else moves, and p raises   *)
(* it on entering the busy section and lowers it on leaving.               *)
(***************************************************************************)
Others(p) == \A q \in Procs \ {p} : pc'[q] = pc[q] /\ local'[q] = local[q]

Counts(p) ==
  \/ ~ InBusySection(p) /\ InBusySection(p)'
       /\ n_busy_marking' = n_busy_marking + 1
  \/ InBusySection(p) /\ ~ InBusySection(p)'
       /\ n_busy_marking' = n_busy_marking - 1
  \/ (InBusySection(p) <=> InBusySection(p)')
       /\ n_busy_marking' = n_busy_marking

BusyStep(p) == /\ Others(p)
               /\ Counts(p)
               /\ MarksAsCollector(p)'
               /\ pc[p] # "unborn"
               /\ bg_thread'.counter = bg_thread.counter

(***************************************************************************)
(* Such a step keeps the invariant: the set of busy threads gains p, loses *)
(* p, or stays as it is.                                                   *)
(***************************************************************************)
LEMMA BusyStepKeeps ==
  ASSUME BusyInv, TypeOK', NEW p \in Procs, BusyStep(p)
  PROVE  BusyInv'
<1>1. IsFiniteSet(Procs)
  <2>1. IsFiniteSet(1..MaxStarts)
    BY HeapAssumption, FS_Interval
  <2>2. IsFiniteSet(Background)
    BY <2>1, FS_EmptySet DEF Background
  <2> QED
    BY <2>2, HeapAssumption, FS_Union DEF Procs
<1>2. IsFiniteSet(BusySet)
  BY <1>1, FS_Subset DEF BusySet
<1>3. \A q \in Procs \ {p} : InBusySection(q)' <=> InBusySection(q)
  BY DEF BusyStep, Others, InBusySection
<1>4. n_busy_marking = Cardinality(BusySet) /\ n_busy_marking \in Int
  BY DEF BusyInv, BusyExact, BusySet, TypeOK
<1>5. Cardinality(BusySet) \in Nat
  BY <1>2, FS_CardinalityType
<1>6. n_busy_marking' = Cardinality(BusySet')
  <2>1. CASE ~ InBusySection(p) /\ InBusySection(p)'
             /\ n_busy_marking' = n_busy_marking + 1
    <3>1. BusySet' = BusySet \cup {p} /\ p \notin BusySet
      BY <1>3, <2>1 DEF BusySet
    <3> QED
      BY <1>2, <1>4, <1>5, <2>1, <3>1, FS_AddElement
  <2>2. CASE InBusySection(p) /\ ~ InBusySection(p)'
             /\ n_busy_marking' = n_busy_marking - 1
    <3>1. BusySet' = BusySet \ {p} /\ p \in BusySet
      BY <1>3, <2>2 DEF BusySet
    <3> QED
      BY <1>2, <1>4, <1>5, <2>2, <3>1, FS_RemoveElement
  <2>3. CASE (InBusySection(p) <=> InBusySection(p)')
             /\ n_busy_marking' = n_busy_marking
    <3>1. BusySet' = BusySet
      BY <1>3, <2>3 DEF BusySet
    <3> QED
      BY <1>4, <2>3, <3>1
  <2> QED
    BY <2>1, <2>2, <2>3 DEF BusyStep, Counts
<1>7. BusyExact'
  BY <1>6 DEF BusyExact, BusySet
<1>8. \A q \in Procs : MarksAsCollector(q)'
  BY DEF BusyStep, Others, MarksAsCollector, BusyInv
<1>9. UnbornUntilStarted'
  <2> SUFFICES ASSUME NEW b \in Background, b > bg_thread'.counter
               PROVE  pc'[b] = "unborn"
    BY DEF UnbornUntilStarted
  <2>1. pc[b] = "unborn" /\ b \in Procs
    BY DEF BusyStep, BusyInv, UnbornUntilStarted, Procs
  <2> QED
    BY <2>1 DEF BusyStep, Others
<1> QED
  BY <1>7, <1>8, <1>9 DEF BusyInv

-----------------------------------------------------------------------------

(***************************************************************************)
(* Goto and SetLocal concern one thread.                                   *)
(***************************************************************************)
LEMMA GotoMoves ==
  ASSUME TypeOK, NEW p \in Procs, NEW from, NEW to, Goto(p, from, to)
  PROVE  /\ pc[p] = from /\ pc'[p] = to
         /\ \A q \in Procs \ {p} : pc'[q] = pc[q]
BY DEF TypeOK, Goto

(***************************************************************************)
(* SetLocal changes the locals of one thread.                              *)
(***************************************************************************)
LEMMA SetLocalMoves ==
  ASSUME TypeOK, NEW p \in Procs, NEW l, SetLocal(p, l)
  PROVE  /\ local'[p] = l
         /\ \A q \in Procs \ {p} : local'[q] = local[q]
BY DEF TypeOK, SetLocal

(***************************************************************************)
(* Steps from a label outside the busy section to another one.             *)
(***************************************************************************)
Section == {"busy_check", "busy_dec", "shade", "shade_merge", "mark", "trace"}

(***************************************************************************)
(* A step between labels outside the busy section does not count.          *)
(***************************************************************************)
LEMMA StepOutside ==
  ASSUME NEW p \in Procs, Others(p),
         pc[p] \notin Section \cup {"unborn"},
         pc'[p] \notin Section \cup BeforeMarking,
         n_busy_marking' = n_busy_marking,
         bg_thread'.counter = bg_thread.counter
  PROVE  BusyStep(p)
BY DEF BusyStep, Counts, InBusySection, MarksAsCollector, Section

(***************************************************************************)
(* The calls that raise n_busy_marking are allocate, with a work budget,   *)
(* and GcCell::set.                                                        *)
(***************************************************************************)
LEMMA MutatorCallCounts ==
  ASSUME TypeOK, NEW t \in Threads, MutatorCall(t)
  PROVE  BusyStep(t)
<1>0. t \in Procs
  BY DEF Procs
<1>1. CASE Allocate(t)
  <2>1. Others(t)
    BY <1>0, <1>1, GotoMoves, SetLocalMoves DEF Allocate, Others
  <2>2. pc[t] = "ready" /\ bg_thread' = bg_thread
    BY <1>0, <1>1, GotoMoves DEF Allocate
  <2>3. CASE AssistWorkBudget > 0
    <3>1. pc'[t] = "busy_check" /\ n_busy_marking' = n_busy_marking + 1
      BY <1>0, <1>1, <2>3, GotoMoves DEF Allocate
    <3> QED
      BY <2>1, <2>2, <3>1
      DEF BusyStep, Counts, InBusySection, MarksAsCollector, BeforeMarking
  <2>4. CASE ~ (AssistWorkBudget > 0)
    <3>1. pc'[t] = "alloc_box" /\ n_busy_marking' = n_busy_marking
      BY <1>0, <1>1, <2>4, GotoMoves DEF Allocate
    <3> QED
      BY <1>0, <2>1, <2>2, <3>1, StepOutside DEF Section, BeforeMarking
  <2> QED
    BY <2>3, <2>4
<1>2. CASE CloneRoot(t) \/ DropRoot(t)
  <2>1. Others(t) /\ pc[t] = "ready" /\ pc'[t] = "ready"
        /\ UNCHANGED <<n_busy_marking, bg_thread>>
    BY <1>2 DEF CloneRoot, DropRoot, Others
  <2> QED
    BY <1>0, <2>1, StepOutside DEF Section, BeforeMarking
<1>3. CASE CellSet(t)
  <2>1. Others(t)
    BY <1>0, <1>3, GotoMoves, SetLocalMoves DEF CellSet, Others
  <2>2. /\ pc[t] = "ready" /\ pc'[t] = "busy_check"
        /\ n_busy_marking' = n_busy_marking + 1 /\ bg_thread' = bg_thread
    BY <1>0, <1>3, GotoMoves DEF CellSet
  <2> QED
    BY <2>1, <2>2
    DEF BusyStep, Counts, InBusySection, MarksAsCollector, BeforeMarking
<1>4. CASE CellGet(t) \/ CountLoadHead(t)
  <2>1. Others(t)
    BY <1>0, <1>4, GotoMoves, SetLocalMoves DEF CellGet, CountLoadHead, Others
  <2>2. /\ pc[t] = "ready" /\ pc'[t] \in {"rooting", "count"}
        /\ UNCHANGED <<n_busy_marking, bg_thread>>
    BY <1>0, <1>4, GotoMoves DEF CellGet, CountLoadHead
  <2> QED
    BY <1>0, <2>1, <2>2, StepOutside DEF Section, BeforeMarking
<1> QED
  BY <1>1, <1>2, <1>3, <1>4 DEF MutatorCall

(***************************************************************************)
(* The steps of a mutator call that follow: only decrement_busy_marking,   *)
(* and the failing branch of check_is_marking_and_increment_busy, leave    *)
(* the busy section.                                                       *)
(***************************************************************************)
LEMMA MutatorStepCounts ==
  ASSUME TypeOK, NEW t \in Threads, MutatorStep(t)
  PROVE  BusyStep(t)
<1>0. t \in Procs
  BY DEF Procs
<1>1. CASE BusyCheck(t)
  <2>1. /\ pc[t] = "busy_check"
        /\ pc'[t] \in {"mark", "shade", "busy_dec"}
        /\ pc'[t] = "mark" => local[t].op = "allocate"
        /\ UNCHANGED <<n_busy_marking, bg_thread, local>>
        /\ Others(t)
    BY <1>0, <1>1 DEF BusyCheck, TypeOK, Others
  <2> QED
    BY <2>1 DEF BusyStep, Counts, InBusySection, MarksAsCollector,
                BeforeMarking
<1>2. CASE DecrementBusyMarking(t)
  <2>1. /\ pc[t] = "busy_dec"
        /\ pc'[t] \in {"alloc_box", "store"}
        /\ n_busy_marking' = n_busy_marking - 1
        /\ bg_thread' = bg_thread
        /\ Others(t)
    BY <1>0, <1>2, GotoMoves DEF DecrementBusyMarking, AfterBusy, Others
  <2> QED
    BY <2>1 DEF BusyStep, Counts, InBusySection, MarksAsCollector,
                BeforeMarking
<1>3. CASE CellShade(t) \/ CellMergeWork(t)
  <2>1. /\ pc[t] \in {"shade", "shade_merge"}
        /\ pc'[t] \in {"shade_merge", "busy_dec"}
        /\ UNCHANGED <<n_busy_marking, bg_thread>>
    BY <1>0, <1>3, GotoMoves DEF CellShade, CellMergeWork
  <2>2. Others(t)
    BY <1>0, <1>3, GotoMoves, SetLocalMoves
    DEF CellShade, CellMergeWork, Others
  <2> QED
    BY <2>1, <2>2 DEF BusyStep, Counts, InBusySection, MarksAsCollector,
                      BeforeMarking
<1>4. CASE \/ AllocateBox(t) \/ AllocateLoadHead(t) \/ AllocatePublish(t)
           \/ AllocateRetry(t) \/ AllocateReturn(t)
  <2>1. /\ pc[t] \in {"alloc_box", "alloc_load", "alloc_cas", "alloc_add"}
        /\ pc'[t] \in {"alloc_load", "alloc_cas", "alloc_add", "ready"}
        /\ UNCHANGED <<n_busy_marking, bg_thread>>
    BY <1>0, <1>4, GotoMoves DEF AllocateBox, AllocateLoadHead,
       AllocatePublish, AllocateRetry, AllocateReturn
  <2>2. Others(t)
    BY <1>0, <1>4, GotoMoves, SetLocalMoves DEF AllocateBox,
       AllocateLoadHead, AllocatePublish, AllocateRetry, AllocateReturn,
       Others
  <2> QED
    BY <1>0, <2>1, <2>2, StepOutside DEF Section, BeforeMarking
<1>5. CASE CellStore(t) \/ RootPointer(t) \/ ForgetPointer(t)
  <2>1. /\ pc[t] \in {"store", "rooting"} /\ pc'[t] = "ready"
        /\ UNCHANGED <<n_busy_marking, bg_thread>>
    BY <1>0, <1>5, GotoMoves DEF CellStore, RootPointer, ForgetPointer
  <2>2. Others(t)
    BY <1>0, <1>5, GotoMoves, SetLocalMoves
    DEF CellStore, RootPointer, ForgetPointer, Others
  <2> QED
    BY <1>0, <2>1, <2>2, StepOutside DEF Section, BeforeMarking
<1>6. CASE CountNode(t)
  <2>1. /\ pc[t] = "count" /\ pc'[t] \in {"count", "ready"}
        /\ UNCHANGED <<n_busy_marking, bg_thread>>
        /\ \A q \in Procs \ {t} : pc'[q] = pc[q]
    BY <1>0, <1>6 DEF CountNode, TypeOK
  <2>2. Others(t)
    BY <1>0, <1>6, <2>1, SetLocalMoves DEF CountNode, Others
  <2> QED
    BY <1>0, <2>1, <2>2, StepOutside DEF Section, BeforeMarking
<1> QED
  BY <1>1, <1>2, <1>3, <1>4, <1>5, <1>6 DEF MutatorStep

(***************************************************************************)
(* The mark loop keeps the operation, so an assist stays an assist until   *)
(* it lowers the counter, and a collector never lowers it.                 *)
(***************************************************************************)
LEMMA MarkStepCounts ==
  ASSUME TypeOK, NEW p \in Procs, MarkStep(p)
  PROVE  BusyStep(p)
<1> DEFINE l == local[p]
<1>0. l \in Locals
  BY LocalType
<1>1. CASE MarkPop(p)
  <2>1. local'[p].op = l.op
    <3>1. \A s, o, f : [l EXCEPT !.tracer = s, !.tracing = o,
                                 !.pending = f].op = l.op
      BY <1>0 DEF Locals
    <3>2. PICK s, o, f : SetLocal(p, [l EXCEPT !.tracer = s, !.tracing = o,
                                               !.pending = f])
      BY <1>1 DEF MarkPop
    <3>3. local'[p] = [l EXCEPT !.tracer = s, !.tracing = o, !.pending = f]
      BY <3>2, SetLocalMoves
    <3> QED
      BY <3>1, <3>3
  <2>2. Others(p)
    BY <1>1, GotoMoves, SetLocalMoves DEF MarkPop, Others
  <2>3. /\ pc[p] = "mark" /\ pc'[p] = "trace"
        /\ UNCHANGED <<n_busy_marking, bg_thread>>
    BY <1>1, GotoMoves DEF MarkPop
  <2> QED
    BY <2>1, <2>2, <2>3 DEF BusyStep, Counts, InBusySection,
       MarksAsCollector, BeforeMarking
<1>2. CASE MarkSteal(p)
  <2>1. local'[p].op = l.op
    BY <1>0, <1>2, SetLocalMoves DEF MarkSteal, Locals
  <2>2. Others(p)
    BY <1>2, SetLocalMoves DEF MarkSteal, Others
  <2>3. pc[p] = "mark" /\ UNCHANGED <<pc, n_busy_marking, bg_thread>>
    BY <1>2 DEF MarkSteal
  <2> QED
    BY <2>1, <2>2, <2>3 DEF BusyStep, Counts, InBusySection,
       MarksAsCollector, BeforeMarking
<1>3. CASE TraceField(p)
  <2>0. PICK f \in l.pending :
          SetLocal(p, [l EXCEPT
                         !.tracer = MarkTracer(@, ref[l.tracing][f]),
                         !.pending = @ \ {f}])
    BY <1>3 DEF TraceField
  <2>1. local'[p].op = l.op
    <3>1. \A s, f0 : [l EXCEPT !.tracer = s, !.pending = f0].op = l.op
      BY <1>0 DEF Locals
    <3>2. PICK s, f0 : SetLocal(p, [l EXCEPT !.tracer = s, !.pending = f0])
      BY <2>0
    <3>3. local'[p] = [l EXCEPT !.tracer = s, !.pending = f0]
      BY <3>2, SetLocalMoves
    <3> QED
      BY <3>1, <3>3
  <2>2. pc[p] = "trace" /\ UNCHANGED <<pc, n_busy_marking, bg_thread>>
    BY <1>3 DEF TraceField
  <2>3. Others(p)
    BY <2>0, <2>2, SetLocalMoves DEF Others
  <2> QED
    BY <2>1, <2>2, <2>3 DEF BusyStep, Counts, InBusySection,
       MarksAsCollector, BeforeMarking
<1>4. CASE MarkBlack(p)
  <2>1. local'[p].op = l.op
    <3>1. \A o, n : [l EXCEPT !.tracing = o, !.work_done = n].op = l.op
      BY <1>0 DEF Locals
    <3>2. PICK o, n : SetLocal(p, [l EXCEPT !.tracing = o, !.work_done = n])
      BY <1>4 DEF MarkBlack
    <3>3. local'[p] = [l EXCEPT !.tracing = o, !.work_done = n]
      BY <3>2, SetLocalMoves
    <3> QED
      BY <3>1, <3>3
  <2>2. Others(p)
    BY <1>4, GotoMoves, SetLocalMoves DEF MarkBlack, Others
  <2>3. /\ pc[p] = "trace" /\ pc'[p] = "mark"
        /\ UNCHANGED <<n_busy_marking, bg_thread>>
    BY <1>4, GotoMoves DEF MarkBlack
  <2> QED
    BY <2>1, <2>2, <2>3 DEF BusyStep, Counts, InBusySection,
       MarksAsCollector, BeforeMarking
<1>5. CASE MarkNoWork(p) \/ MarkBudgetSpent(p)
  <2>1. local'[p].op = l.op
    <3>1. /\ \A n : [l EXCEPT !.work_done = n].op = l.op
          /\ \A s, n : [l EXCEPT !.tracer = s, !.work_done = n].op = l.op
      BY <1>0 DEF Locals
    <3>2. CASE MarkNoWork(p)
      <4>1. local'[p] = [l EXCEPT !.work_done = 0]
        BY <3>2, SetLocalMoves DEF MarkNoWork
      <4> QED
        BY <3>1, <4>1
    <3>3. CASE MarkBudgetSpent(p)
      <4>1. local'[p] = [l EXCEPT !.tracer = <<>>, !.work_done = 0]
        BY <3>3, SetLocalMoves DEF MarkBudgetSpent
      <4> QED
        BY <3>1, <4>1
    <3> QED
      BY <1>5, <3>2, <3>3
  <2>2. Others(p)
    BY <1>5, GotoMoves, SetLocalMoves
    DEF MarkNoWork, MarkBudgetSpent, Others
  <2>3. /\ pc[p] = "mark" /\ pc'[p] = AfterMarking(p)
        /\ UNCHANGED <<n_busy_marking, bg_thread>>
    BY <1>5, GotoMoves DEF MarkNoWork, MarkBudgetSpent
  <2>4. /\ l.op = "allocate" => AfterMarking(p) = "busy_dec"
        /\ l.op # "allocate" =>
             AfterMarking(p) \in {"busy_test", "bg_check", "mark"}
    BY DEF AfterMarking
  <2> QED
    BY <2>1, <2>2, <2>3, <2>4 DEF BusyStep, Counts, InBusySection,
       MarksAsCollector, BeforeMarking
<1> QED
  BY <1>1, <1>2, <1>3, <1>4, <1>5 DEF MarkStep

(***************************************************************************)
(* A collector scans roots, tests the counter and sweeps outside of it.    *)
(***************************************************************************)
LEMMA ScanStepCounts ==
  ASSUME TypeOK, NEW p \in Procs, MarksAsCollector(p),
         \/ TryStartMarking(p) \/ RootsLoadHead(p) \/ RootsVisit(p)
         \/ RootsMerge(p) \/ BusyTest(p) \/ SweepStep(p)
  PROVE  BusyStep(p)
<1> DEFINE l == local[p]
<1>0. l \in Locals
  BY LocalType
<1>1. CASE TryStartMarking(p)
  <2>1. Others(p)
    BY <1>1, GotoMoves, SetLocalMoves DEF TryStartMarking, Others
  <2>2. UNCHANGED <<n_busy_marking, bg_thread>>
    BY <1>1 DEF TryStartMarking
  <2>3. CASE phase = "Idle"
    <3>1. pc[p] = "try_mark" /\ pc'[p] = "roots_head"
      BY <1>1, <2>3, GotoMoves DEF TryStartMarking
    <3>2. local'[p].op = "collect"
      BY <1>0, <1>1, <2>3, SetLocalMoves DEF TryStartMarking, Locals
    <3> QED
      BY <2>1, <2>2, <3>1, <3>2 DEF BusyStep, Counts, InBusySection,
         MarksAsCollector
  <2>4. CASE phase # "Idle"
    <3>1. pc[p] = "try_mark" /\ pc'[p] \in {"bg_enter", "ready"}
      BY <1>1, <2>4, GotoMoves DEF TryStartMarking, CollectorHome
    <3> QED
      BY <2>1, <2>2, <3>1, StepOutside DEF Section, BeforeMarking
  <2> QED
    BY <2>3, <2>4
<1>2. CASE RootsLoadHead(p)
  <2>1. local'[p].op = l.op
    BY <1>0, <1>2, SetLocalMoves DEF RootsLoadHead, Locals
  <2>2. Others(p)
    BY <1>2, GotoMoves, SetLocalMoves DEF RootsLoadHead, Others
  <2>3. /\ pc[p] = "roots_head" /\ pc'[p] = "roots"
        /\ UNCHANGED <<n_busy_marking, bg_thread>>
    BY <1>2, GotoMoves DEF RootsLoadHead
  <2> QED
    BY <2>1, <2>2, <2>3 DEF BusyStep, Counts, InBusySection,
       MarksAsCollector, BeforeMarking
<1>3. CASE RootsVisit(p)
  <2>1. local'[p].op = l.op
    <3>1. /\ \A o : [l EXCEPT !.current = o].op = l.op
          /\ \A s, o : [l EXCEPT !.tracer = s, !.current = o].op = l.op
      BY <1>0 DEF Locals
    <3>2. \/ \E o : SetLocal(p, [l EXCEPT !.current = o])
          \/ \E s, o : SetLocal(p, [l EXCEPT !.tracer = s, !.current = o])
      BY <1>3 DEF RootsVisit
    <3>3. ASSUME NEW o, SetLocal(p, [l EXCEPT !.current = o])
          PROVE  local'[p].op = l.op
      <4>1. local'[p] = [l EXCEPT !.current = o]
        BY <3>3, SetLocalMoves
      <4> QED
        BY <3>1, <4>1
    <3>4. ASSUME NEW s, NEW o,
                 SetLocal(p, [l EXCEPT !.tracer = s, !.current = o])
          PROVE  local'[p].op = l.op
      <4>1. local'[p] = [l EXCEPT !.tracer = s, !.current = o]
        BY <3>4, SetLocalMoves
      <4> QED
        BY <3>1, <4>1
    <3> QED
      BY <3>2, <3>3, <3>4
  <2>2. Others(p)
    BY <1>3, SetLocalMoves DEF RootsVisit, Others
  <2>3. pc[p] = "roots" /\ UNCHANGED <<pc, n_busy_marking, bg_thread>>
    BY <1>3 DEF RootsVisit
  <2> QED
    BY <2>1, <2>2, <2>3 DEF BusyStep, Counts, InBusySection,
       MarksAsCollector, BeforeMarking
<1>4. CASE RootsMerge(p)
  <2>1. local'[p].op = l.op
    BY <1>0, <1>4, SetLocalMoves DEF RootsMerge, Locals
  <2>2. Others(p)
    BY <1>4, GotoMoves, SetLocalMoves DEF RootsMerge, Others
  <2>3. /\ pc[p] = "roots" /\ pc'[p] \in {"bg_check", "mark"}
        /\ UNCHANGED <<n_busy_marking, bg_thread>>
    BY <1>4, GotoMoves DEF RootsMerge
  <2> QED
    BY <2>1, <2>2, <2>3 DEF BusyStep, Counts, InBusySection,
       MarksAsCollector, BeforeMarking
<1>5. CASE BusyTest(p)
  <2>1. /\ pc[p] = "busy_test"
        /\ pc'[p] \in {"sweep_start", "bg_check", "mark"}
        /\ UNCHANGED <<n_busy_marking, bg_thread, local>>
    BY <1>5, GotoMoves DEF BusyTest
  <2>2. Others(p)
    BY <1>5, GotoMoves DEF BusyTest, Others
  <2> QED
    BY <2>1, <2>2 DEF BusyStep, Counts, InBusySection,
       MarksAsCollector, BeforeMarking
<1>6. CASE SweepStep(p)
  <2>1. Others(p)
    BY <1>6, GotoMoves, SetLocalMoves DEF SweepStep, StartSweeping,
       SweepLoadHead, SweepColor, SweepRoot, SweepKeep, SweepFree,
       SweepSubtract, FinishSweep, UpdateThreshold, FinishGc, Others
  <2>2. UNCHANGED <<n_busy_marking, bg_thread>>
    BY <1>6 DEF SweepStep, StartSweeping, SweepLoadHead, SweepColor,
       SweepRoot, SweepKeep, SweepFree, SweepSubtract, FinishSweep,
       UpdateThreshold, FinishGc
  <2>3. /\ pc[p] \in SweepLabel
                     \cup {"sweep_start", "finish_sweep", "threshold", "finish"}
        /\ pc'[p] \in SweepLabel \cup {"finish_sweep", "threshold", "finish",
                                       "bg_enter", "ready"}
    BY <1>6, GotoMoves DEF SweepStep, StartSweeping, SweepLoadHead,
       SweepColor, SweepRoot, SweepKeep, SweepFree, SweepSubtract,
       FinishSweep, UpdateThreshold, FinishGc, CollectorHome, SweepLabel
  <2> QED
    BY <2>1, <2>2, <2>3, StepOutside DEF Section, BeforeMarking, SweepLabel
<1> QED
  BY <1>1, <1>2, <1>3, <1>4, <1>5, <1>6

(***************************************************************************)
(* Starting a collection, stopping and joining a background thread, and    *)
(* that thread's own loop.                                                 *)
(***************************************************************************)
LEMMA ControlStepCounts ==
  ASSUME TypeOK, NEW p \in Procs, MarksAsCollector(p),
         \/ ForceCollect(p) \/ StopBackgroundCollection(p)
         \/ JoinBackgroundThread(p) \/ BackgroundStep(p)
  PROVE  BusyStep(p)
<1>1. CASE \/ ForceCollect(p) \/ StopBackgroundCollection(p)
           \/ JoinBackgroundThread(p)
  <2>1. Others(p)
    BY <1>1, GotoMoves, SetLocalMoves DEF ForceCollect,
       StopBackgroundCollection, JoinBackgroundThread, Others
  <2>2. /\ pc[p] \in {"ready", "join"}
        /\ pc'[p] \in {"try_mark", "join", "ready"}
        /\ n_busy_marking' = n_busy_marking
    BY <1>1, GotoMoves DEF ForceCollect, StopBackgroundCollection,
       JoinBackgroundThread
  <2>3. bg_thread'.counter = bg_thread.counter
    BY <1>1 DEF ForceCollect, StopBackgroundCollection,
       JoinBackgroundThread, TypeOK
  <2> QED
    BY <2>1, <2>2, <2>3, StepOutside DEF Section, BeforeMarking
<1>2. CASE BackgroundCheck(p)
  <2>1. /\ pc[p] = "bg_check" /\ pc'[p] \in {"bg_abort", "mark"}
        /\ UNCHANGED <<n_busy_marking, bg_thread, local>>
    BY <1>2, GotoMoves DEF BackgroundCheck
  <2>2. Others(p)
    BY <1>2, GotoMoves DEF BackgroundCheck, Others
  <2> QED
    BY <2>1, <2>2 DEF BusyStep, Counts, InBusySection,
       MarksAsCollector, BeforeMarking
<1>3. CASE \/ BackgroundWait(p) \/ BackgroundNotified(p)
           \/ BackgroundTimeout(p) \/ BackgroundAbort(p)
  <2>1. Others(p)
    BY <1>3, GotoMoves, SetLocalMoves DEF BackgroundWait,
       BackgroundNotified, BackgroundTimeout, BackgroundAbort, Others
  <2>2. /\ pc[p] \in {"bg_enter", "bg_sleep", "bg_abort"}
        /\ pc'[p] \in {"bg_done", "bg_sleep", "try_mark", "bg_enter"}
        /\ UNCHANGED <<n_busy_marking, bg_thread>>
    BY <1>3, GotoMoves DEF BackgroundWait, BackgroundNotified,
       BackgroundTimeout, BackgroundAbort
  <2> QED
    BY <2>1, <2>2, StepOutside DEF Section, BeforeMarking
<1> QED
  BY <1>1, <1>2, <1>3 DEF BackgroundStep

-----------------------------------------------------------------------------

(***************************************************************************)
(* StartBackgroundCollection is the one step that moves another thread:    *)
(* the one it starts, which was unborn.                                    *)
(***************************************************************************)
LEMMA StartKeeps ==
  ASSUME BusyInv, TypeOK', NEW t \in Threads, StartBackgroundCollection(t)
  PROVE  BusyInv'
<1> DEFINE c == bg_thread.counter + 1
<1>1. /\ c \in Background /\ c \in Procs /\ bg_thread.counter \in Nat
      /\ bg_thread'.counter = c
      /\ pc' = [pc EXCEPT ![c] = "bg_enter"]
      /\ UNCHANGED <<n_busy_marking, local>>
  BY DEF StartBackgroundCollection, BusyInv, TypeOK, Procs
<1>2. pc[c] = "unborn" /\ pc'[c] = "bg_enter"
  BY <1>1 DEF BusyInv, UnbornUntilStarted, TypeOK
<1>3. \A q \in Procs \ {c} : pc'[q] = pc[q]
  BY <1>1 DEF BusyInv, TypeOK
<1>4. \A q \in Procs : InBusySection(q)' <=> InBusySection(q)
  BY <1>1, <1>2, <1>3 DEF InBusySection
<1>5. BusyExact'
  BY <1>1, <1>4 DEF BusyInv, BusyExact
<1>6. \A q \in Procs : MarksAsCollector(q)'
  BY <1>1, <1>2, <1>3 DEF BusyInv, MarksAsCollector, BeforeMarking
<1>7. UnbornUntilStarted'
  <2> SUFFICES ASSUME NEW b \in Background, b > c PROVE pc'[b] = "unborn"
    BY <1>1 DEF UnbornUntilStarted
  <2>1. b \in Procs \ {c} /\ b > bg_thread.counter
    BY <1>1 DEF Procs, Background
  <2> QED
    BY <1>3, <2>1 DEF BusyInv, UnbornUntilStarted
<1> QED
  BY <1>5, <1>6, <1>7 DEF BusyInv

(***************************************************************************)
(* A new heap counts nobody and nobody is busy.                            *)
(***************************************************************************)
LEMMA InitBusyInv == Init => BusyInv
<1> SUFFICES ASSUME Init PROVE BusyInv
  OBVIOUS
<1>1. TypeOK
  BY InitTypeOK
<1>2. \A p \in Procs : pc[p] \in {"ready", "bg_enter", "unborn"}
  BY DEF Init
<1>3. BusyExact
  <2>1. {p \in Procs : InBusySection(p)} = {}
    BY <1>2 DEF InBusySection
  <2> QED
    BY <2>1, FS_EmptySet DEF Init, BusyExact
<1>4. \A p \in Procs : MarksAsCollector(p)
  BY <1>2 DEF MarksAsCollector, BeforeMarking
<1>5. UnbornUntilStarted
  <2> SUFFICES ASSUME NEW b \in Background, b > bg_thread.counter
               PROVE  pc[b] = "unborn"
    BY DEF UnbornUntilStarted
  <2>1. ~ is_background_collection_off /\ bg_thread.counter = 1
    BY DEF Init, Background
  <2>2. b \in Procs /\ b \notin Threads /\ b # 1
    BY <2>1, HeapAssumption DEF Procs, Background
  <2> QED
    BY <2>2 DEF Init
<1> QED
  BY <1>1, <1>3, <1>4, <1>5 DEF BusyInv

(***************************************************************************)
(* Every step keeps the inductive invariant.                               *)
(***************************************************************************)
LEMMA NextBusyInv == BusyInv /\ [Next]_vars => BusyInv'
<1> SUFFICES ASSUME BusyInv, [Next]_vars PROVE BusyInv'
  OBVIOUS
<1>0. TypeOK /\ TypeOK' /\ \A p \in Procs : MarksAsCollector(p)
  BY NextTypeOK DEF BusyInv
<1>1. ASSUME NEW p \in Procs, CycleStep(p) PROVE BusyInv'
  BY <1>0, <1>1, MarkStepCounts, ScanStepCounts, BusyStepKeeps DEF CycleStep
<1>2. ASSUME NEW t \in Threads,
             MutatorCall(t) \/ CollectorCall(t) \/ ThreadStep(t)
      PROVE  BusyInv'
  <2>1. t \in Procs
    BY DEF Procs
  <2>2. CASE MutatorCall(t) \/ MutatorStep(t)
    BY <1>0, <2>1, <2>2, MutatorCallCounts, MutatorStepCounts, BusyStepKeeps
  <2>3. CASE StartBackgroundCollection(t)
    BY <1>0, <2>3, StartKeeps
  <2>4. CASE \/ ForceCollect(t) \/ StopBackgroundCollection(t)
             \/ JoinBackgroundThread(t)
    BY <1>0, <2>1, <2>4, ControlStepCounts, BusyStepKeeps
  <2> QED
    BY <1>1, <1>2, <2>1, <2>2, <2>3, <2>4 DEF CollectorCall, ThreadStep
<1>3. ASSUME NEW b \in Background, BackgroundThread(b) PROVE BusyInv'
  <2>1. b \in Procs
    BY DEF Procs
  <2> QED
    BY <1>0, <1>1, <1>3, <2>1, ControlStepCounts, BusyStepKeeps
    DEF BackgroundThread
<1>4. CASE UNCHANGED vars
  BY <1>0, <1>4 DEF vars, BusyInv, BusyExact, InBusySection,
     MarksAsCollector, UnbornUntilStarted
<1> QED
  BY <1>2, <1>3, <1>4 DEF Next

(***************************************************************************)
(* n_busy_marking is exactly the number of assists and write barriers in   *)
(* progress, on every path through check_is_marking_and_increment_busy and *)
(* decrement_busy_marking: it never underflows, and a marker that loads 0  *)
(* can rely on nobody being inside a barrier or an assist.                 *)
(***************************************************************************)
THEOREM BusyCorrect == Spec => []BusyExact
<1>1. BusyInv => BusyExact
  BY DEF BusyInv
<1> QED
  BY <1>1, InitBusyInv, NextBusyInv, PTL DEF Spec

-----------------------------------------------------------------------------

(***************************************************************************)
(* Where a thread may have gray objects in hand.  Everywhere else its      *)
(* tracer is empty, so that nothing is lost when the call returns or a     *)
(* cycle is given up.                                                      *)
(***************************************************************************)
TracerLabel == {"roots", "mark", "trace", "shade_merge"}

IdleHands(p) == /\ pc[p] \notin TracerLabel => local[p].tracer = <<>>
                /\ pc[p] # "trace" => local[p].tracing = Null

(***************************************************************************)
(* The inductive invariant: GrayIsQueued, and of every object rather than  *)
(* of live ones only, with IdleHands.                                      *)
(***************************************************************************)
EveryGrayIsQueued ==
  \A o \in Objects :
    color[o] = "Gray" => o \in SeqRange(gray_queue) \cup InTracer

QueueInv == /\ BusyInv
            /\ \A p \in Procs : IdleHands(p)
            /\ EveryGrayIsQueued

(***************************************************************************)
(* What a step of p does to the gray objects: one it has in hand or finds  *)
(* in the queue is there after the step, or is not gray any more, and one  *)
(* it shades is in its tracer.                                             *)
(***************************************************************************)
InReach(p) == SeqRange(gray_queue) \cup InHand(p)

KeepsGray(p) ==
  \A o \in Objects : color'[o] = "Gray" =>
    o \in InReach(p)' \/ (color[o] = "Gray" /\ o \notin InReach(p))

QueueStep(p) == Others(p) /\ IdleHands(p)' /\ KeepsGray(p)

(***************************************************************************)
(* Such a step keeps every gray object queued.                             *)
(***************************************************************************)
LEMMA QueueStepKeeps ==
  ASSUME QueueInv, BusyInv', NEW p \in Procs, QueueStep(p)
  PROVE  QueueInv'
<1>1. \A q \in Procs : IdleHands(q)'
  BY DEF QueueStep, Others, IdleHands, QueueInv
<1>2. \A q \in Procs \ {p} : InHand(q)' = InHand(q)
  BY DEF QueueStep, Others, InHand
<1>3. EveryGrayIsQueued'
  <2> SUFFICES ASSUME NEW o \in Objects, color'[o] = "Gray"
               PROVE  o \in SeqRange(gray_queue') \cup InTracer'
    BY DEF EveryGrayIsQueued
  <2>1. CASE o \in InReach(p)'
    BY <2>1 DEF InReach, InTracer
  <2>2. CASE color[o] = "Gray" /\ o \notin InReach(p)
    <3>1. PICK q \in Procs : o \in InHand(q)
      BY <2>2 DEF QueueInv, EveryGrayIsQueued, InReach, InTracer
    <3>2. q # p
      BY <2>2, <3>1 DEF InReach
    <3> QED
      BY <1>2, <3>1, <3>2 DEF InTracer
  <2> QED
    BY <2>1, <2>2 DEF QueueStep, KeepsGray
<1> QED
  BY <1>1, <1>3 DEF QueueInv

-----------------------------------------------------------------------------

(***************************************************************************)
(* What merging, pushing, popping and stealing do to the items of a queue: *)
(* none gets lost.                                                         *)
(***************************************************************************)
LEMMA MergeKeepsItems ==
  ASSUME NEW s \in Seq(Objects), NEW r \in Seq(Objects)
  PROVE  SeqRange(s) \cup SeqRange(r) \subseteq SeqRange(s \o r)
<1>1. /\ Len(s) \in Nat /\ Len(r) \in Nat
      /\ Len(s \o r) = Len(s) + Len(r)
      /\ \A i \in 1..(Len(s) + Len(r)) :
           (s \o r)[i] = IF i <= Len(s) THEN s[i] ELSE r[i - Len(s)]
  BY ConcatProperties, LenProperties
<1>2. ASSUME NEW i \in 1..Len(s) PROVE s[i] \in SeqRange(s \o r)
  <2>1. i \in 1..Len(s \o r) /\ (s \o r)[i] = s[i]
    BY <1>1
  <2> QED
    BY <2>1 DEF SeqRange
<1>3. ASSUME NEW i \in 1..Len(r) PROVE r[i] \in SeqRange(s \o r)
  <2>1. /\ Len(s) + i \in 1..Len(s \o r)
        /\ (s \o r)[Len(s) + i] = r[i]
    BY <1>1
  <2> QED
    BY <2>1 DEF SeqRange
<1> QED
  BY <1>2, <1>3 DEF SeqRange

(***************************************************************************)
(* Tracer::mark pushes the object behind the others.                       *)
(***************************************************************************)
LEMMA PushKeepsItems ==
  ASSUME NEW s \in Seq(Objects), NEW o \in Objects
  PROVE  SeqRange(s) \cup {o} \subseteq SeqRange(Append(s, o))
<1>1. /\ Len(s) \in Nat
      /\ Len(Append(s, o)) = Len(s) + 1
      /\ \A i \in 1..Len(s) : Append(s, o)[i] = s[i]
      /\ Append(s, o)[Len(s) + 1] = o
  BY AppendProperties, LenProperties
<1>2. ASSUME NEW i \in 1..Len(s) PROVE s[i] \in SeqRange(Append(s, o))
  <2>1. i \in 1..Len(Append(s, o)) /\ Append(s, o)[i] = s[i]
    BY <1>1
  <2> QED
    BY <2>1 DEF SeqRange
<1>3. o \in SeqRange(Append(s, o))
  <2>1. Len(s) + 1 \in 1..Len(Append(s, o))
    BY <1>1
  <2> QED
    BY <1>1, <2>1 DEF SeqRange
<1> QED
  BY <1>2, <1>3 DEF SeqRange

(***************************************************************************)
(* pop_work hands out the item it removes.                                 *)
(***************************************************************************)
LEMMA PopKeepsItems ==
  ASSUME NEW s \in Seq(Objects), s # <<>>
  PROVE  SeqRange(s) \subseteq
           SeqRange(SubSeq(s, 1, Len(s) - 1)) \cup {s[Len(s)]}
<1> DEFINE r == SubSeq(s, 1, Len(s) - 1)
<1>1. Len(s) \in Nat \ {0} /\ \A i \in 1..Len(s) : s[i] \in Objects
  BY EmptySeq, ElementOfSeq
<1>2. Len(r) = Len(s) - 1 /\ \A i \in 1..(Len(s) - 1) : r[i] = s[i]
  <2>1. /\ 1 \in Int /\ Len(s) - 1 \in Int
        /\ \A i \in 1..(Len(s) - 1) : s[i] \in Objects
    BY <1>1
  <2>2. /\ Len(r) = IF 1 <= Len(s) - 1 THEN Len(s) - 1 - 1 + 1 ELSE 0
        /\ \A i \in 1..(Len(s) - 1 - 1 + 1) : r[i] = s[1 + i - 1]
    BY <2>1, SubSeqProperties
  <2> HIDE DEF r
  <2>3. Len(r) = Len(s) - 1
    <3>1. \A n \in Nat \ {0} :
            (IF 1 <= n - 1 THEN n - 1 - 1 + 1 ELSE 0) = n - 1
      OBVIOUS
    <3> QED
      BY <1>1, <2>2, <3>1
  <2>4. ASSUME NEW i \in 1..(Len(s) - 1) PROVE r[i] = s[i]
    <3>1. i \in 1..(Len(s) - 1 - 1 + 1) /\ 1 + i - 1 = i
      BY <1>1
    <3> QED
      BY <2>2, <3>1
  <2> QED
    BY <2>3, <2>4
<1>3. ASSUME NEW i \in 1..Len(s), i # Len(s) PROVE s[i] \in SeqRange(r)
  <2>1. i \in 1..Len(r) /\ r[i] = s[i]
    BY <1>1, <1>2, <1>3
  <2> QED
    BY <2>1 DEF SeqRange
<1> QED
  BY <1>3 DEF SeqRange

(***************************************************************************)
(* steal_work moves items and drops none.                                  *)
(***************************************************************************)
LEMMA StealKeepsItems ==
  ASSUME TypeOK, NEW n \in 0..Len(gray_queue)
  PROVE  SeqRange(gray_queue) \subseteq
           SeqRange(LastItems(n))
             \cup SeqRange(SubSeq(gray_queue, 1, Len(gray_queue) - n))
<1> DEFINE m == Len(gray_queue)
           r == SubSeq(gray_queue, 1, m - n)
<1>1. /\ gray_queue \in Seq(Objects) /\ m \in Nat
      /\ \A i \in 1..m : gray_queue[i] \in Objects
  BY LenProperties, ElementOfSeq DEF TypeOK
<1>2. Len(r) = m - n /\ \A i \in 1..(m - n) : r[i] = gray_queue[i]
  BY <1>1, SubSeqProperties
<1>3. LastItems(n) \in [1..n -> Objects]
  BY <1>1 DEF LastItems
<1>4. Len(LastItems(n)) = n
  BY <1>1, <1>3, IsASeq
<1>5. ASSUME NEW i \in 1..m
      PROVE  gray_queue[i] \in SeqRange(LastItems(n)) \cup SeqRange(r)
  <2>1. CASE i <= m - n
    <3>1. i \in 1..Len(r) /\ r[i] = gray_queue[i]
      BY <1>1, <1>2, <2>1
    <3> QED
      BY <3>1 DEF SeqRange
  <2>2. CASE ~ (i <= m - n)
    <3>1. m + 1 - i \in 1..n
      BY <1>1, <2>2
    <3>2. LastItems(n)[m + 1 - i] = gray_queue[m + 1 - (m + 1 - i)]
      BY <3>1 DEF LastItems
    <3>3. m + 1 - (m + 1 - i) = i
      BY <1>1
    <3> QED
      BY <1>4, <3>1, <3>2, <3>3 DEF SeqRange
  <2> QED
    BY <2>1, <2>2
<1> QED
  BY <1>5 DEF SeqRange

(***************************************************************************)
(* Tracer::mark of any pointer, and mark_header of an object: what becomes *)
(* gray is enqueued, and nothing leaves the tracer.                        *)
(***************************************************************************)
LEMMA MarkEnqueues ==
  ASSUME TypeOK, NEW s \in Seq(Objects), NEW v
  PROVE  /\ SeqRange(s) \subseteq SeqRange(MarkTracer(s, v))
         /\ \A o \in Objects : MarkColor(v)[o] = "Gray" =>
              color[o] = "Gray" \/ o \in SeqRange(MarkTracer(s, v))
<1>0. color \in [Objects -> Color]
  BY DEF TypeOK
<1>1. CASE v \in Objects \ NoTrace /\ color[v] = "White"
  <2>1. MarkTracer(s, v) = Append(s, v)
    BY <1>1 DEF MarkTracer, PushIfWhite
  <2>2. MarkColor(v) = [color EXCEPT ![v] = "Gray"]
    BY <1>1, HeapAssumption DEF MarkColor, mark_white_to_gray
  <2>3. SeqRange(s) \cup {v} \subseteq SeqRange(Append(s, v))
    BY <1>1, PushKeepsItems
  <2> QED
    BY <1>0, <2>1, <2>2, <2>3
<1>2. CASE ~ (v \in Objects \ NoTrace /\ color[v] = "White")
  <2>1. MarkTracer(s, v) = s
    BY <1>2 DEF MarkTracer, PushIfWhite
  <2>2. \A o \in Objects : MarkColor(v)[o] = "Gray" => color[o] = "Gray"
    BY <1>0, <1>2, HeapAssumption DEF MarkColor, mark_white_to_gray
  <2> QED
    BY <2>1, <2>2
<1> QED
  BY <1>1, <1>2

(***************************************************************************)
(* The same of mark_header.                                                *)
(***************************************************************************)
LEMMA MarkHeaderEnqueues ==
  ASSUME TypeOK, NEW s \in Seq(Objects), NEW v \in Objects
  PROVE  /\ SeqRange(s) \subseteq SeqRange(PushIfWhite(s, v))
         /\ \A o \in Objects : mark_white_to_gray(v)[o] = "Gray" =>
              color[o] = "Gray" \/ o \in SeqRange(PushIfWhite(s, v))
<1>0. color \in [Objects -> Color]
  BY DEF TypeOK
<1>1. CASE color[v] = "White"
  BY <1>0, <1>1, PushKeepsItems DEF PushIfWhite, mark_white_to_gray
<1>2. CASE color[v] # "White"
  BY <1>2 DEF PushIfWhite, mark_white_to_gray
<1> QED
  BY <1>1, <1>2

-----------------------------------------------------------------------------

(***************************************************************************)
(* A step from a label where the thread has nothing in hand to one where   *)
(* it has nothing in hand either.                                          *)
(***************************************************************************)
LEMMA QuietStep ==
  ASSUME NEW p \in Procs, IdleHands(p), pc[p] \notin TracerLabel, Others(p),
         local'[p].tracer = <<>>, local'[p].tracing = Null,
         gray_queue' = gray_queue,
         \A o \in Objects : color'[o] = "Gray" => color[o] = "Gray"
  PROVE  QueueStep(p)
<1>1. local[p].tracer = <<>> /\ local[p].tracing = Null
  BY DEF IdleHands, TracerLabel
<1>2. InReach(p)' = InReach(p)
  BY <1>1 DEF InReach, InHand
<1> QED
  BY <1>2 DEF QueueStep, IdleHands, KeepsGray

(***************************************************************************)
(* Beginning a call.                                                       *)
(***************************************************************************)
LEMMA MutatorCallQueues ==
  ASSUME TypeOK, NEW t \in Threads, IdleHands(t), MutatorCall(t)
  PROVE  QueueStep(t)
<1> DEFINE l == local[t]
<1>0. /\ t \in Procs /\ l \in Locals
      /\ Others(t)
  BY LocalType, MutatorCallCounts DEF Procs, BusyStep
<1>1. pc[t] = "ready" /\ UNCHANGED <<color, gray_queue>>
  BY DEF MutatorCall, Allocate, CloneRoot, DropRoot, CellSet, CellGet,
         CountLoadHead, Goto
<1>2. l.tracer = <<>> /\ l.tracing = Null
  BY <1>1 DEF IdleHands, TracerLabel
<1>3. local'[t].tracer = l.tracer /\ local'[t].tracing = l.tracing
  <2>1. CASE Allocate(t)
    <3>1. PICK o \in Objects :
            SetLocal(t, [l EXCEPT !.op = "allocate", !.current = o])
      BY <2>1 DEF Allocate
    <3>2. local'[t] = [l EXCEPT !.op = "allocate", !.current = o]
      BY <1>0, <3>1, SetLocalMoves
    <3> QED
      BY <1>0, <3>2 DEF Locals
  <2>2. CASE CloneRoot(t) \/ DropRoot(t)
    BY <2>2 DEF CloneRoot, DropRoot
  <2>3. CASE CellSet(t)
    <3>1. PICK o, f, v : SetLocal(t, [l EXCEPT !.op = "set", !.current = o,
                                               !.field = f, !.value = v])
      BY <2>3 DEF CellSet
    <3>2. local'[t] = [l EXCEPT !.op = "set", !.current = o,
                                !.field = f, !.value = v]
      BY <1>0, <3>1, SetLocalMoves
    <3> QED
      BY <1>0, <3>2 DEF Locals
  <2>4. CASE CellGet(t)
    <3>1. PICK v : SetLocal(t, [l EXCEPT !.value = v])
      BY <2>4 DEF CellGet
    <3>2. local'[t] = [l EXCEPT !.value = v]
      BY <1>0, <3>1, SetLocalMoves
    <3> QED
      BY <1>0, <3>2 DEF Locals
  <2>5. CASE CountLoadHead(t)
    BY <1>0, <2>5, SetLocalMoves DEF CountLoadHead, Locals
  <2> QED
    BY <2>1, <2>2, <2>3, <2>4, <2>5 DEF MutatorCall
<1> QED
  BY <1>0, <1>1, <1>2, <1>3, QuietStep DEF TracerLabel

(***************************************************************************)
(* A call that goes on: the barrier shades and enqueues.                   *)
(***************************************************************************)
LEMMA MutatorStepQueues ==
  ASSUME TypeOK, NEW t \in Threads, IdleHands(t), MutatorStep(t)
  PROVE  QueueStep(t)
<1> DEFINE l == local[t]
<1>0. /\ t \in Procs /\ l \in Locals /\ l.tracer \in Seq(Objects)
      /\ Others(t)
  BY LocalType, MutatorStepCounts DEF Procs, BusyStep, Locals
<1>1. CASE \/ BusyCheck(t) \/ DecrementBusyMarking(t)
           \/ AllocateBox(t) \/ AllocateLoadHead(t)
           \/ AllocatePublish(t) \/ AllocateRetry(t)
  <2>1. /\ pc[t] \notin TracerLabel
        /\ UNCHANGED <<gray_queue, local>>
    BY <1>1 DEF BusyCheck, DecrementBusyMarking, AllocateBox,
       AllocateLoadHead, AllocatePublish, AllocateRetry, Goto, TracerLabel
  <2>2. \A o \in Objects : color'[o] = "Gray" => color[o] = "Gray"
    BY <1>1 DEF BusyCheck, DecrementBusyMarking, AllocateBox,
       AllocateLoadHead, AllocatePublish, AllocateRetry, TypeOK
  <2> QED
    BY <1>0, <2>1, <2>2, QuietStep DEF IdleHands, TracerLabel
<1>2. CASE \/ AllocateReturn(t) \/ CellStore(t) \/ RootPointer(t)
           \/ ForgetPointer(t)
  <2>1. /\ pc[t] \notin TracerLabel
        /\ UNCHANGED <<gray_queue, color>>
        /\ SetLocal(t, NoLocals)
    BY <1>2 DEF AllocateReturn, CellStore, RootPointer, ForgetPointer, Goto,
       TracerLabel
  <2>2. local'[t].tracer = <<>> /\ local'[t].tracing = Null
    BY <1>0, <2>1, SetLocalMoves DEF NoLocals
  <2> QED
    BY <1>0, <2>1, <2>2, QuietStep
<1>3. CASE CountNode(t)
  <2>1. /\ pc[t] \notin TracerLabel
        /\ UNCHANGED <<gray_queue, color>>
    BY <1>3 DEF CountNode, TracerLabel
  <2>2. l.tracer = <<>> /\ l.tracing = Null
    BY <2>1 DEF IdleHands, TracerLabel
  <2>3. \/ SetLocal(t, NoLocals)
        \/ SetLocal(t, [l EXCEPT !.current = next[l.current]])
    BY <1>3 DEF CountNode
  <2>4. local'[t].tracer = <<>> /\ local'[t].tracing = Null
    BY <1>0, <2>2, <2>3, SetLocalMoves DEF NoLocals, Locals
  <2> QED
    BY <1>0, <2>1, <2>4, QuietStep
<1>4. CASE CellShade(t)
  <2>1. /\ pc[t] = "shade" /\ pc'[t] = "shade_merge"
        /\ gray_queue' = gray_queue /\ color' = MarkColor(l.value)
    BY <1>0, <1>4, GotoMoves DEF CellShade
  <2>2. local'[t] = [l EXCEPT !.tracer = MarkTracer(l.tracer, l.value)]
    BY <1>0, <1>4, SetLocalMoves DEF CellShade
  <2>3. /\ local'[t].tracer = MarkTracer(l.tracer, l.value)
        /\ local'[t].tracing = l.tracing
    BY <1>0, <2>2 DEF Locals
  <2>4. IdleHands(t)'
    BY <2>1, <2>3 DEF IdleHands, TracerLabel
  <2>5. KeepsGray(t)
    BY <1>0, <2>1, <2>3, MarkEnqueues DEF KeepsGray, InReach, InHand
  <2> QED
    BY <1>0, <2>4, <2>5 DEF QueueStep
<1>5. CASE CellMergeWork(t)
  <2>1. /\ pc[t] = "shade_merge" /\ pc'[t] = "busy_dec"
        /\ gray_queue' = gray_queue \o l.tracer /\ color' = color
    BY <1>0, <1>5, GotoMoves DEF CellMergeWork
  <2>2. local'[t].tracer = <<>> /\ local'[t].tracing = l.tracing
    BY <1>0, <1>5, SetLocalMoves DEF CellMergeWork, Locals
  <2>3. IdleHands(t)'
    BY <2>1, <2>2 DEF IdleHands, TracerLabel
  <2>4. SeqRange(gray_queue) \cup SeqRange(l.tracer)
          \subseteq SeqRange(gray_queue')
    BY <1>0, <2>1, MergeKeepsItems DEF TypeOK
  <2>5. KeepsGray(t)
    BY <2>1, <2>2, <2>4 DEF KeepsGray, InReach, InHand
  <2> QED
    BY <1>0, <2>3, <2>5 DEF QueueStep
<1> QED
  BY <1>1, <1>2, <1>3, <1>4, <1>5 DEF MutatorStep

(***************************************************************************)
(* The mark loop, of collectors and of assists alike: an object popped is  *)
(* in hand until it is black, and what a spent budget leaves is merged.    *)
(***************************************************************************)
LEMMA MarkStepQueues ==
  ASSUME TypeOK, NEW p \in Procs, IdleHands(p), MarkStep(p)
  PROVE  QueueStep(p)
<1> DEFINE l == local[p]
<1>0. /\ l \in Locals /\ l.tracer \in Seq(Objects)
      /\ Others(p)
  BY LocalType, MarkStepCounts DEF BusyStep, Locals
<1>1. CASE MarkPop(p)
  <2> DEFINE o == l.tracer[Len(l.tracer)]
             r == SubSeq(l.tracer, 1, Len(l.tracer) - 1)
  <2>1. /\ pc'[p] = "trace" /\ l.tracer # <<>>
        /\ UNCHANGED <<gray_queue, color>>
    BY <1>1, GotoMoves DEF MarkPop
  <2>2. PICK f : local'[p] = [l EXCEPT !.tracer = r, !.tracing = o,
                                       !.pending = f]
    BY <1>1, SetLocalMoves DEF MarkPop
  <2>3. local'[p].tracer = r /\ local'[p].tracing = o
    BY <1>0, <2>2 DEF Locals
  <2>4. SeqRange(l.tracer) \subseteq SeqRange(r) \cup {o}
    BY <1>0, <2>1, PopKeepsItems
  <2>5. l.tracing = Null
    BY <1>1, GotoMoves DEF IdleHands, MarkPop
  <2>6. KeepsGray(p)
    BY <2>1, <2>3, <2>4, <2>5, HeapAssumption DEF KeepsGray, InReach, InHand
  <2> QED
    BY <1>0, <2>1, <2>6 DEF QueueStep, IdleHands, TracerLabel
<1>2. CASE MarkSteal(p)
  <2> DEFINE n == IF Len(gray_queue) < BatchSize THEN Len(gray_queue)
                                                 ELSE BatchSize
  <2>1. /\ pc[p] = "mark" /\ l.tracer = <<>> /\ UNCHANGED <<pc, color>>
        /\ gray_queue' = SubSeq(gray_queue, 1, Len(gray_queue) - n)
    BY <1>2 DEF MarkSteal
  <2>2. local'[p].tracer = LastItems(n) /\ local'[p].tracing = l.tracing
    BY <1>0, <1>2, SetLocalMoves DEF MarkSteal, Locals
  <2>3. n \in 0..Len(gray_queue)
    BY HeapAssumption, LenProperties DEF TypeOK
  <2>4. SeqRange(gray_queue) \subseteq
          SeqRange(LastItems(n)) \cup SeqRange(gray_queue')
    BY <2>1, <2>3, StealKeepsItems
  <2>5. SeqRange(l.tracer) = {}
    BY <2>1 DEF SeqRange
  <2>6. KeepsGray(p)
    BY <2>1, <2>2, <2>4, <2>5 DEF KeepsGray, InReach, InHand
  <2> QED
    BY <1>0, <2>1, <2>2, <2>6 DEF QueueStep, IdleHands, TracerLabel
<1>3. CASE TraceField(p)
  <2>1. PICK f \in l.pending :
          LET v == ref[l.tracing][f]
          IN  /\ color' = MarkColor(v)
              /\ SetLocal(p, [l EXCEPT !.tracer = MarkTracer(@, v),
                                       !.pending = @ \ {f}])
    BY <1>3 DEF TraceField
  <2> DEFINE v == ref[l.tracing][f]
  <2>2. pc[p] = "trace" /\ UNCHANGED <<pc, gray_queue>>
    BY <1>3 DEF TraceField
  <2>3. \A s, q : /\ [l EXCEPT !.tracer = s, !.pending = q].tracer = s
                  /\ [l EXCEPT !.tracer = s, !.pending = q].tracing = l.tracing
    BY <1>0 DEF Locals
  <2>4. local'[p] = [l EXCEPT !.tracer = MarkTracer(@, v), !.pending = @ \ {f}]
    BY <2>1, SetLocalMoves
  <2>5. /\ local'[p].tracer = MarkTracer(l.tracer, v)
        /\ local'[p].tracing = l.tracing
    BY <2>3, <2>4
  <2>6. KeepsGray(p)
    BY <1>0, <2>1, <2>2, <2>5, MarkEnqueues DEF KeepsGray, InReach, InHand
  <2> QED
    BY <1>0, <2>2, <2>6 DEF QueueStep, IdleHands, TracerLabel
<1>4. CASE MarkBlack(p)
  <2>1. /\ pc'[p] = "mark" /\ gray_queue' = gray_queue
        /\ color' = [color EXCEPT ![l.tracing] = "Black"]
    BY <1>4, GotoMoves DEF MarkBlack
  <2>2. PICK n : local'[p] = [l EXCEPT !.tracing = Null, !.work_done = n]
    BY <1>4, SetLocalMoves DEF MarkBlack
  <2>3. local'[p].tracer = l.tracer /\ local'[p].tracing = Null
    BY <1>0, <2>2 DEF Locals
  <2>4. \A o \in Objects : color'[o] = "Gray" =>
          color[o] = "Gray" /\ o # l.tracing
    BY <2>1 DEF TypeOK
  <2>5. KeepsGray(p)
    BY <2>1, <2>3, <2>4 DEF KeepsGray, InReach, InHand
  <2> QED
    BY <1>0, <2>1, <2>3, <2>5 DEF QueueStep, IdleHands, TracerLabel
<1>5. CASE MarkNoWork(p)
  <2>1. /\ l.tracer = <<>> /\ UNCHANGED <<gray_queue, color>>
        /\ pc[p] = "mark"
    BY <1>5, GotoMoves DEF MarkNoWork
  <2>2. local'[p].tracer = l.tracer /\ local'[p].tracing = l.tracing
    <3>1. local'[p] = [l EXCEPT !.work_done = 0]
      BY <1>5, SetLocalMoves DEF MarkNoWork
    <3> QED
      BY <1>0, <3>1 DEF Locals
  <2>3. KeepsGray(p)
    BY <2>1, <2>2 DEF KeepsGray, InReach, InHand
  <2> QED
    BY <1>0, <2>1, <2>2, <2>3 DEF QueueStep, IdleHands, TracerLabel
<1>6. CASE MarkBudgetSpent(p)
  <2>1. /\ gray_queue' = gray_queue \o l.tracer /\ color' = color
        /\ pc[p] = "mark"
    BY <1>6, GotoMoves DEF MarkBudgetSpent
  <2>2. local'[p].tracer = <<>> /\ local'[p].tracing = l.tracing
    <3>1. local'[p] = [l EXCEPT !.tracer = <<>>, !.work_done = 0]
      BY <1>6, SetLocalMoves DEF MarkBudgetSpent
    <3> QED
      BY <1>0, <3>1 DEF Locals
  <2>3. SeqRange(gray_queue) \cup SeqRange(l.tracer)
          \subseteq SeqRange(gray_queue')
    BY <1>0, <2>1, MergeKeepsItems DEF TypeOK
  <2>4. KeepsGray(p)
    BY <2>1, <2>2, <2>3 DEF KeepsGray, InReach, InHand
  <2> QED
    BY <1>0, <2>1, <2>2, <2>4 DEF QueueStep, IdleHands, TracerLabel
<1> QED
  BY <1>1, <1>2, <1>3, <1>4, <1>5, <1>6 DEF MarkStep

(***************************************************************************)
(* Root scan, termination test and sweep.                                  *)
(***************************************************************************)
LEMMA ScanStepQueues ==
  ASSUME TypeOK, NEW p \in Procs, MarksAsCollector(p), IdleHands(p),
         \/ TryStartMarking(p) \/ RootsLoadHead(p) \/ RootsVisit(p)
         \/ RootsMerge(p) \/ BusyTest(p) \/ SweepStep(p)
  PROVE  QueueStep(p)
<1> DEFINE l == local[p]
<1>0. /\ l \in Locals /\ l.tracer \in Seq(Objects)
      /\ Others(p)
  BY LocalType, ScanStepCounts DEF BusyStep, Locals
<1>1. CASE \/ TryStartMarking(p) \/ RootsLoadHead(p) \/ BusyTest(p)
  <2>1. /\ pc[p] \notin TracerLabel
        /\ UNCHANGED <<gray_queue, color>>
    BY <1>1 DEF TryStartMarking, RootsLoadHead, BusyTest, Goto, TracerLabel
  <2>2. \/ local' = local
        \/ SetLocal(p, [l EXCEPT !.op = "collect"])
        \/ SetLocal(p, [l EXCEPT !.current = head])
    BY <1>1 DEF TryStartMarking, RootsLoadHead, BusyTest
  <2>3. local'[p].tracer = l.tracer /\ local'[p].tracing = l.tracing
    BY <1>0, <2>2, SetLocalMoves DEF Locals
  <2> QED
    BY <1>0, <2>1, <2>3, QuietStep DEF IdleHands, TracerLabel
<1>2. CASE RootsVisit(p)
  <2>1. pc[p] = "roots" /\ UNCHANGED <<pc, gray_queue>> /\ l.current \in Objects
    BY <1>0, <1>2 DEF RootsVisit, Locals, Pointer
  <2>2. CASE is_root(l.current)
    <3>1. color' = mark_white_to_gray(l.current)
      BY <1>2, <2>2 DEF RootsVisit
    <3>2. PICK n : local'[p] = [l EXCEPT
                     !.tracer = PushIfWhite(l.tracer, l.current), !.current = n]
      BY <1>2, <2>2, SetLocalMoves DEF RootsVisit
    <3>3. /\ local'[p].tracer = PushIfWhite(l.tracer, l.current)
          /\ local'[p].tracing = l.tracing
      BY <1>0, <3>2 DEF Locals
    <3>4. KeepsGray(p)
      BY <1>0, <2>1, <3>1, <3>3, MarkHeaderEnqueues
      DEF KeepsGray, InReach, InHand
    <3> QED
      BY <1>0, <2>1, <3>3, <3>4 DEF QueueStep, IdleHands, TracerLabel
  <2>3. CASE ~ is_root(l.current)
    <3>1. color' = color
      BY <1>2, <2>3 DEF RootsVisit
    <3>2. PICK n : local'[p] = [l EXCEPT !.current = n]
      BY <1>2, <2>3, SetLocalMoves DEF RootsVisit
    <3>3. local'[p].tracer = l.tracer /\ local'[p].tracing = l.tracing
      BY <1>0, <3>2 DEF Locals
    <3>4. KeepsGray(p)
      BY <2>1, <3>1, <3>3 DEF KeepsGray, InReach, InHand
    <3> QED
      BY <1>0, <2>1, <3>3, <3>4 DEF QueueStep, IdleHands, TracerLabel
  <2> QED
    BY <2>2, <2>3
<1>3. CASE RootsMerge(p)
  <2>1. /\ gray_queue' = gray_queue \o l.tracer /\ color' = color
        /\ pc[p] = "roots"
    BY <1>3, GotoMoves DEF RootsMerge
  <2>2. local'[p].tracer = <<>> /\ local'[p].tracing = l.tracing
    <3>1. local'[p] = [l EXCEPT !.tracer = <<>>]
      BY <1>3, SetLocalMoves DEF RootsMerge
    <3> QED
      BY <1>0, <3>1 DEF Locals
  <2>3. SeqRange(gray_queue) \cup SeqRange(l.tracer)
          \subseteq SeqRange(gray_queue')
    BY <1>0, <2>1, MergeKeepsItems DEF TypeOK
  <2>4. KeepsGray(p)
    BY <2>1, <2>2, <2>3 DEF KeepsGray, InReach, InHand
  <2> QED
    BY <1>0, <2>1, <2>2, <2>4 DEF QueueStep, IdleHands, TracerLabel
<1>4. CASE SweepStep(p)
  <2>1. /\ pc[p] \notin TracerLabel
        /\ gray_queue' = gray_queue
    BY <1>4 DEF SweepStep, StartSweeping, SweepLoadHead, SweepColor,
       SweepRoot, SweepKeep, SweepFree, SweepSubtract, FinishSweep,
       UpdateThreshold, FinishGc, Goto, TracerLabel
  <2>2. \A o \in Objects : color'[o] = "Gray" => color[o] = "Gray"
    BY <1>4 DEF SweepStep, StartSweeping, SweepLoadHead, SweepColor,
       SweepRoot, SweepKeep, SweepFree, SweepSubtract, FinishSweep,
       UpdateThreshold, FinishGc, TypeOK
  <2>3. l.tracer = <<>> /\ l.tracing = Null
    BY <2>1 DEF IdleHands, TracerLabel
  <2>4. local'[p].tracer = <<>> /\ local'[p].tracing = Null
    <3>1. CASE \/ StartSweeping(p) \/ SweepRoot(p) \/ FinishSweep(p)
               \/ UpdateThreshold(p)
      BY <2>3, <3>1 DEF StartSweeping, SweepRoot, FinishSweep,
         UpdateThreshold
    <3>2. CASE SweepLoadHead(p) \/ SweepColor(p)
      <4>1. \/ \E o : local'[p] = [l EXCEPT !.current = o]
            \/ \E o : local'[p] = [l EXCEPT !.following = o]
        BY <3>2, SetLocalMoves DEF SweepLoadHead, SweepColor
      <4> QED
        BY <1>0, <2>3, <4>1 DEF Locals
    <3>3. CASE SweepKeep(p)
      <4>1. local'[p] = [l EXCEPT !.prev = l.current,
                                  !.current = l.following]
        BY <3>3, SetLocalMoves DEF SweepKeep
      <4> QED
        BY <1>0, <2>3, <4>1 DEF Locals
    <3>4. CASE SweepFree(p)
      <4>1. PICK n : SetLocal(p, [l EXCEPT !.freed = n,
                                           !.current = l.following])
        BY <3>4 DEF SweepFree
      <4>2. local'[p] = [l EXCEPT !.freed = n, !.current = l.following]
        BY <4>1, SetLocalMoves
      <4> QED
        BY <1>0, <2>3, <4>2 DEF Locals
    <3>5. CASE SweepSubtract(p)
      <4>1. \E n : local'[p] = [l EXCEPT !.live = n]
        BY <3>5, SetLocalMoves DEF SweepSubtract
      <4> QED
        BY <1>0, <2>3, <4>1 DEF Locals
    <3>6. CASE FinishGc(p)
      BY <3>6, SetLocalMoves DEF FinishGc, NoLocals
    <3> QED
      BY <1>4, <3>1, <3>2, <3>3, <3>4, <3>5, <3>6 DEF SweepStep
  <2> QED
    BY <1>0, <2>1, <2>2, <2>4, QuietStep
<1> QED
  BY <1>1, <1>2, <1>3, <1>4

(***************************************************************************)
(* A cycle given up has merged its tracer before.                          *)
(***************************************************************************)
LEMMA ControlStepQueues ==
  ASSUME TypeOK, NEW p \in Procs, MarksAsCollector(p), IdleHands(p),
         \/ ForceCollect(p) \/ StopBackgroundCollection(p)
         \/ JoinBackgroundThread(p) \/ BackgroundStep(p)
  PROVE  QueueStep(p)
<1> DEFINE l == local[p]
<1>0. l \in Locals /\ Others(p)
  BY LocalType, ControlStepCounts DEF BusyStep
<1>1. /\ pc[p] \notin TracerLabel
      /\ UNCHANGED <<gray_queue, color>>
  BY DEF ForceCollect, StopBackgroundCollection, JoinBackgroundThread,
     BackgroundStep, BackgroundWait, BackgroundNotified, BackgroundTimeout,
     BackgroundCheck, BackgroundAbort, Goto, TracerLabel
<1>2. \/ local' = local \/ SetLocal(p, NoLocals)
      \/ \E n : SetLocal(p, [l EXCEPT !.joining = n])
  BY DEF ForceCollect, StopBackgroundCollection, JoinBackgroundThread,
     BackgroundStep, BackgroundWait, BackgroundNotified, BackgroundTimeout,
     BackgroundCheck, BackgroundAbort
<1>3. l.tracer = <<>> /\ l.tracing = Null
  BY <1>1 DEF IdleHands, TracerLabel
<1>4. local'[p].tracer = <<>> /\ local'[p].tracing = Null
  <2>1. ASSUME NEW n, SetLocal(p, [l EXCEPT !.joining = n])
        PROVE  local'[p].tracer = <<>> /\ local'[p].tracing = Null
    <3>1. local'[p] = [l EXCEPT !.joining = n]
      BY <2>1, SetLocalMoves
    <3> QED
      BY <1>0, <1>3, <3>1 DEF Locals
  <2>2. ASSUME SetLocal(p, NoLocals)
        PROVE  local'[p].tracer = <<>> /\ local'[p].tracing = Null
    BY <2>2, SetLocalMoves DEF NoLocals
  <2> QED
    BY <1>2, <1>3, <2>1, <2>2
<1> QED
  BY <1>0, <1>1, <1>4, QuietStep

(***************************************************************************)
(* The thread started was unborn and has nothing in hand.                  *)
(***************************************************************************)
LEMMA StartKeepsQueue ==
  ASSUME QueueInv, BusyInv', NEW t \in Threads, StartBackgroundCollection(t)
  PROVE  QueueInv'
<1> DEFINE c == bg_thread.counter + 1
<1>1. /\ c \in Background /\ c \in Procs /\ bg_thread.counter \in Nat
      /\ pc' = [pc EXCEPT ![c] = "bg_enter"]
      /\ UNCHANGED <<local, color, gray_queue>>
  BY DEF StartBackgroundCollection, QueueInv, BusyInv, TypeOK, Procs
<1>2. pc[c] = "unborn" /\ pc'[c] = "bg_enter"
      /\ \A q \in Procs \ {c} : pc'[q] = pc[q]
  BY <1>1 DEF QueueInv, BusyInv, UnbornUntilStarted, TypeOK
<1>3. \A q \in Procs : IdleHands(q)'
  BY <1>1, <1>2 DEF QueueInv, IdleHands, TracerLabel
<1>4. EveryGrayIsQueued'
  BY <1>1 DEF QueueInv, EveryGrayIsQueued, InTracer, InHand
<1> QED
  BY <1>3, <1>4 DEF QueueInv

(***************************************************************************)
(* A new heap has no gray object.                                          *)
(***************************************************************************)
LEMMA InitQueueInv == Init => QueueInv
<1> SUFFICES ASSUME Init PROVE QueueInv
  OBVIOUS
<1>1. BusyInv
  BY InitBusyInv
<1>2. \A p \in Procs : IdleHands(p)
  BY DEF Init, IdleHands, NoLocals
<1>3. EveryGrayIsQueued
  BY DEF Init, EveryGrayIsQueued
<1> QED
  BY <1>1, <1>2, <1>3 DEF QueueInv

(***************************************************************************)
(* Every step keeps the inductive invariant.                               *)
(***************************************************************************)
LEMMA NextQueueInv == QueueInv /\ [Next]_vars => QueueInv'
<1> SUFFICES ASSUME QueueInv, [Next]_vars PROVE QueueInv'
  OBVIOUS
<1>0. /\ TypeOK /\ BusyInv'
      /\ \A p \in Procs : MarksAsCollector(p) /\ IdleHands(p)
  BY NextBusyInv DEF QueueInv, BusyInv
<1>1. ASSUME NEW p \in Procs, CycleStep(p) PROVE QueueInv'
  BY <1>0, <1>1, MarkStepQueues, ScanStepQueues, QueueStepKeeps DEF CycleStep
<1>2. ASSUME NEW t \in Threads,
             MutatorCall(t) \/ CollectorCall(t) \/ ThreadStep(t)
      PROVE  QueueInv'
  <2>1. t \in Procs
    BY DEF Procs
  <2>2. CASE MutatorCall(t) \/ MutatorStep(t)
    BY <1>0, <2>1, <2>2, MutatorCallQueues, MutatorStepQueues, QueueStepKeeps
  <2>3. CASE StartBackgroundCollection(t)
    BY <1>0, <2>3, StartKeepsQueue
  <2>4. CASE \/ ForceCollect(t) \/ StopBackgroundCollection(t)
             \/ JoinBackgroundThread(t)
    BY <1>0, <2>1, <2>4, ControlStepQueues, QueueStepKeeps
  <2> QED
    BY <1>1, <1>2, <2>1, <2>2, <2>3, <2>4 DEF CollectorCall, ThreadStep
<1>3. ASSUME NEW b \in Background, BackgroundThread(b) PROVE QueueInv'
  <2>1. b \in Procs
    BY DEF Procs
  <2> QED
    BY <1>0, <1>1, <1>3, <2>1, ControlStepQueues, QueueStepKeeps
    DEF BackgroundThread
<1>4. CASE UNCHANGED vars
  BY <1>0, <1>4 DEF vars, QueueInv, IdleHands, EveryGrayIsQueued, InTracer,
     InHand
<1> QED
  BY <1>2, <1>3, <1>4 DEF Next

(***************************************************************************)
(* A gray object is always in the shared queue or in the hands of a thread *)
(* that will scan it: whatever collectors, assists and barriers do at the  *)
(* same time, two collectors and a cycle given up included, no             *)
(* mark_white_to_gray, pop_work, steal_work, append_to or clear of a       *)
(* tracer loses one.                                                       *)
(***************************************************************************)
THEOREM GrayQueueCorrect == Spec => []GrayIsQueued
<1>1. QueueInv => GrayIsQueued
  BY DEF QueueInv, EveryGrayIsQueued, GrayIsQueued, Live
<1> QED
  BY <1>1, InitQueueInv, NextQueueInv, PTL DEF Spec

-----------------------------------------------------------------------------

(***************************************************************************)
(* An allocate call has its object to itself until it returns: the box is  *)
(* in nobody's cell or GcRoot before, though a walk of the list can meet   *)
(* it from the moment it is published.                                     *)
(***************************************************************************)
AssistLabel == {"busy_check", "busy_dec", "mark", "trace", "alloc_box"}

PushLabel == {"alloc_load", "alloc_cas", "alloc_add"}

Allocates(p) == local[p].op = "allocate"

Published == {o \in Objects : mem[o] \in {"live", "freed"}}

HandedOut ==
  {o \in Published : \A t \in Threads : Allocates(t) => local[t].current # o}

OwnsItsObject(p) ==
  Allocates(p) =>
    /\ p \in Threads
    /\ local[p].current \in Objects
    /\ \/ pc[p] \in AssistLabel /\ mem[local[p].current] = "reserved"
       \/ /\ pc[p] \in {"alloc_load", "alloc_cas"}
          /\ mem[local[p].current] = "boxed"
       \/ pc[p] = "alloc_add" /\ local[p].current \in Published

(***************************************************************************)
(* What a thread may point to: the walks of root scan, sweep and           *)
(* allocation_count to published boxes, a copied pointer to one that an    *)
(* allocate call has returned.                                             *)
(***************************************************************************)
SeesPublished(p) ==
  /\ pc[p] \in PushLabel \cup {"alloc_box"} => Allocates(p)
  /\ ~ Allocates(p) => local[p].current \in Published \cup {Null}
  /\ local[p].prev \in Published \cup {Null}
  /\ local[p].following \in Published \cup {Null}
  /\ local[p].value \in HandedOut \cup {Null}

NoObjectTwice ==
  \A t, u \in Threads :
    /\ Allocates(t) /\ Allocates(u)
    /\ local[t].current = local[u].current
    => t = u

ListIsPublished ==
  /\ head \in Published \cup {Null}
  /\ \A o \in Objects : next[o] \in Published \cup {Null}

CellsAreHandedOut ==
  \A o \in Objects, f \in Fields : ref[o][f] \in HandedOut \cup {Null}

RootsAreHandedOut == \A t \in Threads : HeldBy(t) \subseteq HandedOut

(***************************************************************************)
(* The inductive invariant for the root counts.                            *)
(***************************************************************************)
RootInv == /\ TypeOK
           /\ \A p \in Procs : OwnsItsObject(p) /\ SeesPublished(p)
           /\ NoObjectTwice
           /\ ListIsPublished
           /\ CellsAreHandedOut
           /\ RootsAreHandedOut
           /\ RootCountExact

-----------------------------------------------------------------------------

(***************************************************************************)
(* GcRoot::clone, GcPtr::root and the return of allocate add one GcRoot.   *)
(***************************************************************************)
LEMMA OneRootMore ==
  ASSUME TypeOK, NEW u \in Threads, NEW o \in Objects,
         handles[u][o] < MaxHandles,
         handles' = [handles EXCEPT ![u][o] = handles[u][o] + 1]
  PROVE  /\ Cardinality(GcRoots(o)) \in Nat
         /\ Cardinality(GcRoots(o)') = Cardinality(GcRoots(o)) + 1
         /\ \A x \in Objects \ {o} : GcRoots(x)' = GcRoots(x)
<1>0. /\ MaxHandles \in Nat /\ IsFiniteSet(Threads)
      /\ handles \in [Threads -> [Objects -> 0..MaxHandles]]
  BY HeapAssumption DEF TypeOK
<1>1. \A t \in Threads, x \in Objects :
        /\ handles[t][x] \in 0..MaxHandles
        /\ handles'[t][x] = IF t = u /\ x = o THEN handles[u][o] + 1
                                              ELSE handles[t][x]
  BY <1>0
<1>2. IsFiniteSet(GcRoots(o))
  <2>1. IsFiniteSet(1..MaxHandles)
    BY <1>0, FS_Interval
  <2>2. IsFiniteSet(Threads \X (1..MaxHandles))
    BY <1>0, <2>1, FS_Product
  <2> QED
    BY <2>2, FS_Subset DEF GcRoots
<1> DEFINE n == handles[u][o] + 1
<1>3. n \in 1..MaxHandles
  BY <1>0, <1>1
<1>4. <<u, n>> \notin GcRoots(o)
  <2>1. ~ (n <= handles[u][o])
    BY <1>1
  <2> QED
    BY <2>1 DEF GcRoots
<1>5. GcRoots(o)' = GcRoots(o) \cup {<<u, n>>}
  <2>1. ASSUME NEW t \in Threads, NEW i \in 1..MaxHandles
        PROVE  i <= handles'[t][o]
                 <=> i <= handles[t][o] \/ (t = u /\ i = n)
    <3>1. CASE t = u
      BY <1>0, <1>1, <3>1
    <3>2. CASE t # u
      BY <1>0, <1>1, <3>2
    <3> QED
      BY <3>1, <3>2
  <2>2. ASSUME NEW r \in Threads \X (1..MaxHandles)
        PROVE  r[2] <= handles'[r[1]][o]
                 <=> r[2] <= handles[r[1]][o] \/ r = <<u, n>>
    BY <2>1
  <2> QED
    BY <1>3, <2>2 DEF GcRoots
<1>6. \A x \in Objects \ {o} : GcRoots(x)' = GcRoots(x)
  BY <1>1 DEF GcRoots
<1> QED
  BY <1>2, <1>4, <1>5, <1>6, FS_AddElement, FS_CardinalityType

(***************************************************************************)
(* Drop for GcRoot removes one.                                            *)
(***************************************************************************)
LEMMA OneRootLess ==
  ASSUME TypeOK, NEW u \in Threads, NEW o \in Objects,
         handles[u][o] > 0,
         handles' = [handles EXCEPT ![u][o] = handles[u][o] - 1]
  PROVE  /\ Cardinality(GcRoots(o)) \in Nat
         /\ Cardinality(GcRoots(o)') = Cardinality(GcRoots(o)) - 1
         /\ \A x \in Objects \ {o} : GcRoots(x)' = GcRoots(x)
<1>0. /\ MaxHandles \in Nat /\ IsFiniteSet(Threads)
      /\ handles \in [Threads -> [Objects -> 0..MaxHandles]]
  BY HeapAssumption DEF TypeOK
<1>1. \A t \in Threads, x \in Objects :
        /\ handles[t][x] \in 0..MaxHandles
        /\ handles'[t][x] = IF t = u /\ x = o THEN handles[u][o] - 1
                                              ELSE handles[t][x]
  BY <1>0
<1>2. IsFiniteSet(GcRoots(o))
  <2>1. IsFiniteSet(1..MaxHandles)
    BY <1>0, FS_Interval
  <2>2. IsFiniteSet(Threads \X (1..MaxHandles))
    BY <1>0, <2>1, FS_Product
  <2> QED
    BY <2>2, FS_Subset DEF GcRoots
<1> DEFINE n == handles[u][o]
<1>3. n \in 1..MaxHandles
  BY <1>0, <1>1
<1>4. <<u, n>> \in GcRoots(o)
  BY <1>3 DEF GcRoots
<1>5. GcRoots(o)' = GcRoots(o) \ {<<u, n>>}
  <2>1. ASSUME NEW t \in Threads, NEW i \in 1..MaxHandles
        PROVE  i <= handles'[t][o]
                 <=> i <= handles[t][o] /\ ~ (t = u /\ i = n)
    BY <1>0, <1>1
  <2>2. ASSUME NEW r \in Threads \X (1..MaxHandles)
        PROVE  r[2] <= handles'[r[1]][o]
                 <=> r[2] <= handles[r[1]][o] /\ r # <<u, n>>
    BY <2>1
  <2> QED
    BY <1>3, <2>2 DEF GcRoots
<1>6. \A x \in Objects \ {o} : GcRoots(x)' = GcRoots(x)
  BY <1>1 DEF GcRoots
<1> QED
  BY <1>2, <1>4, <1>5, <1>6, FS_RemoveElement, FS_CardinalityType

-----------------------------------------------------------------------------

(***************************************************************************)
(* Steps that touch neither the list, nor an object's data or root count,  *)
(* nor a GcRoot: what they may do to the thread that takes them.           *)
(***************************************************************************)
Frame == UNCHANGED <<head, next, root_count, ref, mem, handles>>

SameWalk(l, m) == /\ m.op = l.op
                  /\ m.current = l.current
                  /\ m.prev = l.prev
                  /\ m.following = l.following
                  /\ m.value = l.value
                  /\ m.freed = l.freed

AllocateGoesOn(p) ==
  /\ Allocates(p)
  /\ SameWalk(local[p], local'[p])
  /\ \/ pc[p] \in AssistLabel /\ pc'[p] \in AssistLabel
     \/ /\ pc[p] \in {"alloc_load", "alloc_cas"}
        /\ pc'[p] \in {"alloc_load", "alloc_cas"}

WalkGoesOn(p) ==
  /\ ~ Allocates(p) /\ ~ Allocates(p)'
  /\ pc'[p] \notin PushLabel \cup {"alloc_box"}
  /\ local'[p].current \in Published \cup {Null}
  /\ local'[p].prev \in Published \cup {Null}
  /\ local'[p].following \in Published \cup {Null}
  /\ local'[p].value \in HandedOut \cup {Null}

QuietMove(p) == Others(p) /\ Frame /\ (AllocateGoesOn(p) \/ WalkGoesOn(p))

(***************************************************************************)
(* Such a step keeps the invariant.                                        *)
(***************************************************************************)
LEMMA QuietMoveKeeps ==
  ASSUME RootInv, TypeOK', NEW p \in Procs, QuietMove(p)
  PROVE  RootInv'
<1> USE DEF QuietMove
<1>0. Threads \subseteq Procs
  BY DEF Procs
<1>1. Published' = Published
  BY DEF Frame, Published
<1>2. \A q \in Procs : /\ Allocates(q)' <=> Allocates(q)
                       /\ Allocates(q) => local'[q].current = local[q].current
  BY DEF Others, Allocates, AllocateGoesOn, WalkGoesOn, SameWalk
<1>3. HandedOut' = HandedOut
  BY <1>0, <1>1, <1>2 DEF HandedOut
<1>4. ASSUME NEW q \in Procs PROVE OwnsItsObject(q)' /\ SeesPublished(q)'
  <2>0. OwnsItsObject(q) /\ SeesPublished(q)
    BY DEF RootInv
  <2>1. CASE q # p
    BY <1>1, <1>3, <2>0, <2>1 DEF Others, Frame, OwnsItsObject,
       SeesPublished, Allocates
  <2>2. CASE q = p /\ AllocateGoesOn(p)
    BY <1>1, <1>3, <2>0, <2>2 DEF AllocateGoesOn, SameWalk, Frame,
       OwnsItsObject, SeesPublished, Allocates, AssistLabel, PushLabel
  <2>3. CASE q = p /\ WalkGoesOn(p)
    BY <1>1, <1>3, <2>3 DEF WalkGoesOn, OwnsItsObject, SeesPublished,
       Allocates
  <2> QED
    BY <2>1, <2>2, <2>3
<1>5. NoObjectTwice'
  BY <1>0, <1>2 DEF RootInv, NoObjectTwice
<1>6. ListIsPublished' /\ CellsAreHandedOut' /\ RootsAreHandedOut'
  BY <1>1, <1>3 DEF RootInv, Frame, ListIsPublished, CellsAreHandedOut,
     RootsAreHandedOut, HeldBy
<1>7. \A t \in Threads : pc'[t] \in PushLabel <=> pc[t] \in PushLabel
  <2> SUFFICES ASSUME NEW t \in Threads
               PROVE  pc'[t] \in PushLabel <=> pc[t] \in PushLabel
    OBVIOUS
  <2>1. CASE t # p
    BY <1>0, <2>1 DEF Others
  <2>2. CASE t = p /\ AllocateGoesOn(p)
    BY <2>2 DEF AllocateGoesOn, PushLabel, AssistLabel
  <2>3. CASE t = p /\ WalkGoesOn(p)
    <3>1. pc[p] \notin PushLabel
      BY <2>3 DEF WalkGoesOn, RootInv, SeesPublished
    <3> QED
      BY <2>3, <3>1 DEF WalkGoesOn
  <2> QED
    BY <2>1, <2>2, <2>3
<1>8. \A t \in Threads : pc[t] \in PushLabel => Allocates(t)
  BY <1>0 DEF RootInv, SeesPublished
<1>9. ASSUME NEW o \in Objects PROVE InAllocate(o)' <=> InAllocate(o)
  BY <1>0, <1>2, <1>7, <1>8 DEF InAllocate, PushLabel
<1>10. RootCountExact'
  BY <1>9 DEF RootInv, RootCountExact, GcRoots, Frame
<1> QED
  BY <1>4, <1>5, <1>6, <1>10 DEF RootInv

(***************************************************************************)
(* A step that does not move the walk, of an allocate call or of another.  *)
(***************************************************************************)
LEMMA StandingIsQuiet ==
  ASSUME RootInv, NEW p \in Procs, Others(p), Frame,
         SameWalk(local[p], local'[p]),
         Allocates(p) => \/ pc[p] \in AssistLabel /\ pc'[p] \in AssistLabel
                         \/ /\ pc[p] \in {"alloc_load", "alloc_cas"}
                            /\ pc'[p] \in {"alloc_load", "alloc_cas"},
         ~ Allocates(p) => pc'[p] \notin PushLabel \cup {"alloc_box"}
  PROVE  QuietMove(p)
<1>1. CASE Allocates(p)
  BY <1>1 DEF QuietMove, AllocateGoesOn
<1>2. CASE ~ Allocates(p)
  BY <1>2 DEF QuietMove, WalkGoesOn, RootInv, SeesPublished, Allocates,
     SameWalk
<1> QED
  BY <1>1, <1>2

(***************************************************************************)
(* Outside these labels a thread is not in an allocate call.               *)
(***************************************************************************)
LEMMA NotAllocating ==
  ASSUME RootInv, NEW p \in Procs, pc[p] \notin AssistLabel \cup PushLabel
  PROVE  ~ Allocates(p)
BY DEF RootInv, OwnsItsObject, PushLabel

(***************************************************************************)
(* A call other than allocate that returns.                                *)
(***************************************************************************)
LEMMA ReturnIsQuiet ==
  ASSUME RootInv, NEW p \in Procs, Others(p), Frame,
         pc[p] \notin AssistLabel \cup PushLabel,
         pc'[p] \notin PushLabel \cup {"alloc_box"},
         local'[p] = NoLocals
  PROVE  QuietMove(p)
BY NotAllocating DEF QuietMove, WalkGoesOn, Allocates, NoLocals

(***************************************************************************)
(* Calls that begin with a copied pointer or with a walk of the list.      *)
(***************************************************************************)
LEMMA MutatorCallIsQuiet ==
  ASSUME RootInv, NEW t \in Threads,
         CellSet(t) \/ CellGet(t) \/ CountLoadHead(t)
  PROVE  QuietMove(t)
<1> DEFINE l == local[t]
<1>0. /\ t \in Procs /\ l \in Locals /\ TypeOK
      /\ Others(t)
  BY LocalType, MutatorCallCounts DEF Procs, BusyStep, MutatorCall, RootInv
<1>1. /\ pc[t] = "ready" /\ pc'[t] \in {"busy_check", "rooting", "count"}
      /\ Frame
  BY <1>0, GotoMoves DEF CellSet, CellGet, CountLoadHead, Frame
<1>2. ~ Allocates(t)
  BY <1>0, <1>1, NotAllocating DEF AssistLabel, PushLabel
<1>3. SeesPublished(t)
  BY <1>0 DEF RootInv
<1>4. HandedOut \subseteq Published
  BY DEF HandedOut
<1>5. CASE CellSet(t)
  <2>1. PICK o \in HeldBy(t), f \in Fields, v \in NewValues(t) :
          SetLocal(t, [l EXCEPT !.op = "set", !.current = o,
                                !.field = f, !.value = v])
    BY <1>5 DEF CellSet
  <2>2. o \in HandedOut
    BY DEF RootInv, RootsAreHandedOut
  <2>3. v \in HandedOut \cup {Null}
    <3>1. InCells(t) \subseteq HandedOut
      BY DEF InCells, Successors, HeldBy, RootInv, CellsAreHandedOut
    <3> QED
      BY <3>1 DEF NewValues, RootInv, RootsAreHandedOut
  <2>4. local'[t] = [l EXCEPT !.op = "set", !.current = o,
                              !.field = f, !.value = v]
    BY <1>0, <2>1, SetLocalMoves
  <2>5. /\ local'[t].op = "set" /\ local'[t].current = o
        /\ local'[t].prev = l.prev /\ local'[t].following = l.following
        /\ local'[t].value = v
    BY <1>0, <2>4 DEF Locals
  <2> QED
    BY <1>0, <1>1, <1>2, <1>3, <1>4, <2>2, <2>3, <2>5
    DEF QuietMove, WalkGoesOn, Allocates, SeesPublished, PushLabel
<1>6. CASE CellGet(t)
  <2>1. PICK o \in HeldBy(t), f \in Fields :
          ref[o][f] # Null /\ SetLocal(t, [l EXCEPT !.value = ref[o][f]])
    BY <1>6 DEF CellGet
  <2>2. ref[o][f] \in HandedOut
    BY <2>1 DEF HeldBy, RootInv, CellsAreHandedOut
  <2>3. local'[t] = [l EXCEPT !.value = ref[o][f]]
    BY <1>0, <2>1, SetLocalMoves
  <2>4. /\ local'[t].op = l.op /\ local'[t].current = l.current
        /\ local'[t].prev = l.prev /\ local'[t].following = l.following
        /\ local'[t].value = ref[o][f]
    BY <1>0, <2>3 DEF Locals
  <2> QED
    BY <1>0, <1>1, <1>2, <1>3, <2>2, <2>4
    DEF QuietMove, WalkGoesOn, Allocates, SeesPublished, PushLabel
<1>7. CASE CountLoadHead(t)
  <2>1. local'[t] = [l EXCEPT !.current = head]
    BY <1>0, <1>7, SetLocalMoves DEF CountLoadHead
  <2>2. /\ local'[t].op = l.op /\ local'[t].current = head
        /\ local'[t].prev = l.prev /\ local'[t].following = l.following
        /\ local'[t].value = l.value
    BY <1>0, <2>1 DEF Locals
  <2> QED
    BY <1>0, <1>1, <1>2, <1>3, <2>2 DEF QuietMove, WalkGoesOn, Allocates,
       SeesPublished, PushLabel, RootInv, ListIsPublished
<1> QED
  BY <1>5, <1>6, <1>7

(***************************************************************************)
(* Steps of a mutator call that write no object but its color.             *)
(***************************************************************************)
LEMMA MutatorStepIsQuiet ==
  ASSUME RootInv, NEW t \in Threads,
         \/ BusyCheck(t) \/ DecrementBusyMarking(t) \/ AllocateRetry(t)
         \/ CellShade(t) \/ CellMergeWork(t) \/ ForgetPointer(t)
         \/ CountNode(t)
  PROVE  QuietMove(t)
<1> DEFINE l == local[t]
<1>0. /\ t \in Procs /\ l \in Locals /\ TypeOK
      /\ Others(t)
  BY LocalType, MutatorStepCounts DEF Procs, BusyStep, MutatorStep, RootInv
<1>1. Frame
  BY DEF BusyCheck, DecrementBusyMarking, AllocateRetry, CellShade,
     CellMergeWork, ForgetPointer, CountNode, Frame
<1>2. OwnsItsObject(t) /\ SeesPublished(t)
  BY <1>0 DEF RootInv
<1>3. CASE BusyCheck(t) \/ DecrementBusyMarking(t) \/ AllocateRetry(t)
  <2>1. SameWalk(l, local'[t])
    BY <1>3 DEF BusyCheck, DecrementBusyMarking, AllocateRetry, SameWalk
  <2>2. CASE BusyCheck(t)
    <3>1. /\ pc[t] = "busy_check" /\ pc'[t] \in {"mark", "shade", "busy_dec"}
          /\ pc'[t] = "shade" => l.op = "set"
      BY <1>0, <2>2 DEF BusyCheck, TypeOK
    <3> QED
      BY <1>0, <1>1, <2>1, <3>1, StandingIsQuiet
      DEF AssistLabel, PushLabel, Allocates
  <2>3. CASE DecrementBusyMarking(t)
    <3>1. /\ pc[t] = "busy_dec"
          /\ pc'[t] = IF Allocates(t) THEN "alloc_box" ELSE "store"
      BY <1>0, <2>3, GotoMoves DEF DecrementBusyMarking, AfterBusy, Allocates
    <3> QED
      BY <1>0, <1>1, <2>1, <3>1, StandingIsQuiet DEF AssistLabel, PushLabel
  <2>4. CASE AllocateRetry(t)
    <3>1. pc[t] = "alloc_cas" /\ pc'[t] = "alloc_load"
      BY <1>0, <2>4, GotoMoves DEF AllocateRetry
    <3>2. Allocates(t)
      BY <1>2, <3>1 DEF SeesPublished, PushLabel
    <3> QED
      BY <1>0, <1>1, <2>1, <3>1, <3>2, StandingIsQuiet
  <2> QED
    BY <1>3, <2>2, <2>3, <2>4
<1>4. CASE CellShade(t) \/ CellMergeWork(t)
  <2>1. /\ pc[t] \in {"shade", "shade_merge"}
        /\ pc'[t] \in {"shade_merge", "busy_dec"}
    BY <1>0, <1>4, GotoMoves DEF CellShade, CellMergeWork
  <2>2. ~ Allocates(t)
    BY <1>0, <2>1, NotAllocating DEF AssistLabel, PushLabel
  <2>3. PICK s : SetLocal(t, [l EXCEPT !.tracer = s])
    BY <1>4 DEF CellShade, CellMergeWork
  <2>4. local'[t] = [l EXCEPT !.tracer = s]
    BY <1>0, <2>3, SetLocalMoves
  <2>5. SameWalk(l, local'[t])
    BY <1>0, <2>4 DEF SameWalk, Locals
  <2> QED
    BY <1>0, <1>1, <2>1, <2>2, <2>5, StandingIsQuiet DEF PushLabel
<1>5. CASE ForgetPointer(t)
  <2>1. /\ pc[t] = "rooting" /\ pc'[t] = "ready" /\ local'[t] = NoLocals
    BY <1>0, <1>5, GotoMoves, SetLocalMoves DEF ForgetPointer
  <2> QED
    BY <1>0, <1>1, <2>1, ReturnIsQuiet DEF AssistLabel, PushLabel
<1>6. CASE CountNode(t)
  <2>1. pc[t] = "count" /\ pc'[t] \in {"count", "ready"}
    BY <1>0, <1>6 DEF CountNode, TypeOK
  <2>2. ~ Allocates(t)
    BY <1>0, <2>1, NotAllocating DEF AssistLabel, PushLabel
  <2>3. CASE l.current = Null
    <3>1. local'[t] = NoLocals
      BY <1>0, <1>6, <2>3, SetLocalMoves DEF CountNode
    <3> QED
      BY <1>0, <1>1, <2>1, <3>1, ReturnIsQuiet DEF AssistLabel, PushLabel
  <2>4. CASE l.current # Null
    <3>1. local'[t] = [l EXCEPT !.current = next[l.current]]
      BY <1>0, <1>6, <2>4, SetLocalMoves DEF CountNode
    <3>2. /\ local'[t].op = l.op /\ local'[t].current = next[l.current]
          /\ local'[t].prev = l.prev /\ local'[t].following = l.following
          /\ local'[t].value = l.value
      BY <1>0, <3>1 DEF Locals
    <3>3. l.current \in Objects
      BY <1>2, <2>2, <2>4 DEF SeesPublished, Published
    <3> QED
      BY <1>0, <1>1, <1>2, <2>1, <2>2, <3>2, <3>3 DEF QuietMove, WalkGoesOn,
         Allocates, SeesPublished, PushLabel, RootInv, ListIsPublished
  <2> QED
    BY <2>3, <2>4
<1> QED
  BY <1>3, <1>4, <1>5, <1>6

(***************************************************************************)
(* The mark loop: it moves its tracer only.                                *)
(***************************************************************************)
LEMMA MarkStepStands ==
  ASSUME TypeOK, NEW p \in Procs, MarkStep(p)
  PROVE  SameWalk(local[p], local'[p])
<1> DEFINE l == local[p]
<1>0. l \in Locals
  BY LocalType
<1>1. ASSUME NEW m, SetLocal(p, m), SameWalk(l, m)
      PROVE  SameWalk(l, local'[p])
  BY <1>1, SetLocalMoves DEF SameWalk
<1>2. CASE MarkPop(p)
  <2>1. \A s, o, f : SameWalk(l, [l EXCEPT !.tracer = s, !.tracing = o,
                                           !.pending = f])
    BY <1>0 DEF SameWalk, Locals
  <2>2. PICK s, o, f : SetLocal(p, [l EXCEPT !.tracer = s, !.tracing = o,
                                             !.pending = f])
    BY <1>2 DEF MarkPop
  <2> QED
    BY <1>1, <2>1, <2>2
<1>3. CASE MarkSteal(p)
  <2>1. \A s : SameWalk(l, [l EXCEPT !.tracer = s])
    BY <1>0 DEF SameWalk, Locals
  <2>2. PICK s : SetLocal(p, [l EXCEPT !.tracer = s])
    BY <1>3 DEF MarkSteal
  <2> QED
    BY <1>1, <2>1, <2>2
<1>4. CASE TraceField(p)
  <2>1. \A s, f : SameWalk(l, [l EXCEPT !.tracer = s, !.pending = f])
    BY <1>0 DEF SameWalk, Locals
  <2>2. PICK s, f : SetLocal(p, [l EXCEPT !.tracer = s, !.pending = f])
    BY <1>4 DEF TraceField
  <2> QED
    BY <1>1, <2>1, <2>2
<1>5. CASE MarkBlack(p)
  <2>1. \A o, n : SameWalk(l, [l EXCEPT !.tracing = o, !.work_done = n])
    BY <1>0 DEF SameWalk, Locals
  <2>2. PICK o, n : SetLocal(p, [l EXCEPT !.tracing = o, !.work_done = n])
    BY <1>5 DEF MarkBlack
  <2> QED
    BY <1>1, <2>1, <2>2
<1>6. CASE MarkNoWork(p)
  <2>1. \A n : SameWalk(l, [l EXCEPT !.work_done = n])
    BY <1>0 DEF SameWalk, Locals
  <2> QED
    BY <1>1, <1>6, <2>1 DEF MarkNoWork
<1>7. CASE MarkBudgetSpent(p)
  <2>1. \A s, n : SameWalk(l, [l EXCEPT !.tracer = s, !.work_done = n])
    BY <1>0 DEF SameWalk, Locals
  <2> QED
    BY <1>1, <1>7, <2>1 DEF MarkBudgetSpent
<1> QED
  BY <1>2, <1>3, <1>4, <1>5, <1>6, <1>7 DEF MarkStep

(***************************************************************************)
(* The steps of the mark loop change no GcRoot, cell or box.               *)
(***************************************************************************)
LEMMA MarkStepIsQuiet ==
  ASSUME RootInv, NEW p \in Procs, MarkStep(p)
  PROVE  QuietMove(p)
<1> DEFINE l == local[p]
<1>0. /\ l \in Locals /\ TypeOK
      /\ Others(p)
  BY LocalType, MarkStepCounts DEF BusyStep, RootInv
<1>1. Frame
  BY DEF MarkStep, MarkPop, MarkSteal, TraceField, MarkBlack, MarkNoWork,
     MarkBudgetSpent, Frame
<1>2. SameWalk(l, local'[p])
  BY <1>0, MarkStepStands
<1>3. /\ pc[p] \in {"mark", "trace"}
      /\ pc'[p] \in {"mark", "trace", AfterMarking(p)}
  BY <1>0, GotoMoves DEF MarkStep, MarkPop, MarkSteal, TraceField, MarkBlack,
     MarkNoWork, MarkBudgetSpent
<1>4. /\ Allocates(p) => AfterMarking(p) = "busy_dec"
      /\ ~ Allocates(p) =>
           AfterMarking(p) \in {"busy_test", "bg_check", "mark"}
  BY DEF AfterMarking, Allocates
<1> QED
  BY <1>0, <1>1, <1>2, <1>3, <1>4, StandingIsQuiet DEF AssistLabel, PushLabel

(***************************************************************************)
(* Root scan, termination test, and all of the sweep but the drop.         *)
(***************************************************************************)
CycleLabel == {"try_mark", "roots_head", "roots", "busy_test", "sweep_start",
               "finish_sweep", "threshold", "finish"} \cup SweepLabel

(***************************************************************************)
(* Nor do those of a collection, but for the drop of a box.                *)
(***************************************************************************)
LEMMA ScanStepIsQuiet ==
  ASSUME RootInv, NEW p \in Procs,
         \/ TryStartMarking(p) \/ RootsLoadHead(p) \/ RootsVisit(p)
         \/ RootsMerge(p) \/ BusyTest(p) \/ StartSweeping(p)
         \/ SweepLoadHead(p) \/ SweepColor(p) \/ SweepRoot(p)
         \/ SweepKeep(p) \/ SweepSubtract(p) \/ FinishSweep(p)
         \/ UpdateThreshold(p) \/ FinishGc(p)
  PROVE  QuietMove(p)
<1> DEFINE l == local[p]
<1>0. /\ l \in Locals /\ TypeOK /\ OwnsItsObject(p) /\ SeesPublished(p)
  BY LocalType DEF RootInv
<1>1. Frame
  BY DEF TryStartMarking, RootsLoadHead, RootsVisit, RootsMerge, BusyTest,
     StartSweeping, SweepLoadHead, SweepColor, SweepRoot, SweepKeep,
     SweepSubtract, FinishSweep, UpdateThreshold, FinishGc, Frame
<1>2. pc[p] \in CycleLabel
  BY DEF TryStartMarking, RootsLoadHead, RootsVisit, RootsMerge, BusyTest,
     StartSweeping, SweepLoadHead, SweepColor, SweepRoot, SweepKeep,
     SweepSubtract, FinishSweep, UpdateThreshold, FinishGc, Goto,
     CycleLabel, SweepLabel
<1>3. pc'[p] \in CycleLabel \cup {"ready", "bg_enter", "bg_check", "mark"}
  <2>1. CASE \/ TryStartMarking(p) \/ RootsLoadHead(p) \/ RootsVisit(p)
             \/ RootsMerge(p) \/ BusyTest(p) \/ StartSweeping(p)
    BY <1>0, <2>1, GotoMoves DEF TryStartMarking, CollectorHome,
       RootsLoadHead, RootsVisit, RootsMerge, BusyTest, StartSweeping,
       CycleLabel, SweepLabel
  <2>2. CASE \/ SweepLoadHead(p) \/ SweepColor(p) \/ SweepRoot(p)
             \/ SweepKeep(p) \/ SweepSubtract(p) \/ FinishSweep(p)
             \/ UpdateThreshold(p) \/ FinishGc(p)
    BY <1>0, <2>2, GotoMoves DEF SweepLoadHead, SweepColor, SweepRoot,
       SweepKeep, SweepSubtract, FinishSweep, UpdateThreshold, FinishGc,
       CollectorHome, CycleLabel, SweepLabel
  <2> QED
    BY <2>1, <2>2
<1>4. ~ Allocates(p)
  BY <1>2, NotAllocating DEF AssistLabel, PushLabel, CycleLabel, SweepLabel
<1>5. pc'[p] \notin PushLabel \cup {"alloc_box"}
  BY <1>3 DEF PushLabel, CycleLabel, SweepLabel
<1>6. Others(p)
  <2>1. MarksAsCollector(p)
    BY <1>4 DEF MarksAsCollector, Allocates
  <2> QED
    BY <1>0, <2>1, ScanStepCounts DEF SweepStep, BusyStep
<1>7. \A o \in Published : next[o] \in Published \cup {Null}
  BY DEF RootInv, ListIsPublished, Published
<1>8. l.current \in Published \cup {Null}
  BY <1>0, <1>4 DEF SeesPublished
<1>9. ASSUME NEW m, local'[p] = m, m.op # "allocate",
             m.current \in Published \cup {Null},
             m.prev \in Published \cup {Null},
             m.following \in Published \cup {Null},
             m.value = l.value
      PROVE  QuietMove(p)
  BY <1>0, <1>1, <1>4, <1>5, <1>6, <1>9
  DEF QuietMove, WalkGoesOn, Allocates, SeesPublished
<1>10. CASE \/ BusyTest(p) \/ StartSweeping(p) \/ SweepRoot(p)
            \/ FinishSweep(p) \/ UpdateThreshold(p)
  <2>1. local' = local
    BY <1>10 DEF BusyTest, StartSweeping, SweepRoot, FinishSweep,
       UpdateThreshold
  <2> QED
    BY <1>0, <1>4, <1>8, <1>9, <2>1 DEF SeesPublished, Allocates
<1>11. CASE TryStartMarking(p)
  <2>1. local' = local \/ local'[p] = [l EXCEPT !.op = "collect"]
    BY <1>0, <1>11, SetLocalMoves DEF TryStartMarking
  <2>2. CASE local' = local
    BY <1>0, <1>4, <1>8, <1>9, <2>2 DEF SeesPublished, Allocates
  <2>3. CASE local'[p] = [l EXCEPT !.op = "collect"]
    <3>1. /\ local'[p].op = "collect" /\ local'[p].current = l.current
          /\ local'[p].prev = l.prev /\ local'[p].following = l.following
          /\ local'[p].value = l.value
      BY <1>0, <2>3 DEF Locals
    <3> QED
      BY <1>0, <1>8, <1>9, <3>1 DEF SeesPublished
  <2> QED
    BY <2>1, <2>2, <2>3
<1>12. CASE RootsLoadHead(p) \/ SweepLoadHead(p)
  <2>1. local'[p] = [l EXCEPT !.current = head]
    BY <1>0, <1>12, SetLocalMoves DEF RootsLoadHead, SweepLoadHead
  <2>2. /\ local'[p].op = l.op /\ local'[p].current = head
        /\ local'[p].prev = l.prev /\ local'[p].following = l.following
        /\ local'[p].value = l.value
    BY <1>0, <2>1 DEF Locals
  <2> QED
    BY <1>0, <1>4, <1>9, <2>2 DEF SeesPublished, Allocates, RootInv,
       ListIsPublished
<1>13. CASE RootsVisit(p)
  <2>1. l.current \in Published
    BY <1>8, <1>13 DEF RootsVisit
  <2>2. PICK s : SetLocal(p, [l EXCEPT !.tracer = s,
                                       !.current = next[l.current]])
    <3>1. CASE is_root(l.current)
      BY <1>13, <3>1 DEF RootsVisit
    <3>2. CASE ~ is_root(l.current)
      <4>1. SetLocal(p, [l EXCEPT !.current = next[l.current]])
        BY <1>13, <3>2 DEF RootsVisit
      <4>2. [l EXCEPT !.current = next[l.current]]
              = [l EXCEPT !.tracer = l.tracer, !.current = next[l.current]]
        BY <1>0 DEF Locals
      <4> QED
        BY <4>1, <4>2
    <3> QED
      BY <3>1, <3>2
  <2>3. local'[p] = [l EXCEPT !.tracer = s, !.current = next[l.current]]
    BY <1>0, <2>2, SetLocalMoves
  <2>4. /\ local'[p].op = l.op /\ local'[p].current = next[l.current]
        /\ local'[p].prev = l.prev /\ local'[p].following = l.following
        /\ local'[p].value = l.value
    BY <1>0, <2>3 DEF Locals
  <2> QED
    BY <1>0, <1>4, <1>7, <1>9, <2>1, <2>4 DEF SeesPublished, Allocates
<1>14. CASE RootsMerge(p)
  <2>1. local'[p] = [l EXCEPT !.tracer = <<>>]
    BY <1>0, <1>14, SetLocalMoves DEF RootsMerge
  <2>2. SameWalk(l, local'[p])
    BY <1>0, <2>1 DEF SameWalk, Locals
  <2> QED
    BY <1>0, <1>4, <1>8, <1>9, <2>2 DEF SeesPublished, Allocates, SameWalk
<1>15. CASE SweepColor(p)
  <2>1. l.current \in Published
    BY <1>8, <1>15 DEF SweepColor
  <2>2. local'[p] = [l EXCEPT !.following = next[l.current]]
    BY <1>0, <1>15, SetLocalMoves DEF SweepColor
  <2>3. /\ local'[p].op = l.op /\ local'[p].current = l.current
        /\ local'[p].prev = l.prev
        /\ local'[p].following = next[l.current]
        /\ local'[p].value = l.value
    BY <1>0, <2>2 DEF Locals
  <2> QED
    BY <1>0, <1>4, <1>7, <1>9, <2>1, <2>3 DEF SeesPublished, Allocates
<1>16. CASE SweepKeep(p)
  <2>1. local'[p] = [l EXCEPT !.prev = l.current, !.current = l.following]
    BY <1>0, <1>16, SetLocalMoves DEF SweepKeep
  <2>2. /\ local'[p].op = l.op /\ local'[p].current = l.following
        /\ local'[p].prev = l.current /\ local'[p].following = l.following
        /\ local'[p].value = l.value
    BY <1>0, <2>1 DEF Locals
  <2> QED
    BY <1>0, <1>4, <1>8, <1>9, <2>2 DEF SeesPublished, Allocates
<1>17. CASE SweepSubtract(p)
  <2>1. PICK n : SetLocal(p, [l EXCEPT !.live = n])
    BY <1>17 DEF SweepSubtract
  <2>2. local'[p] = [l EXCEPT !.live = n]
    BY <1>0, <2>1, SetLocalMoves
  <2>3. SameWalk(l, local'[p])
    BY <1>0, <2>2 DEF SameWalk, Locals
  <2> QED
    BY <1>0, <1>4, <1>8, <1>9, <2>3 DEF SeesPublished, Allocates, SameWalk
<1>18. CASE FinishGc(p)
  <2>1. local'[p] = NoLocals
    BY <1>0, <1>18, SetLocalMoves DEF FinishGc
  <2> QED
    BY <1>1, <1>2, <1>5, <1>6, <2>1, ReturnIsQuiet
    DEF AssistLabel, PushLabel, CycleLabel, SweepLabel
<1> QED
  BY <1>10, <1>11, <1>12, <1>13, <1>14, <1>15, <1>16, <1>17, <1>18

(***************************************************************************)
(* Entering a collection, stop, join, and the loop of a background thread. *)
(***************************************************************************)
LEMMA ControlStepIsQuiet ==
  ASSUME RootInv, NEW p \in Procs,
         \/ ForceCollect(p) \/ StopBackgroundCollection(p)
         \/ JoinBackgroundThread(p) \/ BackgroundStep(p)
  PROVE  QuietMove(p)
<1> DEFINE l == local[p]
<1>0. l \in Locals /\ TypeOK
  BY LocalType DEF RootInv
<1>1. Frame
  BY DEF ForceCollect, StopBackgroundCollection, JoinBackgroundThread,
     BackgroundStep, BackgroundWait, BackgroundNotified, BackgroundTimeout,
     BackgroundCheck, BackgroundAbort, Frame
<1>2. /\ pc[p] \in {"ready", "join", "bg_enter", "bg_sleep", "bg_check",
                    "bg_abort"}
      /\ pc'[p] \in {"try_mark", "join", "ready", "bg_enter", "bg_sleep",
                     "bg_done", "bg_abort", "mark"}
  BY <1>0, GotoMoves DEF ForceCollect, StopBackgroundCollection,
     JoinBackgroundThread, BackgroundStep, BackgroundWait,
     BackgroundNotified, BackgroundTimeout, BackgroundCheck, BackgroundAbort
<1>3. ~ Allocates(p)
  BY <1>2, NotAllocating DEF AssistLabel, PushLabel
<1>4. Others(p)
  <2>1. MarksAsCollector(p)
    BY <1>3 DEF MarksAsCollector, Allocates
  <2> QED
    BY <1>0, <2>1, ControlStepCounts DEF BusyStep
<1>5. \/ local' = local \/ SetLocal(p, NoLocals)
      \/ \E n : SetLocal(p, [l EXCEPT !.joining = n])
  BY DEF ForceCollect, StopBackgroundCollection, JoinBackgroundThread,
     BackgroundStep, BackgroundWait, BackgroundNotified, BackgroundTimeout,
     BackgroundCheck, BackgroundAbort
<1>6. local'[p] = NoLocals \/ SameWalk(l, local'[p])
  <2>1. CASE local' = local
    BY <2>1 DEF SameWalk
  <2>2. CASE SetLocal(p, NoLocals)
    BY <1>0, <2>2, SetLocalMoves
  <2>3. ASSUME NEW n, SetLocal(p, [l EXCEPT !.joining = n])
        PROVE  SameWalk(l, local'[p])
    <3>1. local'[p] = [l EXCEPT !.joining = n]
      BY <1>0, <2>3, SetLocalMoves
    <3> QED
      BY <1>0, <3>1 DEF SameWalk, Locals
  <2> QED
    BY <1>5, <2>1, <2>2, <2>3
<1> QED
  BY <1>1, <1>2, <1>3, <1>4, <1>6, ReturnIsQuiet, StandingIsQuiet
  DEF AssistLabel, PushLabel

-----------------------------------------------------------------------------

(***************************************************************************)
(* The other threads, when p moves: what they own and see stays.           *)
(***************************************************************************)
LEMMA OthersKeep ==
  ASSUME RootInv, NEW p \in Procs, Others(p),
         Published \subseteq Published', HandedOut \subseteq HandedOut',
         \A x \in Objects : \/ mem'[x] = mem[x]
                            \/ mem[x] = "unborn"
                            \/ x \in Published
                            \/ Allocates(p) /\ x = local[p].current
  PROVE  \A q \in Procs \ {p} : OwnsItsObject(q)' /\ SeesPublished(q)'
<1> SUFFICES ASSUME NEW q \in Procs \ {p}
             PROVE  OwnsItsObject(q)' /\ SeesPublished(q)'
  OBVIOUS
<1>0. pc'[q] = pc[q] /\ local'[q] = local[q]
  BY DEF Others
<1>1. OwnsItsObject(q) /\ SeesPublished(q) /\ OwnsItsObject(p)
  BY DEF RootInv
<1>2. SeesPublished(q)'
  BY <1>0, <1>1 DEF SeesPublished, Allocates
<1>3. OwnsItsObject(q)'
  <2> SUFFICES ASSUME Allocates(q) PROVE OwnsItsObject(q)'
    BY <1>0 DEF OwnsItsObject, Allocates
  <2> DEFINE x == local[q].current
  <2>1. x \in Objects /\ mem[x] # "unborn"
    BY <1>1 DEF OwnsItsObject, Published
  <2>2. ~ (Allocates(p) /\ x = local[p].current)
    BY <1>1 DEF OwnsItsObject, RootInv, NoObjectTwice
  <2>3. CASE mem'[x] = mem[x]
    BY <1>0, <1>1, <2>3 DEF OwnsItsObject, Allocates, Published
  <2>4. CASE x \in Published
    <3>1. pc[q] = "alloc_add"
      BY <1>1, <2>4 DEF OwnsItsObject, Published
    <3> QED
      BY <1>0, <1>1, <2>4, <3>1 DEF OwnsItsObject, Allocates
  <2> QED
    BY <2>1, <2>2, <2>3, <2>4
<1> QED
  BY <1>2, <1>3

(***************************************************************************)
(* Which objects an allocate is about to return depends on pc and current  *)
(* of the threads that push.                                               *)
(***************************************************************************)
LEMMA SameInAllocate ==
  ASSUME \A t \in Threads :
           /\ pc'[t] \in PushLabel <=> pc[t] \in PushLabel
           /\ pc[t] \in PushLabel => local'[t].current = local[t].current
  PROVE  \A o \in Objects : InAllocate(o)' <=> InAllocate(o)
BY DEF InAllocate, PushLabel

(***************************************************************************)
(* Steps that leave GcRoots and counts alone.                              *)
(***************************************************************************)
LEMMA CountsUntouched ==
  ASSUME RootInv, UNCHANGED <<root_count, handles>>,
         \A o \in Objects :
           /\ InAllocate(o)' <=> InAllocate(o)
           /\ mem'[o] \in {"boxed", "live"} => mem[o] \in {"boxed", "live"}
  PROVE  RootCountExact'
BY DEF RootInv, RootCountExact, GcRoots

(***************************************************************************)
(* allocate takes an object nobody knows of.                               *)
(***************************************************************************)
LEMMA AllocateKeepsRoots ==
  ASSUME RootInv, TypeOK', NEW t \in Threads, Allocate(t)
  PROVE  RootInv'
<1> DEFINE l == local[t]
<1>0. /\ t \in Procs /\ Threads \subseteq Procs /\ l \in Locals /\ TypeOK
      /\ Others(t)
  BY LocalType, MutatorCallCounts DEF Procs, BusyStep, MutatorCall, RootInv
<1>1. PICK o \in Objects :
        /\ mem[o] = "unborn"
        /\ mem' = [mem EXCEPT ![o] = "reserved"]
        /\ SetLocal(t, [l EXCEPT !.op = "allocate", !.current = o])
  BY DEF Allocate
<1>2. local'[t] = [l EXCEPT !.op = "allocate", !.current = o]
  BY <1>0, <1>1, SetLocalMoves
<1>3. /\ local'[t].op = "allocate" /\ local'[t].current = o
      /\ local'[t].prev = l.prev /\ local'[t].following = l.following
      /\ local'[t].value = l.value
  BY <1>0, <1>2 DEF Locals
<1>4. /\ pc[t] = "ready" /\ pc'[t] \in {"busy_check", "alloc_box"}
      /\ UNCHANGED <<head, next, root_count, ref, handles>>
  BY <1>0, GotoMoves DEF Allocate
<1>5. ~ Allocates(t)
  BY <1>0, <1>4, NotAllocating DEF AssistLabel, PushLabel
<1>6. /\ \A x \in Objects \ {o} : mem'[x] = mem[x]
      /\ mem'[o] = "reserved"
  BY <1>0, <1>1 DEF TypeOK
<1>7. Published' = Published /\ o \notin Published
  BY <1>1, <1>6 DEF Published
<1>8. \A u \in Threads \ {t} : local'[u] = local[u] /\ pc'[u] = pc[u]
  BY <1>0 DEF Others
<1>9. HandedOut' = HandedOut
  BY <1>3, <1>5, <1>7, <1>8 DEF HandedOut, Allocates
<1>10. \A p \in Procs \ {t} : OwnsItsObject(p)' /\ SeesPublished(p)'
  BY <1>0, <1>1, <1>6, <1>7, <1>9, OthersKeep
<1>11. OwnsItsObject(t)' /\ SeesPublished(t)'
  <2>1. SeesPublished(t)
    BY <1>0 DEF RootInv
  <2> QED
    BY <1>3, <1>4, <1>6, <1>7, <1>9, <2>1 DEF OwnsItsObject, SeesPublished,
       Allocates, AssistLabel
<1>12. NoObjectTwice'
  <2>1. \A u \in Threads : Allocates(u) => local[u].current # o
    BY <1>0, <1>1, <1>7 DEF RootInv, OwnsItsObject
  <2> QED
    BY <1>3, <1>8, <2>1 DEF NoObjectTwice, RootInv, Allocates
<1>13. ListIsPublished' /\ CellsAreHandedOut' /\ RootsAreHandedOut'
  BY <1>4, <1>7, <1>9 DEF RootInv, ListIsPublished, CellsAreHandedOut,
     RootsAreHandedOut, HeldBy
<1>14. RootCountExact'
  <2>1. \A x \in Objects : InAllocate(x)' <=> InAllocate(x)
    BY <1>4, <1>8, SameInAllocate DEF PushLabel
  <2> QED
    BY <1>4, <1>6, <2>1, CountsUntouched
<1> QED
  BY <1>10, <1>11, <1>12, <1>13, <1>14 DEF RootInv

(***************************************************************************)
(* A new box has one root, the one allocate is going to return.            *)
(***************************************************************************)
LEMMA AllocateBoxKeepsRoots ==
  ASSUME RootInv, TypeOK', NEW t \in Threads, AllocateBox(t)
  PROVE  RootInv'
<1> DEFINE o == local[t].current
<1>0. /\ t \in Procs /\ Threads \subseteq Procs /\ TypeOK
      /\ Others(t)
  BY MutatorStepCounts DEF Procs, BusyStep, MutatorStep, RootInv
<1>1. /\ pc[t] = "alloc_box" /\ pc'[t] = "alloc_load"
      /\ UNCHANGED <<head, next, handles, local>>
      /\ mem' = [mem EXCEPT ![o] = "boxed"]
      /\ root_count' = [root_count EXCEPT ![o] = 1]
  BY <1>0, GotoMoves DEF AllocateBox
<1>2. PICK d \in InitialData(t, o) : ref' = [ref EXCEPT ![o] = d]
  BY DEF AllocateBox
<1>3. /\ Allocates(t) /\ o \in Objects /\ mem[o] = "reserved"
  BY <1>0, <1>1 DEF RootInv, SeesPublished, OwnsItsObject, PushLabel
<1>4. /\ \A x \in Objects \ {o} : mem'[x] = mem[x] /\ root_count'[x] = root_count[x]
      /\ mem'[o] = "boxed" /\ root_count'[o] = 1
  BY <1>0, <1>1, <1>3 DEF TypeOK
<1>5. Published' = Published /\ o \notin Published
  BY <1>3, <1>4 DEF Published
<1>6. HandedOut' = HandedOut
  BY <1>1, <1>5 DEF HandedOut, Allocates
<1>7. \A p \in Procs \ {t} : OwnsItsObject(p)' /\ SeesPublished(p)'
  BY <1>0, <1>3, <1>4, <1>5, <1>6, OthersKeep
<1>8. OwnsItsObject(t)' /\ SeesPublished(t)'
  <2>1. OwnsItsObject(t) /\ SeesPublished(t)
    BY <1>0 DEF RootInv
  <2> QED
    BY <1>1, <1>3, <1>4, <1>5, <1>6, <2>1 DEF OwnsItsObject, SeesPublished,
       Allocates, PushLabel
<1>9. NoObjectTwice' /\ ListIsPublished' /\ RootsAreHandedOut'
  BY <1>1, <1>5, <1>6 DEF RootInv, NoObjectTwice, Allocates,
     ListIsPublished, RootsAreHandedOut, HeldBy
<1>10. CellsAreHandedOut'
  <2>1. \A f \in Fields : d[f] \in HandedOut \cup {Null}
    BY DEF InitialData, RootInv, RootsAreHandedOut
  <2>2. \A x \in Objects : ref'[x] = IF x = o THEN d ELSE ref[x]
    BY <1>0, <1>2 DEF TypeOK
  <2> QED
    BY <1>6, <2>1, <2>2 DEF RootInv, CellsAreHandedOut
<1>11. RootCountExact'
  <2> SUFFICES ASSUME NEW x \in Objects, mem'[x] \in {"boxed", "live"}
               PROVE  root_count'[x] = Cardinality(GcRoots(x)')
                                       + (IF InAllocate(x)' THEN 1 ELSE 0)
    BY DEF RootCountExact
  <2>1. CASE x # o
    <3>1. InAllocate(x)' <=> InAllocate(x)
      <4>1. \A u \in Threads \ {t} : pc'[u] = pc[u]
        BY <1>0 DEF Others
      <4> QED
        BY <1>1, <2>1, <4>1 DEF InAllocate
    <3> QED
      BY <1>1, <1>4, <2>1, <3>1 DEF RootInv, RootCountExact, GcRoots
  <2>2. CASE x = o
    <3>1. InAllocate(o)'
      BY <1>1 DEF InAllocate
    <3>2. GcRoots(o)' = {}
      <4>1. o \notin HandedOut
        BY <1>3 DEF HandedOut
      <4>2. \A u \in Threads : ~ (handles[u][o] > 0)
        BY <1>3, <4>1 DEF RootInv, RootsAreHandedOut, HeldBy
      <4>3. \A u \in Threads : handles[u][o] \in 0..MaxHandles
        BY <1>0, <1>3 DEF TypeOK
      <4>4. MaxHandles \in Nat
        BY HeapAssumption
      <4>5. ASSUME NEW u \in Threads, NEW i \in 1..MaxHandles
            PROVE  ~ (i <= handles[u][o])
        <5> HIDE DEF o
        <5> QED
          BY <4>2, <4>3, <4>4
      <4> QED
        BY <1>1, <4>5 DEF GcRoots
    <3>3. Cardinality(GcRoots(o)') = 0
      BY <3>2, FS_EmptySet
    <3>4. o' = o
      BY <1>1
    <3> HIDE DEF o
    <3> QED
      BY <1>4, <2>2, <3>1, <3>3, <3>4
  <2> QED
    BY <2>1, <2>2
<1> QED
  BY <1>7, <1>8, <1>9, <1>10, <1>11 DEF RootInv

(***************************************************************************)
(* The push: the box gets its next and then becomes the head.              *)
(***************************************************************************)
LEMMA AllocatePushKeepsRoots ==
  ASSUME RootInv, TypeOK', NEW t \in Threads,
         AllocateLoadHead(t) \/ AllocatePublish(t)
  PROVE  RootInv'
<1> DEFINE o == local[t].current
<1>0. /\ t \in Procs /\ Threads \subseteq Procs /\ TypeOK
      /\ Others(t)
  BY MutatorStepCounts DEF Procs, BusyStep, MutatorStep, RootInv
<1>1. /\ pc[t] \in {"alloc_load", "alloc_cas"}
      /\ UNCHANGED <<root_count, ref, handles, local>>
  BY <1>0, GotoMoves DEF AllocateLoadHead, AllocatePublish
<1>2. Allocates(t) /\ o \in Objects /\ mem[o] = "boxed"
  BY <1>0, <1>1 DEF RootInv, SeesPublished, OwnsItsObject, PushLabel,
     AssistLabel
<1>3. \/ /\ pc[t] = "alloc_load" /\ pc'[t] = "alloc_cas"
         /\ next' = [next EXCEPT ![o] = head] /\ UNCHANGED <<head, mem>>
      \/ /\ pc[t] = "alloc_cas" /\ pc'[t] = "alloc_add"
         /\ head' = o /\ next' = next
         /\ mem' = [mem EXCEPT ![o] = "live"]
  BY <1>0, GotoMoves DEF AllocateLoadHead, AllocatePublish
<1>4. /\ \A x \in Objects \ {o} : mem'[x] = mem[x]
      /\ mem'[o] \in {"boxed", "live"}
      /\ pc'[t] = "alloc_cas" => mem'[o] = "boxed"
      /\ pc'[t] = "alloc_add" => mem'[o] = "live"
  BY <1>0, <1>2, <1>3 DEF TypeOK
<1>5. Published \subseteq Published'
  BY <1>2, <1>4 DEF Published
<1>6. HandedOut' = HandedOut
  <2>1. o \notin HandedOut /\ o \notin HandedOut'
    BY <1>1, <1>2 DEF HandedOut, Allocates
  <2>2. \A x \in Objects \ {o} : x \in Published' <=> x \in Published
    BY <1>4 DEF Published
  <2> QED
    BY <1>1, <2>1, <2>2 DEF HandedOut, Allocates, Published
<1>7. \A p \in Procs \ {t} : OwnsItsObject(p)' /\ SeesPublished(p)'
  BY <1>0, <1>2, <1>4, <1>5, <1>6, OthersKeep
<1>8. OwnsItsObject(t)' /\ SeesPublished(t)'
  <2>1. SeesPublished(t)
    BY <1>0 DEF RootInv
  <2>2. Allocates(t)'
    BY <1>1, <1>2 DEF Allocates
  <2>3. OwnsItsObject(t)'
    BY <1>1, <1>2, <1>3, <1>4 DEF OwnsItsObject, Published
  <2> QED
    BY <1>1, <1>5, <1>6, <2>1, <2>2, <2>3 DEF SeesPublished
<1>9. NoObjectTwice' /\ RootsAreHandedOut' /\ CellsAreHandedOut'
  BY <1>1, <1>6 DEF RootInv, NoObjectTwice, Allocates, CellsAreHandedOut,
     RootsAreHandedOut, HeldBy
<1>10. ListIsPublished'
  <2>1. pc'[t] = "alloc_add" => o \in Published'
    BY <1>2, <1>4 DEF Published
  <2> QED
    BY <1>0, <1>2, <1>3, <1>5, <2>1 DEF RootInv, ListIsPublished, TypeOK
<1>11. RootCountExact'
  <2>1. \A u \in Threads \ {t} : pc'[u] = pc[u]
    BY <1>0 DEF Others
  <2>2. \A x \in Objects : InAllocate(x)' <=> InAllocate(x)
    BY <1>1, <1>3, <2>1, SameInAllocate DEF PushLabel
  <2> QED
    BY <1>1, <1>2, <1>4, <2>2, CountsUntouched
<1> QED
  BY <1>7, <1>8, <1>9, <1>10, <1>11 DEF RootInv

(***************************************************************************)
(* allocate returns: its claim to a root becomes a GcRoot.                 *)
(***************************************************************************)
LEMMA AllocateReturnKeepsRoots ==
  ASSUME RootInv, TypeOK', NEW t \in Threads, AllocateReturn(t)
  PROVE  RootInv'
<1>0. /\ t \in Procs /\ Threads \subseteq Procs /\ TypeOK
      /\ Others(t)
  BY MutatorStepCounts DEF Procs, BusyStep, MutatorStep, RootInv
<1>1. /\ pc[t] = "alloc_add" /\ pc'[t] = "ready" /\ local'[t] = NoLocals
      /\ UNCHANGED <<head, next, root_count, ref, mem>>
      /\ handles' = [handles EXCEPT ![t][local[t].current] = 1]
  BY <1>0, GotoMoves, SetLocalMoves DEF AllocateReturn
<1>2. PICK o \in Published : Allocates(t) /\ o = local[t].current
  BY <1>0, <1>1 DEF RootInv, SeesPublished, OwnsItsObject, PushLabel,
     AssistLabel
<1>3. o \in Objects
  BY DEF Published
<1>4. \A u \in Threads : handles[u][o] = 0
  <2>1. \A u \in Threads : handles[u][o] \in Nat
    BY <1>0, <1>3, HeapAssumption DEF TypeOK
  <2>2. \A u \in Threads : ~ (handles[u][o] > 0)
    BY <1>2, <1>3 DEF RootInv, RootsAreHandedOut, HeldBy, HandedOut
  <2> QED
    BY <2>1, <2>2
<1>5. \A u \in Threads \ {t} : local'[u] = local[u] /\ pc'[u] = pc[u]
  BY <1>0 DEF Others
<1>6. ~ Allocates(t)'
  BY <1>1 DEF Allocates, NoLocals
<1>7. Published' = Published
  BY <1>1 DEF Published
<1>8. HandedOut' = HandedOut \cup {o}
  <2>1. \A u \in Threads \ {t} : Allocates(u) => local[u].current # o
    BY <1>2 DEF RootInv, NoObjectTwice
  <2> QED
    BY <1>2, <1>5, <1>6, <1>7, <2>1 DEF HandedOut, Allocates
<1>9. \A p \in Procs \ {t} : OwnsItsObject(p)' /\ SeesPublished(p)'
  BY <1>0, <1>1, <1>7, <1>8, OthersKeep
<1>10. OwnsItsObject(t)' /\ SeesPublished(t)'
  BY <1>1, <1>6 DEF OwnsItsObject, SeesPublished, PushLabel, NoLocals
<1>11. NoObjectTwice' /\ ListIsPublished' /\ CellsAreHandedOut'
  BY <1>1, <1>5, <1>6, <1>7, <1>8 DEF RootInv, NoObjectTwice, Allocates,
     ListIsPublished, CellsAreHandedOut
<1>12. \A u \in Threads, x \in Objects :
         handles'[u][x] = IF u = t /\ x = o THEN 1 ELSE handles[u][x]
  BY <1>0, <1>1, <1>2 DEF TypeOK
<1>13. RootsAreHandedOut'
  BY <1>8, <1>12 DEF RootInv, RootsAreHandedOut, HeldBy
<1>14. RootCountExact'
  <2> SUFFICES ASSUME NEW x \in Objects, mem'[x] \in {"boxed", "live"}
               PROVE  root_count'[x] = Cardinality(GcRoots(x)')
                                       + (IF InAllocate(x)' THEN 1 ELSE 0)
    BY DEF RootCountExact
  <2>0. /\ root_count[x] = Cardinality(GcRoots(x))
                           + (IF InAllocate(x) THEN 1 ELSE 0)
        /\ root_count'[x] = root_count[x]
    BY <1>1 DEF RootInv, RootCountExact
  <2>1. /\ Cardinality(GcRoots(o)) \in Nat
        /\ Cardinality(GcRoots(o)') = Cardinality(GcRoots(o)) + 1
        /\ \A y \in Objects \ {o} : GcRoots(y)' = GcRoots(y)
    <3>1. handles[t][o] = 0
      BY <1>4
    <3>2. handles[t][o] + 1 = 1
      BY <3>1
    <3>3. handles[t][o] < MaxHandles
      BY <3>1, HeapAssumption
    <3>4. handles' = [handles EXCEPT ![t][o] = 1]
      BY <1>1, <1>2
    <3>5. handles' = [handles EXCEPT ![t][o] = handles[t][o] + 1]
      BY <3>2, <3>4, Zenon
    <3> QED
      BY <1>0, <1>3, <3>3, <3>5, OneRootMore
  <2>2. CASE x # o
    <3>1. InAllocate(x)' <=> InAllocate(x)
      BY <1>1, <1>2, <1>5, <2>2 DEF InAllocate
    <3> QED
      BY <2>0, <2>1, <2>2, <3>1
  <2>3. CASE x = o
    <3>1. InAllocate(o)
      BY <1>1, <1>2 DEF InAllocate
    <3>2. ~ InAllocate(o)'
      <4>1. \A u \in Threads \ {t} : pc[u] \in PushLabel => Allocates(u)
        BY <1>0 DEF RootInv, SeesPublished
      <4>2. \A u \in Threads \ {t} :
              pc[u] \in PushLabel => local[u].current # o
        BY <1>2, <4>1 DEF RootInv, NoObjectTwice
      <4> QED
        BY <1>1, <1>5, <4>2 DEF InAllocate, PushLabel
    <3> QED
      BY <2>0, <2>1, <2>3, <3>1, <3>2
  <2> QED
    BY <2>2, <2>3
<1> QED
  BY <1>9, <1>10, <1>11, <1>13, <1>14 DEF RootInv

(***************************************************************************)
(* clone, drop and root count what they do.                                *)
(***************************************************************************)
LEMMA HandleStepKeepsRoots ==
  ASSUME RootInv, TypeOK', NEW t \in Threads,
         CloneRoot(t) \/ DropRoot(t) \/ RootPointer(t)
  PROVE  RootInv'
<1>0. /\ t \in Procs /\ Threads \subseteq Procs /\ TypeOK
      /\ Others(t)
  BY MutatorCallCounts, MutatorStepCounts
  DEF Procs, BusyStep, MutatorCall, MutatorStep, RootInv
<1>1. /\ pc[t] \in {"ready", "rooting"} /\ pc'[t] = "ready"
      /\ local'[t] \in {local[t], NoLocals}
      /\ UNCHANGED <<head, next, ref, mem>>
  BY <1>0, GotoMoves, SetLocalMoves DEF CloneRoot, DropRoot, RootPointer
<1>2. ~ Allocates(t) /\ ~ Allocates(t)'
  <2>1. ~ Allocates(t)
    BY <1>0, <1>1, NotAllocating DEF AssistLabel, PushLabel
  <2> QED
    BY <1>1, <2>1 DEF Allocates, NoLocals
<1>3. \A u \in Threads \ {t} : local'[u] = local[u] /\ pc'[u] = pc[u]
  BY <1>0 DEF Others
<1>4. Published' = Published
  BY <1>1 DEF Published
<1>5. HandedOut' = HandedOut
  BY <1>2, <1>3, <1>4 DEF HandedOut, Allocates
<1>6. \A p \in Procs \ {t} : OwnsItsObject(p)' /\ SeesPublished(p)'
  BY <1>0, <1>1, <1>4, <1>5, OthersKeep
<1>7. OwnsItsObject(t)' /\ SeesPublished(t)'
  <2>1. SeesPublished(t)
    BY <1>0 DEF RootInv
  <2>2. CASE local'[t] = local[t]
    BY <1>1, <1>2, <1>4, <1>5, <2>1, <2>2
    DEF OwnsItsObject, SeesPublished, PushLabel
  <2>3. CASE local'[t] = NoLocals
    BY <1>1, <1>2, <2>3 DEF OwnsItsObject, SeesPublished, PushLabel, NoLocals
  <2> QED
    BY <1>1, <2>2, <2>3
<1>8. NoObjectTwice' /\ ListIsPublished' /\ CellsAreHandedOut'
  BY <1>1, <1>2, <1>3, <1>4, <1>5 DEF RootInv, NoObjectTwice, Allocates,
     ListIsPublished, CellsAreHandedOut
<1>9. \A x \in Objects : InAllocate(x)' <=> InAllocate(x)
  BY <1>1, <1>3, SameInAllocate DEF PushLabel
<1>10. ASSUME NEW u \in Threads, NEW o \in HandedOut,
              handles[u][o] < MaxHandles,
              handles' = [handles EXCEPT ![u][o] = handles[u][o] + 1],
              root_count' = [root_count EXCEPT ![o] = root_count[o] + 1]
       PROVE  RootsAreHandedOut' /\ RootCountExact'
  <2>0. o \in Objects
    BY DEF HandedOut, Published
  <2>1. \A v \in Threads, x \in Objects \ {o} : handles'[v][x] = handles[v][x]
    BY <1>0, <1>10 DEF TypeOK
  <2>2. RootsAreHandedOut'
    BY <1>5, <2>1 DEF RootInv, RootsAreHandedOut, HeldBy
  <2>3. /\ Cardinality(GcRoots(o)) \in Nat
        /\ Cardinality(GcRoots(o)') = Cardinality(GcRoots(o)) + 1
        /\ \A x \in Objects \ {o} : GcRoots(x)' = GcRoots(x)
    BY <1>0, <1>10, <2>0, OneRootMore
  <2>4. /\ root_count[o] \in Int /\ root_count'[o] = root_count[o] + 1
        /\ \A x \in Objects \ {o} : root_count'[x] = root_count[x]
    BY <1>0, <1>10, <2>0 DEF TypeOK
  <2>5. RootCountExact'
    BY <1>1, <1>9, <2>0, <2>3, <2>4 DEF RootInv, RootCountExact
  <2> QED
    BY <2>2, <2>5
<1>11. CASE CloneRoot(t)
  <2>1. PICK o \in HeldBy(t), u \in Threads :
          /\ handles[u][o] < MaxHandles
          /\ handles' = [handles EXCEPT ![u][o] = @ + 1]
          /\ root_count' = [root_count EXCEPT ![o] = @ + 1]
    BY <1>11 DEF CloneRoot
  <2>2. o \in HandedOut
    BY DEF RootInv, RootsAreHandedOut
  <2> QED
    BY <1>6, <1>7, <1>8, <1>10, <2>1, <2>2 DEF RootInv
<1>12. CASE RootPointer(t)
  <2> DEFINE o == local[t].value
  <2>1. /\ handles[t][o] < MaxHandles
        /\ handles' = [handles EXCEPT ![t][o] = @ + 1]
        /\ root_count' = [root_count EXCEPT ![o] = @ + 1]
        /\ o \in Objects
    BY <1>12 DEF RootPointer, Reachable
  <2>2. o \in HandedOut
    BY <1>0, <2>1, HeapAssumption DEF RootInv, SeesPublished
  <2> QED
    BY <1>6, <1>7, <1>8, <1>10, <2>1, <2>2 DEF RootInv
<1>13. CASE DropRoot(t)
  <2>1. PICK o \in HeldBy(t) :
          /\ handles' = [handles EXCEPT ![t][o] = @ - 1]
          /\ root_count' = [root_count EXCEPT ![o] = @ - 1]
    BY <1>13 DEF DropRoot
  <2>2. o \in Objects /\ o \in HandedOut /\ handles[t][o] > 0
    BY DEF HeldBy, RootInv, RootsAreHandedOut
  <2>3. \A v \in Threads, x \in Objects \ {o} : handles'[v][x] = handles[v][x]
    BY <1>0, <2>1 DEF TypeOK
  <2>4. RootsAreHandedOut'
    BY <1>5, <2>2, <2>3 DEF RootInv, RootsAreHandedOut, HeldBy
  <2>5. /\ Cardinality(GcRoots(o)) \in Nat
        /\ Cardinality(GcRoots(o)') = Cardinality(GcRoots(o)) - 1
        /\ \A x \in Objects \ {o} : GcRoots(x)' = GcRoots(x)
    BY <1>0, <2>1, <2>2, OneRootLess
  <2>6. /\ root_count[o] \in Int /\ root_count'[o] = root_count[o] - 1
        /\ \A x \in Objects \ {o} : root_count'[x] = root_count[x]
    BY <1>0, <2>1, <2>2 DEF TypeOK
  <2>7. RootCountExact'
    BY <1>1, <1>9, <2>2, <2>5, <2>6 DEF RootInv, RootCountExact
  <2> QED
    BY <1>6, <1>7, <1>8, <2>4, <2>7 DEF RootInv
<1> QED
  BY <1>11, <1>12, <1>13

(***************************************************************************)
(* A store copies a pointer that was handed out.                           *)
(***************************************************************************)
LEMMA CellStoreKeepsRoots ==
  ASSUME RootInv, TypeOK', NEW t \in Threads, CellStore(t)
  PROVE  RootInv'
<1> DEFINE l == local[t]
<1>0. /\ t \in Procs /\ Threads \subseteq Procs /\ TypeOK
      /\ Others(t)
  BY MutatorStepCounts DEF Procs, BusyStep, MutatorStep, RootInv
<1>1. /\ pc[t] = "store" /\ pc'[t] = "ready" /\ local'[t] = NoLocals
      /\ UNCHANGED <<head, next, root_count, mem, handles>>
      /\ ref' = [ref EXCEPT ![l.current][l.field] = l.value]
  BY <1>0, GotoMoves, SetLocalMoves DEF CellStore
<1>2. ~ Allocates(t) /\ ~ Allocates(t)'
  <2>1. ~ Allocates(t)
    BY <1>0, <1>1, NotAllocating DEF AssistLabel, PushLabel
  <2> QED
    BY <1>1, <2>1 DEF Allocates, NoLocals
<1>3. \A u \in Threads \ {t} : local'[u] = local[u] /\ pc'[u] = pc[u]
  BY <1>0 DEF Others
<1>4. Published' = Published
  BY <1>1 DEF Published
<1>5. HandedOut' = HandedOut
  BY <1>2, <1>3, <1>4 DEF HandedOut, Allocates
<1>6. \A p \in Procs \ {t} : OwnsItsObject(p)' /\ SeesPublished(p)'
  BY <1>0, <1>1, <1>4, <1>5, OthersKeep
<1>7. OwnsItsObject(t)' /\ SeesPublished(t)'
  BY <1>1, <1>2 DEF OwnsItsObject, SeesPublished, PushLabel, NoLocals
<1>8. NoObjectTwice' /\ ListIsPublished' /\ RootsAreHandedOut'
  BY <1>1, <1>2, <1>3, <1>4, <1>5 DEF RootInv, NoObjectTwice, Allocates,
     ListIsPublished, RootsAreHandedOut, HeldBy
<1>9. CellsAreHandedOut'
  <2>1. l.value \in HandedOut \cup {Null}
    BY <1>0 DEF RootInv, SeesPublished
  <2>2. \A x \in Objects, f \in Fields : ref'[x][f] \in {ref[x][f], l.value}
    BY <1>0, <1>1 DEF TypeOK
  <2> QED
    BY <1>5, <2>1, <2>2 DEF RootInv, CellsAreHandedOut
<1>10. RootCountExact'
  <2>1. \A x \in Objects : InAllocate(x)' <=> InAllocate(x)
    BY <1>1, <1>3, SameInAllocate DEF PushLabel
  <2> QED
    BY <1>1, <2>1, CountsUntouched
<1> QED
  BY <1>6, <1>7, <1>8, <1>9, <1>10 DEF RootInv

(***************************************************************************)
(* The sweep drops a published box; what others are allocating is not in   *)
(* its way.                                                                *)
(***************************************************************************)
LEMMA SweepFreeKeepsRoots ==
  ASSUME RootInv, TypeOK', NEW p \in Procs, SweepFree(p)
  PROVE  RootInv'
<1> DEFINE l == local[p]
<1>0. Threads \subseteq Procs /\ TypeOK /\ l \in Locals /\ SeesPublished(p)
  BY LocalType DEF Procs, RootInv
<1>1. /\ pc[p] = "sweep_free" /\ pc'[p] = "sweep"
      /\ UNCHANGED <<root_count, ref, handles>>
      /\ mem' = [mem EXCEPT ![l.current] = "freed"]
      /\ Unlink(l.prev, l.following)
  BY <1>0, GotoMoves DEF SweepFree
<1>2. ~ Allocates(p)
  BY <1>1, NotAllocating DEF AssistLabel, PushLabel
<1>3. Others(p)
  <2>1. MarksAsCollector(p)
    BY <1>2 DEF MarksAsCollector, Allocates
  <2> QED
    BY <1>0, <2>1, ScanStepCounts DEF SweepStep, BusyStep
<1>4. PICK n : SetLocal(p, [l EXCEPT !.freed = n, !.current = l.following])
  BY DEF SweepFree
<1>5. local'[p] = [l EXCEPT !.freed = n, !.current = l.following]
  BY <1>0, <1>4, SetLocalMoves
<1>6. /\ local'[p].op = l.op /\ local'[p].current = l.following
      /\ local'[p].prev = l.prev /\ local'[p].following = l.following
      /\ local'[p].value = l.value
  BY <1>0, <1>5 DEF Locals
<1>7. l.current \in Published \cup {Null}
  BY <1>0, <1>2 DEF SeesPublished
<1>8. \A x \in Objects : \/ mem'[x] = mem[x]
                         \/ x \in Published /\ mem'[x] = "freed"
  BY <1>0, <1>1, <1>7, HeapAssumption DEF TypeOK
<1>9. Published' = Published
  BY <1>8 DEF Published
<1>10. \A u \in Procs \ {p} : local'[u] = local[u] /\ pc'[u] = pc[u]
  BY <1>3 DEF Others
<1>11. ~ Allocates(p)'
  BY <1>2, <1>6 DEF Allocates
<1>12. HandedOut' = HandedOut
  BY <1>0, <1>2, <1>9, <1>10, <1>11 DEF HandedOut, Allocates
<1>13. \A q \in Procs \ {p} : OwnsItsObject(q)' /\ SeesPublished(q)'
  BY <1>3, <1>8, <1>9, <1>12, OthersKeep
<1>14. OwnsItsObject(p)' /\ SeesPublished(p)'
  BY <1>0, <1>1, <1>6, <1>9, <1>11, <1>12
  DEF OwnsItsObject, SeesPublished, PushLabel
<1>15. NoObjectTwice' /\ CellsAreHandedOut' /\ RootsAreHandedOut'
  BY <1>0, <1>1, <1>10, <1>11, <1>12 DEF RootInv, NoObjectTwice, Allocates,
     CellsAreHandedOut, RootsAreHandedOut, HeldBy
<1>16. ListIsPublished'
  <2>1. /\ head' \in {head, l.following}
        /\ \A x \in Objects : next'[x] \in {next[x], l.following}
    BY <1>0, <1>1 DEF Unlink, TypeOK
  <2> QED
    BY <1>0, <1>9, <2>1 DEF RootInv, ListIsPublished, SeesPublished
<1>17. RootCountExact'
  <2>1. \A x \in Objects : InAllocate(x)' <=> InAllocate(x)
    BY <1>0, <1>1, <1>10, SameInAllocate DEF PushLabel
  <2> QED
    BY <1>1, <1>8, <2>1, CountsUntouched
<1> QED
  BY <1>13, <1>14, <1>15, <1>16, <1>17 DEF RootInv

(***************************************************************************)
(* Starting a thread concerns no object.                                   *)
(***************************************************************************)
LEMMA StartKeepsRoots ==
  ASSUME RootInv, TypeOK', NEW t \in Threads, StartBackgroundCollection(t)
  PROVE  RootInv'
<1> DEFINE c == bg_thread.counter + 1
<1>1. /\ c \in Background /\ c \in Procs /\ c \notin Threads
      /\ pc' = [pc EXCEPT ![c] = "bg_enter"]
      /\ UNCHANGED <<head, next, root_count, ref, mem, handles, local>>
  BY HeapAssumption DEF StartBackgroundCollection, Procs
<1>2. pc'[c] = "bg_enter" /\ \A q \in Procs \ {c} : pc'[q] = pc[q]
  BY <1>1 DEF RootInv, TypeOK
<1>3. Published' = Published /\ HandedOut' = HandedOut
  BY <1>1 DEF Published, HandedOut, Allocates
<1>4. ASSUME NEW q \in Procs PROVE OwnsItsObject(q)' /\ SeesPublished(q)'
  <2>1. OwnsItsObject(q) /\ SeesPublished(q)
    BY DEF RootInv
  <2>2. CASE q # c
    BY <1>1, <1>2, <1>3, <2>1, <2>2
    DEF OwnsItsObject, SeesPublished, Allocates
  <2>3. CASE q = c
    <3>1. ~ Allocates(c)
      BY <1>1, <2>1, <2>3 DEF OwnsItsObject
    <3> QED
      BY <1>1, <1>2, <1>3, <2>1, <2>3, <3>1
      DEF OwnsItsObject, SeesPublished, Allocates, PushLabel
  <2> QED
    BY <2>2, <2>3
<1>5. /\ NoObjectTwice' /\ ListIsPublished' /\ CellsAreHandedOut'
      /\ RootsAreHandedOut'
  BY <1>1, <1>3 DEF RootInv, NoObjectTwice, Allocates, ListIsPublished,
     CellsAreHandedOut, RootsAreHandedOut, HeldBy
<1>6. RootCountExact'
  <2>1. \A u \in Threads : pc'[u] = pc[u]
    BY <1>1, <1>2 DEF Procs
  <2>2. \A x \in Objects : InAllocate(x)' <=> InAllocate(x)
    BY <1>1, <2>1 DEF InAllocate
  <2> QED
    BY <1>1, <2>2, CountsUntouched
<1> QED
  BY <1>4, <1>5, <1>6 DEF RootInv

(***************************************************************************)
(* A heap as the program has built it.                                     *)
(***************************************************************************)
LEMMA InitRootInv == Init => RootInv
<1> SUFFICES ASSUME Init PROVE RootInv
  OBVIOUS
<1>0. TypeOK
  BY InitTypeOK
<1>1. /\ \A p \in Procs : /\ local[p] = NoLocals
                          /\ pc[p] \in {"ready", "bg_enter", "unborn"}
      /\ Threads \subseteq Procs
  BY DEF Init, Procs
<1>2. \A p \in Procs : ~ Allocates(p)
  BY <1>1 DEF Allocates, NoLocals
<1>3. BuiltObjects \subseteq Objects
  BY HeapAssumption, ElementOfSeq DEF BuiltObjects
<1>4. Published = BuiltObjects
  BY <1>3 DEF Init, Published
<1>5. HandedOut = BuiltObjects
  BY <1>1, <1>2, <1>4 DEF HandedOut
<1>6. \A p \in Procs : OwnsItsObject(p) /\ SeesPublished(p)
  BY <1>1, <1>2 DEF OwnsItsObject, SeesPublished, PushLabel, NoLocals
<1>7. NoObjectTwice
  BY <1>1, <1>2 DEF NoObjectTwice
<1>8. ListIsPublished
  <2>1. Len(Built) \in Nat
    BY HeapAssumption, LenProperties
  <2>2. head \in BuiltObjects \cup {Null}
    <3>1. CASE Built = <<>>
      BY <3>1 DEF Init
    <3>2. CASE Built # <<>>
      <4>1. 1 \in 1..Len(Built)
        BY <3>2, <2>1, HeapAssumption, EmptySeq
      <4> QED
        BY <3>2, <4>1 DEF Init, BuiltObjects
    <3> QED
      BY <3>1, <3>2
  <2>3. ASSUME NEW o \in Objects PROVE next[o] \in BuiltObjects \cup {Null}
    <3>1. CASE \E i \in 1..(Len(Built) - 1) : Built[i] = o
      <4>1. PICK i \in 1..(Len(Built) - 1) : next[o] = Built[i + 1]
        BY <3>1 DEF Init
      <4>2. i + 1 \in 1..Len(Built)
        BY <2>1
      <4> QED
        BY <4>1, <4>2 DEF BuiltObjects
    <3>2. CASE ~ \E i \in 1..(Len(Built) - 1) : Built[i] = o
      BY <3>2 DEF Init
    <3> QED
      BY <3>1, <3>2
  <2> QED
    BY <1>4, <2>2, <2>3 DEF ListIsPublished
<1>9. CellsAreHandedOut
  BY <1>5 DEF Init, CellsAreHandedOut
<1>10. RootsAreHandedOut
  BY <1>5, HeapAssumption DEF Init, RootsAreHandedOut, HeldBy
<1>11. RootCountExact
  <2> SUFFICES ASSUME NEW o \in Objects
               PROVE  root_count[o] = Cardinality(GcRoots(o))
                                      + (IF InAllocate(o) THEN 1 ELSE 0)
    BY DEF RootCountExact
  <2> DEFINE S == {t \in Threads : o \in Owned[t]}
  <2>1. ~ InAllocate(o)
    BY <1>1 DEF InAllocate
  <2>2. IsFiniteSet(S) /\ Cardinality(S) \in Nat
    BY HeapAssumption, FS_Subset, FS_CardinalityType
  <2>3. GcRoots(o) = S \X {1}
    <3>1. \A t \in Threads : handles[t][o] = IF o \in Owned[t] THEN 1 ELSE 0
      BY DEF Init
    <3>2. ASSUME NEW t \in Threads, NEW i \in 1..MaxHandles
          PROVE  i <= handles[t][o] <=> t \in S /\ i = 1
      BY <3>1, HeapAssumption
    <3>3. 1 \in 1..MaxHandles
      BY HeapAssumption
    <3> QED
      BY <3>2, <3>3 DEF GcRoots
  <2>4. IsFiniteSet({1}) /\ Cardinality({1}) = 1
    BY FS_Singleton
  <2>5. Cardinality(S \X {1}) = Cardinality(S) * 1
    BY <2>2, <2>4, FS_Product
  <2>6. root_count[o] = Cardinality(S)
    BY DEF Init
  <2> QED
    BY <2>1, <2>2, <2>3, <2>5, <2>6
<1> QED
  BY <1>0, <1>6, <1>7, <1>8, <1>9, <1>10, <1>11 DEF RootInv

(***************************************************************************)
(* Every step keeps the inductive invariant.                               *)
(***************************************************************************)
LEMMA NextRootInv == RootInv /\ [Next]_vars => RootInv'
<1> SUFFICES ASSUME RootInv, [Next]_vars PROVE RootInv'
  OBVIOUS
<1>0. TypeOK /\ TypeOK'
  BY NextTypeOK DEF RootInv
<1>1. ASSUME NEW p \in Procs, CycleStep(p) PROVE RootInv'
  <2>1. CASE MarkStep(p)
    BY <1>0, <2>1, MarkStepIsQuiet, QuietMoveKeeps
  <2>2. CASE SweepFree(p)
    BY <1>0, <2>2, SweepFreeKeepsRoots
  <2>3. CASE ~ MarkStep(p) /\ ~ SweepFree(p)
    BY <1>0, <1>1, <2>3, ScanStepIsQuiet, QuietMoveKeeps
    DEF CycleStep, SweepStep
  <2> QED
    BY <2>1, <2>2, <2>3
<1>2. ASSUME NEW t \in Threads,
             MutatorCall(t) \/ CollectorCall(t) \/ ThreadStep(t)
      PROVE  RootInv'
  <2>1. t \in Procs
    BY DEF Procs
  <2>2. CASE MutatorCall(t)
    BY <1>0, <2>1, <2>2, MutatorCallIsQuiet, QuietMoveKeeps,
       AllocateKeepsRoots, HandleStepKeepsRoots DEF MutatorCall
  <2>3. CASE MutatorStep(t)
    BY <1>0, <2>1, <2>3, MutatorStepIsQuiet, QuietMoveKeeps,
       AllocateBoxKeepsRoots, AllocatePushKeepsRoots,
       AllocateReturnKeepsRoots, HandleStepKeepsRoots, CellStoreKeepsRoots
    DEF MutatorStep
  <2>4. CASE StartBackgroundCollection(t)
    BY <1>0, <2>4, StartKeepsRoots
  <2>5. CASE \/ ForceCollect(t) \/ StopBackgroundCollection(t)
             \/ JoinBackgroundThread(t)
    BY <1>0, <2>1, <2>5, ControlStepIsQuiet, QuietMoveKeeps
  <2> QED
    BY <1>1, <1>2, <2>1, <2>2, <2>3, <2>4, <2>5 DEF CollectorCall, ThreadStep
<1>3. ASSUME NEW b \in Background, BackgroundThread(b) PROVE RootInv'
  <2>1. b \in Procs
    BY DEF Procs
  <2> QED
    BY <1>0, <1>1, <1>3, <2>1, ControlStepIsQuiet, QuietMoveKeeps
    DEF BackgroundThread
<1>4. CASE UNCHANGED vars
  BY <1>0, <1>4 DEF vars, RootInv, OwnsItsObject, SeesPublished,
     NoObjectTwice, ListIsPublished, CellsAreHandedOut, RootsAreHandedOut,
     RootCountExact, Published, HandedOut, Allocates, HeldBy, GcRoots,
     InAllocate
<1> QED
  BY <1>2, <1>3, <1>4 DEF Next

(***************************************************************************)
(* The root count of a box is the number of its GcRoots, for any number of *)
(* threads that clone, drop, root and allocate at the same time, whatever  *)
(* collectors do: GcRoot::clone, drop and GcPtr::root raise and lower it   *)
(* in step, a new box is born with the root allocate returns, and so a box *)
(* that anybody has a GcRoot of is a root to do_mark_roots and to          *)
(* GcHeader::is_white.                                                     *)
(***************************************************************************)
THEOREM RootCountsCorrect == Spec => []RootCountExact
<1>1. RootInv => RootCountExact
  BY DEF RootInv
<1> QED
  BY <1>1, InitRootInv, NextRootInv, PTL DEF Spec

-----------------------------------------------------------------------------

(***************************************************************************)
(* A program in which one thread collects: the background thread of a heap *)
(* that starts one and calls collect nowhere, or the one application       *)
(* thread that calls collect on a heap without.                            *)
(***************************************************************************)
SoleCollector(c) ==
  /\ Background \subseteq {c}
  /\ \A t \in Threads \ {c} : Calls[t] \cap {"force_collect", "collect"} = {}

WalkLabel == {"sweep", "sweep_root", "sweep_keep", "sweep_free"}

SweptLabel == {"finish_sweep", "threshold", "finish"}

(***************************************************************************)
(* Where a thread that does not collect never is.                          *)
(***************************************************************************)
CollectingLabel ==
  {"try_mark", "roots_head", "roots", "busy_test", "unborn", "bg_enter",
   "bg_sleep", "bg_check", "bg_abort", "bg_done", "sweep_start"}
    \cup SweepLabel \cup SweptLabel

OnlyMutates(p) ==
  /\ pc[p] \notin CollectingLabel
  /\ pc[p] \in {"mark", "trace"} => Allocates(p)

(***************************************************************************)
(* The collector sweeps in the phase it has announced.                     *)
(***************************************************************************)
SweepsInPhase(c) ==
  pc[c] \in SweepLabel \cup {"finish_sweep"} => phase = "Sweeping"

(***************************************************************************)
(* The steps of a thread that does not collect.                            *)
(***************************************************************************)
MutatorMove(t) == \/ MutatorCall(t) \/ MutatorStep(t) \/ MarkStep(t)
                  \/ StopBackgroundCollection(t) \/ JoinBackgroundThread(t)

(***************************************************************************)
(* A thread that only mutates takes those steps, or starts the collector,  *)
(* and leaves the phase alone.                                             *)
(***************************************************************************)
LEMMA MutatorsOnlyMutate ==
  ASSUME NEW c, SoleCollector(c), NEW t \in Threads \ {c}, TypeOK,
         OnlyMutates(t), MutatorCall(t) \/ CollectorCall(t) \/ ThreadStep(t)
  PROVE  MutatorMove(t) \/ StartBackgroundCollection(t)
<1>1. ~ ForceCollect(t)
  BY DEF ForceCollect, SoleCollector
<1>2. CycleStep(t) => MarkStep(t)
  BY DEF OnlyMutates, CollectingLabel, SweepLabel, SweptLabel, CycleStep, SweepStep,
     TryStartMarking, RootsLoadHead, RootsVisit, RootsMerge, BusyTest,
     StartSweeping, SweepLoadHead, SweepColor, SweepRoot, SweepKeep,
     SweepFree, SweepSubtract, FinishSweep, UpdateThreshold, FinishGc, Goto
<1> QED
  BY <1>1, <1>2 DEF MutatorMove, CollectorCall, ThreadStep

(***************************************************************************)
(* A thread that makes no collecting call stays out of the collector's     *)
(* code and never changes the phase.                                       *)
(***************************************************************************)
LEMMA MutatorMoveMutates ==
  ASSUME NEW c, SoleCollector(c), NEW t \in Threads \ {c}, RootInv,
         OnlyMutates(t), MutatorMove(t)
  PROVE  OnlyMutates(t)' /\ phase' = phase
<1> DEFINE l == local[t]
<1>0. t \in Procs /\ TypeOK /\ t \notin Background /\ l \in Locals
  BY LocalType DEF Procs, SoleCollector, RootInv
<1> USE DEF CollectingLabel, SweepLabel, SweptLabel
<1>1. CASE MutatorCall(t)
  <2>1. pc'[t] \in {"ready", "busy_check", "alloc_box", "rooting", "count"}
    BY <1>0, <1>1, GotoMoves
    DEF MutatorCall, Allocate, CloneRoot, DropRoot, CellSet, CellGet,
        CountLoadHead
  <2>2. phase' = phase
    BY <1>1 DEF MutatorCall, Allocate, CloneRoot, DropRoot, CellSet, CellGet,
       CountLoadHead
  <2> QED
    BY <2>1, <2>2 DEF OnlyMutates
<1>2. CASE MutatorStep(t)
  <2>1. CASE BusyCheck(t)
    <3>1. /\ pc'[t] \in {"mark", "shade", "busy_dec"}
          /\ pc'[t] = "mark" => Allocates(t)
          /\ local' = local /\ phase' = phase
      BY <1>0, <2>1 DEF BusyCheck, Allocates, TypeOK
    <3> QED
      BY <3>1 DEF OnlyMutates, Allocates
  <2>2. CASE ~ BusyCheck(t)
    <3>1. pc'[t] \in PushLabel \cup {"alloc_box", "store", "shade_merge",
                                    "busy_dec", "ready", "count"}
      BY <1>0, <1>2, <2>2, GotoMoves
      DEF MutatorStep, DecrementBusyMarking, AfterBusy, AllocateBox,
          AllocateLoadHead, AllocatePublish, AllocateRetry, AllocateReturn,
          CellShade, CellMergeWork, CellStore, RootPointer, ForgetPointer,
          CountNode, PushLabel, TypeOK
    <3>2. phase' = phase
      BY <1>2 DEF MutatorStep, BusyCheck, DecrementBusyMarking, AllocateBox,
         AllocateLoadHead, AllocatePublish, AllocateRetry, AllocateReturn,
         CellShade, CellMergeWork, CellStore, RootPointer, ForgetPointer,
         CountNode
    <3> QED
      BY <3>1, <3>2 DEF OnlyMutates, PushLabel
  <2> QED
    BY <2>1, <2>2
<1>3. CASE MarkStep(t)
  <2>1. phase' = phase
    BY <1>3 DEF MarkStep, MarkPop, MarkSteal, TraceField, MarkBlack,
       MarkNoWork, MarkBudgetSpent
  <2>2. pc[t] \in {"mark", "trace"}
    BY <1>3 DEF MarkStep, MarkPop, MarkSteal, TraceField, MarkBlack,
       MarkNoWork, MarkBudgetSpent, Goto
  <2>3. Allocates(t)
    BY <2>2 DEF OnlyMutates
  <2>4. Allocates(t)'
    BY <1>0, <1>3, <2>3, MarkStepIsQuiet
    DEF QuietMove, AllocateGoesOn, WalkGoesOn, SameWalk, Allocates
  <2>5. pc'[t] \in AssistLabel
    BY <1>0, <1>3, <2>2, <2>3, MarkStepIsQuiet
    DEF QuietMove, AllocateGoesOn, WalkGoesOn
  <2> QED
    BY <2>1, <2>4, <2>5 DEF OnlyMutates, AssistLabel
<1>4. CASE StopBackgroundCollection(t) \/ JoinBackgroundThread(t)
  BY <1>0, <1>4, GotoMoves
  DEF StopBackgroundCollection, JoinBackgroundThread, OnlyMutates
<1> QED
  BY <1>1, <1>2, <1>3, <1>4 DEF MutatorMove

-----------------------------------------------------------------------------

(***************************************************************************)
(* InList is the least set that holds the head and every next of its own.  *)
(***************************************************************************)
ListClosed(S) == /\ head \in S \cup {Null}
                 /\ \A n \in S : next[n] \in S \cup {Null}

(***************************************************************************)
(* The list is the least set that holds the head and what follows each of  *)
(* its nodes.                                                              *)
(***************************************************************************)
LEMMA InListIsLeast ==
  ASSUME TypeOK
  PROVE  /\ InList \subseteq Objects
         /\ ListClosed(InList)
         /\ \A S \in SUBSET Objects : ListClosed(S) => InList \subseteq S
<1>1. head \in Objects \cup {Null} /\ next \in [Objects -> Objects \cup {Null}]
  BY DEF TypeOK, Pointer
<1>2. InList \subseteq Objects
  BY DEF InList
<1>3. \A S \in SUBSET Objects : ListClosed(S) => InList \subseteq S
  BY DEF InList, ListClosed
<1>4. head \in InList \cup {Null}
  BY <1>1 DEF InList
<1>5. ASSUME NEW n \in InList PROVE next[n] \in InList \cup {Null}
  <2>1. n \in Objects /\ next[n] \in Objects \cup {Null}
    BY <1>1, <1>2
  <2> SUFFICES ASSUME next[n] # Null, NEW S \in SUBSET Objects, ListClosed(S)
               PROVE  next[n] \in S
    BY <2>1 DEF InList, ListClosed
  <2>2. n \in S
    BY <1>3
  <2> QED
    BY <2>2 DEF ListClosed
<1> QED
  BY <1>2, <1>3, <1>4, <1>5 DEF ListClosed

(***************************************************************************)
(* The same list in the next state.                                        *)
(***************************************************************************)
LEMMA InListIsLeastNext ==
  ASSUME TypeOK'
  PROVE  /\ InList' \subseteq Objects
         /\ ListClosed(InList)'
         /\ \A S \in SUBSET Objects : ListClosed(S)' => InList' \subseteq S
<1>1. /\ head' \in Objects \cup {Null}
      /\ next' \in [Objects -> Objects \cup {Null}]
  BY DEF TypeOK, Pointer
<1>2. InList' \subseteq Objects
  BY DEF InList
<1>3. \A S \in SUBSET Objects : ListClosed(S)' => InList' \subseteq S
  BY DEF InList, ListClosed
<1>4. head' \in InList' \cup {Null}
  BY <1>1 DEF InList
<1>5. ASSUME NEW n \in InList' PROVE next'[n] \in InList' \cup {Null}
  <2>1. n \in Objects /\ next'[n] \in Objects \cup {Null}
    BY <1>1, <1>2
  <2> SUFFICES ASSUME next'[n] # Null, NEW S \in SUBSET Objects,
                      ListClosed(S)'
               PROVE  next'[n] \in S
    BY <2>1 DEF InList, ListClosed
  <2>2. n \in S
    BY <1>3
  <2> QED
    BY <2>2 DEF ListClosed
<1> QED
  BY <1>2, <1>3, <1>4, <1>5 DEF ListClosed

(***************************************************************************)
(* No node of the list is met twice: nobody has two predecessors, and the  *)
(* head has none.                                                          *)
(***************************************************************************)
NoNodeTwice ==
  /\ \A m, n \in InList : next[m] = next[n] /\ next[m] # Null => m = n
  /\ \A n \in InList : next[n] = head => head = Null

(***************************************************************************)
(* In a list that reaches no node twice, no node is its own successor.     *)
(***************************************************************************)
LEMMA NoNodeLeadsToItself ==
  ASSUME TypeOK, NoNodeTwice, NEW n \in InList
  PROVE  next[n] # n
<1> SUFFICES ASSUME next[n] = n PROVE FALSE
  OBVIOUS
<1>0. /\ InList \in SUBSET Objects /\ ListClosed(InList)
      /\ n # Null /\ n \in Objects
  BY InListIsLeast, HeapAssumption
<1> DEFINE S == InList \ {n}
<1>1. head # n
  BY <1>0 DEF NoNodeTwice
<1>2. \A m \in S : next[m] # n
  BY <1>0 DEF NoNodeTwice
<1>3. ListClosed(S)
  BY <1>0, <1>1, <1>2 DEF ListClosed
<1> QED
  BY <1>0, <1>3, InListIsLeast

(***************************************************************************)
(* Steps that leave the head and the nodes of the list alone: a thread     *)
(* that sets the next of a box of its own among them.                      *)
(***************************************************************************)
LEMMA ListUntouched ==
  ASSUME TypeOK, TypeOK', head' = head,
         \A n \in InList : next'[n] = next[n]
  PROVE  InList' = InList
<1>1. /\ InList \in SUBSET Objects /\ ListClosed(InList)
      /\ \A S \in SUBSET Objects : ListClosed(S) => InList \subseteq S
  BY InListIsLeast
<1>2. /\ InList' \in SUBSET Objects /\ ListClosed(InList)'
      /\ \A S \in SUBSET Objects : ListClosed(S)' => InList' \subseteq S
  BY InListIsLeastNext
<1>3. InList' \subseteq InList
  <2> DEFINE S == InList
  <2>1. head' \in S \cup {Null} /\ \A n \in S : next'[n] \in S \cup {Null}
    BY <1>1 DEF ListClosed
  <2> QED
    BY <1>1, <2>1, Zenon DEF InList
<1>4. InList \subseteq InList'
  <2>1. \A n \in InList' : next[n] = next'[n]
    BY <1>3
  <2>2. ListClosed(InList')
    BY <1>2, <2>1 DEF ListClosed
  <2> QED
    BY <1>1, <1>2, <2>2
<1> QED
  BY <1>3, <1>4

(***************************************************************************)
(* A push adds the box.                                                    *)
(***************************************************************************)
LEMMA PushExtendsList ==
  ASSUME TypeOK, TypeOK', NEW o \in Objects, head = next[o],
         head' = o, next' = next
  PROVE  InList' = InList \cup {o}
<1>1. /\ InList \in SUBSET Objects /\ ListClosed(InList)
      /\ \A S \in SUBSET Objects : ListClosed(S) => InList \subseteq S
  BY InListIsLeast
<1>2. /\ InList' \in SUBSET Objects /\ ListClosed(InList)'
      /\ \A S \in SUBSET Objects : ListClosed(S)' => InList' \subseteq S
  BY InListIsLeastNext
<1>0. o # Null
  BY HeapAssumption
<1>3. InList' \subseteq InList \cup {o}
  <2> DEFINE S == InList \cup {o}
  <2>0. S \in SUBSET Objects
    BY <1>1
  <2>1. head' \in S \cup {Null} /\ \A n \in S : next'[n] \in S \cup {Null}
    BY <1>1 DEF ListClosed
  <2> HIDE DEF S
  <2>2. InList' \subseteq S
    BY <2>0, <2>1 DEF InList
  <2> QED
    BY <2>2 DEF S
<1>4. o \in InList'
  BY <1>0, <1>2 DEF ListClosed
<1>5. ListClosed(InList')
  BY <1>2, <1>4 DEF ListClosed
<1> QED
  BY <1>1, <1>2, <1>3, <1>4, <1>5

(***************************************************************************)
(* Unlinking a node behind another takes out that node and no other.       *)
(***************************************************************************)
LEMMA UnlinkBehind ==
  ASSUME TypeOK, TypeOK', NoNodeTwice,
         NEW o \in InList, NEW q \in InList, next[q] = o,
         next' = [next EXCEPT ![q] = next[o]], head' = head
  PROVE  InList' = InList \ {o} /\ NoNodeTwice'
<1>0. /\ InList \in SUBSET Objects /\ ListClosed(InList)
      /\ \A S \in SUBSET Objects : ListClosed(S) => InList \subseteq S
  BY InListIsLeast
<1>1. /\ InList' \in SUBSET Objects /\ ListClosed(InList)'
  BY InListIsLeastNext
<1>2. o # Null /\ o \in Objects /\ q \in Objects
  BY <1>0, HeapAssumption
<1>3. next[o] # o /\ q # o
  BY NoNodeLeadsToItself
<1>4. next'[q] = next[o] /\ \A n \in Objects \ {q} : next'[n] = next[n]
  BY <1>2 DEF TypeOK
<1>5. InList' \subseteq InList \ {o}
  <2> DEFINE S == InList \ {o}
  <2>0. S \in SUBSET Objects
    BY <1>0
  <2>1. head' \in S \cup {Null}
    BY <1>0, <1>2 DEF ListClosed, NoNodeTwice
  <2>2. ASSUME NEW n \in S PROVE next'[n] \in S \cup {Null}
    <3>1. CASE n = q
      BY <1>0, <1>3, <1>4, <3>1 DEF ListClosed
    <3>2. CASE n # q
      <4>1. next[n] # o
        BY <1>2, <3>2 DEF NoNodeTwice
      <4>2. next'[n] = next[n]
        BY <1>0, <1>4, <3>2
      <4> QED
        BY <1>0, <4>1, <4>2 DEF ListClosed
    <3> QED
      BY <3>1, <3>2
  <2> HIDE DEF S
  <2>3. InList' \subseteq S
    BY <2>0, <2>1, <2>2 DEF InList
  <2> QED
    BY <2>3 DEF S
<1>6. InList \ {o} \subseteq InList'
  <2>1. q \in InList'
    <3> SUFFICES ASSUME q \notin InList' PROVE FALSE
      OBVIOUS
    <3>1. ListClosed(InList')
      BY <1>1, <1>4 DEF ListClosed
    <3> QED
      BY <1>0, <1>1, <3>1
  <2>2. ListClosed(InList' \cup {o})
    <3>1. head \in InList' \cup {Null}
      BY <1>1 DEF ListClosed
    <3>2. next[o] \in InList' \cup {Null}
      BY <1>1, <1>4, <2>1 DEF ListClosed
    <3>3. ASSUME NEW n \in InList' PROVE next[n] \in InList' \cup {o, Null}
      BY <1>1, <1>4 DEF ListClosed
    <3> QED
      BY <3>1, <3>2, <3>3 DEF ListClosed
  <2>3. InList' \cup {o} \in SUBSET Objects
    BY <1>1, <1>2
  <2> QED
    BY <1>0, <2>2, <2>3
<1>7. NoNodeTwice'
  <2>1. ASSUME NEW m \in InList', NEW n \in InList',
               next'[m] = next'[n], next'[m] # Null
        PROVE  m = n
    <3>1. /\ m \in InList /\ n \in InList /\ m # o /\ n # o
          /\ m \in Objects /\ n \in Objects
      BY <1>0, <1>5
    <3>2. CASE m # q /\ n # q
      BY <1>4, <2>1, <3>1, <3>2 DEF NoNodeTwice
    <3>3. CASE m = q /\ n # q
      BY <1>4, <2>1, <3>1, <3>3 DEF NoNodeTwice
    <3>4. CASE m # q /\ n = q
      BY <1>4, <2>1, <3>1, <3>4 DEF NoNodeTwice
    <3> QED
      BY <3>2, <3>3, <3>4
  <2>2. ASSUME NEW n \in InList', next'[n] = head' PROVE head' = Null
    <3>1. n \in InList /\ n \in Objects
      BY <1>0, <1>5
    <3> QED
      BY <1>4, <2>2, <3>1 DEF NoNodeTwice
  <2> QED
    BY <2>1, <2>2 DEF NoNodeTwice
<1> QED
  BY <1>5, <1>6, <1>7

(***************************************************************************)
(* Unlinking a node with a store to the head takes out that node and what  *)
(* has been pushed in front of it since the walk began: nothing, if it is  *)
(* still the head.                                                         *)
(***************************************************************************)
LEMMA UnlinkAtHead ==
  ASSUME TypeOK, TypeOK', NoNodeTwice, NEW o \in InList,
         head' = next[o], next' = next
  PROVE  /\ InList' \subseteq InList \ {o}
         /\ o = head => InList' = InList \ {o}
         /\ NoNodeTwice'
<1>0. /\ InList \in SUBSET Objects /\ ListClosed(InList)
      /\ \A S \in SUBSET Objects : ListClosed(S) => InList \subseteq S
  BY InListIsLeast
<1>1. /\ InList' \in SUBSET Objects /\ ListClosed(InList)'
      /\ \A S \in SUBSET Objects : ListClosed(S)' => InList' \subseteq S
  BY InListIsLeastNext
<1>2. o # Null /\ o \in Objects
  BY <1>0, HeapAssumption
<1>3. InList' \subseteq InList
  <2> DEFINE S == InList
  <2>1. head' \in S \cup {Null} /\ \A n \in S : next'[n] \in S \cup {Null}
    BY <1>0 DEF ListClosed
  <2> QED
    BY <1>0, <2>1, Zenon DEF InList
<1>4. o \notin InList'
  <2> SUFFICES ASSUME o \in InList' PROVE FALSE
    OBVIOUS
  <2>1. ASSUME NEW x \in InList' PROVE \E m \in InList' : next[m] = x
    <3> SUFFICES ASSUME \A m \in InList' : next[m] # x PROVE FALSE
      OBVIOUS
    <3> DEFINE S == InList' \ {x}
    <3>0. S \in SUBSET Objects
      BY <1>1
    <3>1. head' \in S \cup {Null}
      BY <1>1 DEF ListClosed
    <3>2. \A n \in S : next'[n] \in S \cup {Null}
      BY <1>1 DEF ListClosed
    <3> HIDE DEF S
    <3>3. InList' \subseteq S
      BY <3>0, <3>1, <3>2 DEF InList
    <3> QED
      BY <3>3 DEF S
  <2> DEFINE R == InList \ InList'
  <2>2. head \in R \cup {Null}
    BY <1>0, <1>3, <2>1 DEF ListClosed, NoNodeTwice
  <2>3. ASSUME NEW n \in R PROVE next[n] \in R \cup {Null}
    <3>1. next[n] \in InList' => next[n] = Null
      BY <1>0, <1>3, <2>1 DEF NoNodeTwice
    <3> QED
      BY <1>0, <3>1 DEF ListClosed
  <2>4. R \in SUBSET Objects
    BY <1>0
  <2>5. ListClosed(R)
    BY <2>2, <2>3 DEF ListClosed
  <2>6. InList \subseteq R
    BY <1>0, <2>4, <2>5
  <2> QED
    BY <2>6
<1>5. ASSUME o = head PROVE InList \ {o} \subseteq InList'
  <2>1. ListClosed(InList' \cup {o})
    BY <1>1, <1>5 DEF ListClosed
  <2>2. InList' \cup {o} \in SUBSET Objects
    BY <1>1, <1>2
  <2> QED
    BY <1>0, <2>1, <2>2
<1>6. NoNodeTwice'
  <2>1. ASSUME NEW n \in InList', next'[n] = head' PROVE head' = Null
    BY <1>3, <1>4, <2>1 DEF NoNodeTwice
  <2> QED
    BY <1>3, <2>1 DEF NoNodeTwice
<1> QED
  BY <1>3, <1>4, <1>5, <1>6

-----------------------------------------------------------------------------

(***************************************************************************)
(* Steps outside the walk of the sweep keep what the walk has in hand, or  *)
(* return.                                                                 *)
(***************************************************************************)
SweepKept(l, m) == m.prev = l.prev /\ m.freed = l.freed

OffSweep(p) == /\ pc[p] \notin SweepLabel \cup SweptLabel
               /\ pc'[p] \notin SweepLabel \cup SweptLabel
               /\ \/ local'[p] = NoLocals
                  \/ SweepKept(local[p], local'[p])

(***************************************************************************)
(* The mark loop does not enter the sweep.                                 *)
(***************************************************************************)
LEMMA MarkStepIsOffSweep ==
  ASSUME TypeOK, NEW p \in Procs, MarkStep(p)
  PROVE  OffSweep(p)
<1>1. /\ pc[p] \in {"mark", "trace"}
      /\ pc'[p] \in {"mark", "trace", "busy_dec", "busy_test", "bg_check"}
  BY GotoMoves DEF MarkStep, MarkPop, MarkSteal, TraceField, MarkBlack,
     MarkNoWork, MarkBudgetSpent, AfterMarking
<1> QED
  BY <1>1, MarkStepStands
  DEF OffSweep, SweepLabel, SweptLabel, SweepKept, SameWalk

(***************************************************************************)
(* Calls of the program, and their steps.                                  *)
(***************************************************************************)
LEMMA MutatorMoveIsOffSweep ==
  ASSUME TypeOK, NEW t \in Threads, MutatorMove(t)
  PROVE  OffSweep(t)
<1> DEFINE l == local[t]
<1>0. t \in Procs /\ l \in Locals
  BY LocalType DEF Procs
<1>1. ASSUME NEW m, SetLocal(t, m), m = NoLocals \/ SweepKept(l, m)
      PROVE  local'[t] = NoLocals \/ SweepKept(l, local'[t])
  BY <1>0, <1>1, SetLocalMoves DEF SweepKept
<1>2. local' = local => SweepKept(l, local'[t])
  BY DEF SweepKept
<1>3. CASE MutatorCall(t)
  <2>1. /\ pc[t] = "ready"
        /\ pc'[t] \in {"ready", "busy_check", "alloc_box", "rooting", "count"}
    BY <1>0, <1>3, GotoMoves
    DEF MutatorCall, Allocate, CloneRoot, DropRoot, CellSet, CellGet,
        CountLoadHead
  <2>2. local'[t] = NoLocals \/ SweepKept(l, local'[t])
    <3>1. CASE Allocate(t)
      <4>1. \A a, o : SweepKept(l, [l EXCEPT !.op = a, !.current = o])
        BY <1>0 DEF SweepKept, Locals
      <4> QED
        BY <1>1, <3>1, <4>1 DEF Allocate
    <3>2. CASE CellSet(t)
      <4>1. \A a, o, f, v : SweepKept(l, [l EXCEPT !.op = a, !.current = o,
                                                   !.field = f, !.value = v])
        BY <1>0 DEF SweepKept, Locals
      <4> QED
        BY <1>1, <3>2, <4>1 DEF CellSet
    <3>3. CASE CellGet(t)
      <4>1. \A v : SweepKept(l, [l EXCEPT !.value = v])
        BY <1>0 DEF SweepKept, Locals
      <4> QED
        BY <1>1, <3>3, <4>1 DEF CellGet
    <3>4. CASE CountLoadHead(t)
      <4>1. \A o : SweepKept(l, [l EXCEPT !.current = o])
        BY <1>0 DEF SweepKept, Locals
      <4> QED
        BY <1>1, <3>4, <4>1 DEF CountLoadHead
    <3>5. CASE CloneRoot(t) \/ DropRoot(t)
      BY <1>2, <3>5 DEF CloneRoot, DropRoot
    <3> QED
      BY <1>3, <3>1, <3>2, <3>3, <3>4, <3>5 DEF MutatorCall
  <2> QED
    BY <2>1, <2>2 DEF OffSweep, SweepLabel, SweptLabel
<1>4. CASE MutatorStep(t)
  <2>1. /\ pc[t] \in {"busy_check", "busy_dec", "alloc_box", "alloc_load",
                      "alloc_cas", "alloc_add", "shade", "shade_merge",
                      "store", "rooting", "count"}
        /\ pc'[t] \in PushLabel \cup {"mark", "shade", "alloc_box", "store",
                        "shade_merge", "busy_dec", "ready", "count"}
    <3>1. CASE BusyCheck(t) \/ CountNode(t)
      BY <1>0, <3>1 DEF BusyCheck, CountNode, TypeOK
    <3>2. CASE ~ (BusyCheck(t) \/ CountNode(t))
      BY <1>0, <1>4, <3>2, GotoMoves
      DEF MutatorStep, DecrementBusyMarking, AfterBusy, AllocateBox,
          AllocateLoadHead, AllocatePublish, AllocateRetry, AllocateReturn,
          CellShade, CellMergeWork, CellStore, RootPointer, ForgetPointer,
          PushLabel
    <3> QED
      BY <3>1, <3>2
  <2>2. local'[t] = NoLocals \/ SweepKept(l, local'[t])
    <3>1. CASE \/ BusyCheck(t) \/ DecrementBusyMarking(t) \/ AllocateBox(t)
               \/ AllocateLoadHead(t) \/ AllocatePublish(t)
               \/ AllocateRetry(t)
      BY <1>2, <3>1 DEF BusyCheck, DecrementBusyMarking, AllocateBox,
         AllocateLoadHead, AllocatePublish, AllocateRetry
    <3>2. CASE \/ AllocateReturn(t) \/ CellStore(t) \/ RootPointer(t)
               \/ ForgetPointer(t)
      BY <1>1, <3>2 DEF AllocateReturn, CellStore, RootPointer, ForgetPointer
    <3>3. CASE CellShade(t) \/ CellMergeWork(t)
      <4>1. \A s : SweepKept(l, [l EXCEPT !.tracer = s])
        BY <1>0 DEF SweepKept, Locals
      <4> QED
        BY <1>1, <3>3, <4>1 DEF CellShade, CellMergeWork
    <3>4. CASE CountNode(t)
      <4>1. \A o : SweepKept(l, [l EXCEPT !.current = o])
        BY <1>0 DEF SweepKept, Locals
      <4> QED
        BY <1>1, <3>4, <4>1 DEF CountNode
    <3> QED
      BY <1>4, <3>1, <3>2, <3>3, <3>4 DEF MutatorStep
  <2> QED
    BY <2>1, <2>2 DEF OffSweep, SweepLabel, SweptLabel, PushLabel
<1>5. CASE MarkStep(t)
  BY <1>0, <1>5, MarkStepIsOffSweep
<1>6. CASE StopBackgroundCollection(t) \/ JoinBackgroundThread(t)
  <2>1. pc[t] \in {"ready", "join"} /\ pc'[t] \in {"ready", "join"}
    BY <1>0, <1>6, GotoMoves
    DEF StopBackgroundCollection, JoinBackgroundThread
  <2>2. \A n : SweepKept(l, [l EXCEPT !.joining = n])
    BY <1>0 DEF SweepKept, Locals
  <2>3. local'[t] = NoLocals \/ SweepKept(l, local'[t])
    BY <1>1, <1>6, <2>2 DEF StopBackgroundCollection, JoinBackgroundThread
  <2> QED
    BY <2>1, <2>3 DEF OffSweep, SweepLabel, SweptLabel
<1> QED
  BY <1>3, <1>4, <1>5, <1>6 DEF MutatorMove

(***************************************************************************)
(* Nor do the steps of a collector before StartSweeping.                   *)
(***************************************************************************)
LEMMA CollectorIsOffSweep ==
  ASSUME TypeOK, NEW p \in Procs,
         \/ TryStartMarking(p) \/ RootsLoadHead(p) \/ RootsVisit(p)
         \/ RootsMerge(p) \/ BusyTest(p) \/ ForceCollect(p)
         \/ BackgroundStep(p)
  PROVE  OffSweep(p)
<1> DEFINE l == local[p]
<1>0. l \in Locals
  BY LocalType
<1>1. ASSUME NEW m, SetLocal(p, m), m = NoLocals \/ SweepKept(l, m)
      PROVE  local'[p] = NoLocals \/ SweepKept(l, local'[p])
  BY <1>1, SetLocalMoves DEF SweepKept
<1>2. local' = local => SweepKept(l, local'[p])
  BY DEF SweepKept
<1>3. CASE TryStartMarking(p)
  <2>1. /\ pc[p] = "try_mark"
        /\ pc'[p] \in {"roots_head", "ready", "bg_enter"}
    BY <1>3, GotoMoves DEF TryStartMarking, CollectorHome
  <2>2. \A a : SweepKept(l, [l EXCEPT !.op = a])
    BY <1>0 DEF SweepKept, Locals
  <2>3. local'[p] = NoLocals \/ SweepKept(l, local'[p])
    BY <1>1, <1>2, <1>3, <2>2 DEF TryStartMarking
  <2> QED
    BY <2>1, <2>3 DEF OffSweep, SweepLabel, SweptLabel
<1>4. CASE RootsLoadHead(p) \/ RootsVisit(p) \/ RootsMerge(p)
  <2>1. /\ pc[p] \in {"roots_head", "roots"}
        /\ pc'[p] \in {"roots", "bg_check", "mark"}
    BY <1>4, GotoMoves DEF RootsLoadHead, RootsVisit, RootsMerge
  <2>2. /\ \A s : SweepKept(l, [l EXCEPT !.tracer = s])
        /\ \A o : SweepKept(l, [l EXCEPT !.current = o])
        /\ \A s, o : SweepKept(l, [l EXCEPT !.tracer = s, !.current = o])
    BY <1>0 DEF SweepKept, Locals
  <2>3. local'[p] = NoLocals \/ SweepKept(l, local'[p])
    BY <1>1, <1>4, <2>2 DEF RootsLoadHead, RootsVisit, RootsMerge
  <2> QED
    BY <2>1, <2>3 DEF OffSweep, SweepLabel, SweptLabel
<1>5. CASE BusyTest(p) \/ ForceCollect(p)
  <2>1. /\ pc[p] \in {"busy_test", "ready"}
        /\ pc'[p] \in {"sweep_start", "bg_check", "mark", "try_mark"}
        /\ local' = local
    BY <1>5, GotoMoves DEF BusyTest, ForceCollect
  <2> QED
    BY <1>2, <2>1 DEF OffSweep, SweepLabel, SweptLabel
<1>6. CASE BackgroundStep(p)
  <2>1. /\ pc[p] \in {"bg_enter", "bg_sleep", "bg_check", "bg_abort"}
        /\ pc'[p] \in {"bg_done", "bg_sleep", "try_mark", "bg_enter",
                        "bg_abort", "mark"}
    BY <1>6, GotoMoves DEF BackgroundStep, BackgroundWait,
       BackgroundNotified, BackgroundTimeout, BackgroundCheck,
       BackgroundAbort
  <2>2. local'[p] = NoLocals \/ SweepKept(l, local'[p])
    BY <1>1, <1>2, <1>6 DEF BackgroundStep, BackgroundWait,
       BackgroundNotified, BackgroundTimeout, BackgroundCheck,
       BackgroundAbort
  <2> QED
    BY <2>1, <2>2 DEF OffSweep, SweepLabel, SweptLabel
<1> QED
  BY <1>3, <1>4, <1>5, <1>6

-----------------------------------------------------------------------------

(***************************************************************************)
(* The walk of do_sweep stands at a node of the list and behind it, and    *)
(* begins with nothing in hand.                                            *)
(***************************************************************************)
SweepsTheList(c) ==
  /\ pc[c] \notin WalkLabel \cup SweptLabel =>
       local[c].prev = Null /\ local[c].freed = 0
  /\ pc[c] \in WalkLabel =>
       /\ local[c].current \in InList \cup {Null}
       /\ local[c].prev # Null => /\ local[c].prev \in InList
                                 /\ next[local[c].prev] = local[c].current
  /\ pc[c] \in WalkLabel \ {"sweep"} =>
       /\ local[c].current # Null
       /\ local[c].following = next[local[c].current]

(***************************************************************************)
(* The inductive invariant for the list.                                   *)
(***************************************************************************)
ListInv(c) == /\ BusyInv /\ RootInv
              /\ \A p \in Procs \ {c} : OnlyMutates(p)
              /\ SweepsInPhase(c)
              /\ AllocationListSound
              /\ NoNodeTwice
              /\ SweepsTheList(c)

(***************************************************************************)
(* Steps that move no node of the list, and drop and publish no box.       *)
(***************************************************************************)
SameList == /\ head' = head
            /\ \A n \in InList : next'[n] = next[n]
            /\ Live' = Live

(***************************************************************************)
(* A step that moves no node keeps what is said of the list.               *)
(***************************************************************************)
LEMMA SameListKeeps ==
  ASSUME TypeOK, TypeOK', AllocationListSound, NoNodeTwice, SameList
  PROVE  InList' = InList /\ AllocationListSound' /\ NoNodeTwice'
<1>1. InList' = InList
  BY ListUntouched DEF SameList
<1>2. AllocationListSound'
  BY <1>1 DEF AllocationListSound, SameList
<1>3. NoNodeTwice'
  BY <1>1 DEF NoNodeTwice, SameList
<1> QED
  BY <1>1, <1>2, <1>3

(***************************************************************************)
(* A collector outside the sweep has no walk to keep.                      *)
(***************************************************************************)
LEMMA OffSweepKeeps ==
  ASSUME NEW c, SweepsTheList(c), OffSweep(c)
  PROVE  SweepsTheList(c)' /\ SweepsInPhase(c)'
BY DEF SweepsTheList, SweepsInPhase, OffSweep, SweepKept, NoLocals, WalkLabel,
       SweepLabel, SweptLabel

(***************************************************************************)
(* While others push, a walk that stands still keeps its place.            *)
(***************************************************************************)
LEMMA StandingSweepKeeps ==
  ASSUME NEW c, SweepsTheList(c), SweepsInPhase(c),
         pc'[c] = pc[c], local'[c] = local[c], phase' = phase,
         InList \subseteq InList', \A n \in InList : next'[n] = next[n]
  PROVE  SweepsTheList(c)' /\ SweepsInPhase(c)'
<1>1. SweepsInPhase(c)'
  BY DEF SweepsInPhase
<1>2. SweepsTheList(c)'
  <2>1. pc[c] \in WalkLabel \ {"sweep"} => local[c].current \in InList
    BY DEF SweepsTheList
  <2> QED
    BY <2>1 DEF SweepsTheList
<1> QED
  BY <1>1, <1>2

(***************************************************************************)
(* What the steps of mutators do to the list: a push, or nothing.          *)
(***************************************************************************)
LEMMA MutatorMoveOnList ==
  ASSUME RootInv, AllocationListSound, NEW t \in Threads, MutatorMove(t)
  PROVE  SameList \/ AllocatePublish(t)
<1>0. t \in Procs /\ TypeOK
  BY DEF Procs, RootInv
<1>1. ASSUME Frame PROVE SameList
  BY <1>1 DEF Frame, SameList, Live
<1>2. CASE Allocate(t)
  <2>1. PICK o \in Objects : /\ mem[o] = "unborn"
                             /\ mem' = [mem EXCEPT ![o] = "reserved"]
    BY <1>2 DEF Allocate
  <2>2. Live' = Live
    BY <1>0, <2>1 DEF Live, TypeOK
  <2> QED
    BY <1>2, <2>2 DEF Allocate, SameList
<1>3. CASE AllocateBox(t)
  <2>1. /\ pc[t] = "alloc_box" /\ UNCHANGED <<head, next>>
        /\ mem' = [mem EXCEPT ![local[t].current] = "boxed"]
    BY <1>3 DEF AllocateBox, Goto
  <2>2. local[t].current \in Objects /\ mem[local[t].current] = "reserved"
    BY <1>0, <2>1 DEF RootInv, SeesPublished, OwnsItsObject, PushLabel
  <2>3. Live' = Live
    BY <1>0, <2>1, <2>2 DEF Live, TypeOK
  <2> QED
    BY <2>1, <2>3 DEF SameList
<1>4. CASE AllocateLoadHead(t)
  <2>1. /\ pc[t] = "alloc_load" /\ UNCHANGED <<head, mem>>
        /\ next' = [next EXCEPT ![local[t].current] = head]
    BY <1>4 DEF AllocateLoadHead, Goto
  <2>2. local[t].current \in Objects /\ mem[local[t].current] = "boxed"
    BY <1>0, <2>1 DEF RootInv, SeesPublished, OwnsItsObject, PushLabel,
       AssistLabel
  <2>3. InList \subseteq Objects \ {local[t].current}
    BY <2>2 DEF AllocationListSound, Live
  <2>4. \A n \in InList : next'[n] = next[n]
    BY <1>0, <2>1, <2>3 DEF TypeOK
  <2> QED
    BY <2>1, <2>4 DEF SameList, Live
<1>5. CASE \/ AllocateReturn(t) \/ CellStore(t) \/ RootPointer(t)
           \/ CloneRoot(t) \/ DropRoot(t)
  BY <1>5 DEF AllocateReturn, CellStore, RootPointer, CloneRoot, DropRoot,
     SameList, Live
<1>6. CASE \/ CellSet(t) \/ CellGet(t) \/ CountLoadHead(t)
  BY <1>1, <1>6, MutatorCallIsQuiet DEF QuietMove
<1>7. CASE \/ BusyCheck(t) \/ DecrementBusyMarking(t) \/ AllocateRetry(t)
           \/ CellShade(t) \/ CellMergeWork(t) \/ ForgetPointer(t)
           \/ CountNode(t)
  BY <1>1, <1>7, MutatorStepIsQuiet DEF QuietMove
<1>8. CASE MarkStep(t)
  BY <1>0, <1>1, <1>8, MarkStepIsQuiet DEF QuietMove
<1>9. CASE StopBackgroundCollection(t) \/ JoinBackgroundThread(t)
  BY <1>0, <1>1, <1>9, ControlStepIsQuiet DEF QuietMove
<1> QED
  BY <1>2, <1>3, <1>4, <1>5, <1>6, <1>7, <1>8, <1>9
  DEF MutatorMove, MutatorCall, MutatorStep

(***************************************************************************)
(* A push keeps the list sound: the box is live, and nobody led to it.     *)
(***************************************************************************)
LEMMA PushKeepsList ==
  ASSUME RootInv, TypeOK', AllocationListSound, NoNodeTwice,
         NEW t \in Threads, AllocatePublish(t)
  PROVE  /\ InList' = InList \cup {local[t].current}
         /\ local[t].current \in Objects \ Live
         /\ Live' = Live \cup {local[t].current}
         /\ next' = next
         /\ AllocationListSound' /\ NoNodeTwice'
<1>0. t \in Procs /\ TypeOK
  BY DEF Procs, RootInv
<1>1. /\ pc[t] = "alloc_cas" /\ next' = next
      /\ head = next[local[t].current] /\ head' = local[t].current
      /\ mem' = [mem EXCEPT ![local[t].current] = "live"]
  BY DEF AllocatePublish, Goto
<1>2. /\ local[t].current \in Objects /\ local[t].current # Null
      /\ mem[local[t].current] = "boxed"
  BY <1>0, <1>1, HeapAssumption DEF RootInv, SeesPublished, OwnsItsObject,
     PushLabel, AssistLabel
<1>3. PICK o \in Objects : o = local[t].current
  BY <1>2
<1>4. InList' = InList \cup {o}
  BY <1>0, <1>1, <1>3, PushExtendsList
<1>5. o \notin Live /\ Live' = Live \cup {o}
  BY <1>0, <1>1, <1>2, <1>3 DEF Live, TypeOK
<1>6. o \notin InList
  BY <1>5 DEF AllocationListSound
<1>7. AllocationListSound'
  BY <1>4, <1>5 DEF AllocationListSound
<1>8. ListClosed(InList)
  BY <1>0, InListIsLeast
<1>9. NoNodeTwice'
  BY <1>1, <1>2, <1>3, <1>4, <1>6, <1>8 DEF NoNodeTwice, ListClosed
<1> QED
  BY <1>1, <1>3, <1>4, <1>5, <1>7, <1>9

(***************************************************************************)
(* The walk of the sweep, but for the drop.                                *)
(***************************************************************************)
LEMMA SweepWalkKeeps ==
  ASSUME TypeOK, NEW c \in Procs, SweepsTheList(c), SweepsInPhase(c),
         \/ StartSweeping(c) \/ SweepLoadHead(c) \/ SweepColor(c)
         \/ SweepRoot(c) \/ SweepKeep(c) \/ SweepSubtract(c)
         \/ FinishSweep(c) \/ UpdateThreshold(c) \/ FinishGc(c)
  PROVE  SweepsTheList(c)' /\ SweepsInPhase(c)'
<1> DEFINE l == local[c]
<1>0. l \in Locals
  BY LocalType
<1>1. UNCHANGED <<head, next>>
  BY DEF StartSweeping, SweepLoadHead, SweepColor, SweepRoot, SweepKeep,
     SweepSubtract, FinishSweep, UpdateThreshold, FinishGc
<1>2. InList' = InList
  BY <1>1 DEF InList
<1> USE DEF SweepsTheList, SweepsInPhase, WalkLabel, SweepLabel, SweptLabel
<1>3. CASE StartSweeping(c)
  <2>1. /\ pc[c] = "sweep_start" /\ pc'[c] = "sweep_head"
        /\ local' = local /\ phase' = "Sweeping"
    BY <1>3, GotoMoves DEF StartSweeping
  <2> QED
    BY <2>1
<1>4. CASE SweepLoadHead(c)
  <2>1. /\ pc[c] = "sweep_head" /\ pc'[c] = "sweep" /\ phase' = phase
        /\ local'[c] = [l EXCEPT !.current = head]
    BY <1>4, GotoMoves, SetLocalMoves DEF SweepLoadHead
  <2>2. local'[c].current = head /\ local'[c].prev = l.prev
    BY <1>0, <2>1 DEF Locals
  <2>3. head \in InList \cup {Null}
    BY InListIsLeast DEF ListClosed
  <2> QED
    BY <1>1, <1>2, <2>1, <2>2, <2>3
<1>5. CASE SweepColor(c)
  <2>1. /\ pc[c] = "sweep" /\ pc'[c] \in {"sweep_root", "sweep_keep"}
        /\ phase' = phase /\ l.current # Null
        /\ local'[c] = [l EXCEPT !.following = next[l.current]]
    BY <1>5, GotoMoves, SetLocalMoves DEF SweepColor
  <2>2. /\ local'[c].current = l.current /\ local'[c].prev = l.prev
        /\ local'[c].following = next[l.current]
    BY <1>0, <2>1 DEF Locals
  <2> QED
    BY <1>1, <1>2, <2>1, <2>2
<1>6. CASE SweepRoot(c)
  <2>1. /\ pc[c] = "sweep_root" /\ pc'[c] \in {"sweep_keep", "sweep_free"}
        /\ phase' = phase /\ local' = local
    BY <1>6, GotoMoves DEF SweepRoot
  <2> QED
    BY <1>1, <1>2, <2>1
<1>7. CASE SweepKeep(c)
  <2>1. /\ pc[c] = "sweep_keep" /\ pc'[c] = "sweep" /\ phase' = phase
        /\ local'[c] = [l EXCEPT !.prev = l.current,
                                 !.current = l.following]
    BY <1>7, GotoMoves, SetLocalMoves DEF SweepKeep
  <2>2. local'[c].current = l.following /\ local'[c].prev = l.current
    BY <1>0, <2>1 DEF Locals
  <2>3. /\ l.current \in InList /\ l.following = next[l.current]
        /\ l.following \in InList \cup {Null}
    BY <2>1, InListIsLeast DEF ListClosed
  <2> QED
    BY <1>1, <1>2, <2>1, <2>2, <2>3
<1>8. CASE SweepSubtract(c) \/ FinishSweep(c) \/ UpdateThreshold(c)
  <2>1. /\ pc[c] \in {"sweep", "finish_sweep", "threshold"}
        /\ pc'[c] \in {"finish_sweep", "threshold", "finish"}
        /\ pc'[c] = "finish_sweep" => pc[c] = "sweep" /\ phase' = phase
    BY <1>8, GotoMoves DEF SweepSubtract, FinishSweep, UpdateThreshold
  <2> QED
    BY <2>1
<1>9. CASE FinishGc(c)
  <2>1. pc'[c] \in {"bg_enter", "ready"} /\ local'[c] = NoLocals
    BY <1>9, GotoMoves, SetLocalMoves DEF FinishGc, CollectorHome
  <2> QED
    BY <2>1 DEF NoLocals
<1> QED
  BY <1>3, <1>4, <1>5, <1>6, <1>7, <1>8, <1>9

(***************************************************************************)
(* The drop: the node is out of the list when its box goes.                *)
(***************************************************************************)
LEMMA SweepFreeKeepsList ==
  ASSUME TypeOK, TypeOK', NEW c \in Procs, SweepFree(c), SweepsTheList(c),
         SweepsInPhase(c), AllocationListSound, NoNodeTwice
  PROVE  /\ local[c].current \in Live
         /\ Live' = Live \ {local[c].current}
         /\ phase = "Sweeping"
         /\ AllocationListSound' /\ NoNodeTwice'
         /\ SweepsTheList(c)' /\ SweepsInPhase(c)'
         /\ \/ local[c].prev # Null
            \/ local[c].current = head
            => InList' = InList \ {local[c].current}
<1> DEFINE l == local[c]
<1>0. l \in Locals
  BY LocalType
<1>1. /\ pc[c] = "sweep_free" /\ pc'[c] = "sweep" /\ phase' = phase
      /\ Unlink(l.prev, l.following)
      /\ mem' = [mem EXCEPT ![l.current] = "freed"]
      /\ local'[c] = [l EXCEPT !.freed = @ + 1, !.current = l.following]
  BY GotoMoves, SetLocalMoves DEF SweepFree
<1>2. local'[c].current = l.following /\ local'[c].prev = l.prev
  BY <1>0, <1>1 DEF Locals
<1>3. /\ l.current \in InList
      /\ l.following = next[l.current]
      /\ l.prev # Null => l.prev \in InList /\ next[l.prev] = l.current
  BY <1>1 DEF SweepsTheList, WalkLabel
<1>4. l.current \in Live /\ l.current \in Objects
  BY <1>3 DEF AllocationListSound, Live
<1>5. PICK o \in InList : o = l.current
  BY <1>3
<1>6. Live' = Live \ {o}
  BY <1>1, <1>4, <1>5 DEF Live, TypeOK
<1>7. CASE l.prev # Null
  <2>1. head' = head /\ next' = [next EXCEPT ![l.prev] = next[o]]
    BY <1>1, <1>3, <1>5, <1>7 DEF Unlink
  <2>2. PICK q \in InList : q = l.prev
    BY <1>3, <1>7
  <2>3. next[q] = o /\ next' = [next EXCEPT ![q] = next[o]]
    BY <1>3, <1>5, <1>7, <2>1, <2>2
  <2>4. InList' = InList \ {o} /\ NoNodeTwice'
    BY <2>1, <2>3, UnlinkBehind
  <2>5. AllocationListSound'
    BY <1>6, <2>4 DEF AllocationListSound
  <2>6. next[o] # o /\ q # o
    BY <2>3, NoNodeLeadsToItself
  <2>7. InList \subseteq Objects /\ next[o] \in InList \cup {Null}
    BY InListIsLeast DEF ListClosed
  <2>8. next'[q] = next[o]
    BY <2>3, <2>7 DEF TypeOK
  <2>9. SweepsTheList(c)'
    BY <1>1, <1>2, <1>3, <1>5, <2>2, <2>4, <2>6, <2>7, <2>8
    DEF SweepsTheList, WalkLabel
  <2> QED
    BY <1>1, <1>4, <1>5, <1>6, <2>4, <2>5, <2>9
    DEF SweepsInPhase, SweepLabel
<1>8. CASE l.prev = Null
  <2>1. head' = next[o] /\ next' = next
    BY <1>1, <1>3, <1>5, <1>8 DEF Unlink
  <2>2. /\ InList' \subseteq InList \ {o}
        /\ o = head => InList' = InList \ {o}
        /\ NoNodeTwice'
    BY <2>1, UnlinkAtHead
  <2>3. AllocationListSound'
    BY <1>6, <2>2 DEF AllocationListSound
  <2>4. head' \in InList' \cup {Null}
    BY InListIsLeastNext DEF ListClosed
  <2>5. SweepsTheList(c)'
    BY <1>1, <1>2, <1>3, <1>5, <1>8, <2>1, <2>4
    DEF SweepsTheList, WalkLabel, SweptLabel
  <2> QED
    BY <1>1, <1>4, <1>5, <1>6, <1>8, <2>2, <2>3, <2>5
    DEF SweepsInPhase, SweepLabel
<1> QED
  BY <1>7, <1>8

-----------------------------------------------------------------------------

(***************************************************************************)
(* Steps of a mutator, of the collector, and the start of the collector.   *)
(***************************************************************************)
LEMMA MutatorMoveKeepsList ==
  ASSUME NEW c \in Procs, SoleCollector(c), ListInv(c), BusyInv', RootInv',
         NEW t \in Threads, MutatorMove(t)
  PROVE  ListInv(c)'
<1>0. /\ t \in Procs /\ TypeOK /\ TypeOK' /\ MarksAsCollector(t)
      /\ AllocationListSound /\ NoNodeTwice /\ RootInv
      /\ SweepsTheList(c) /\ SweepsInPhase(c)
  BY DEF Procs, ListInv, BusyInv
<1>1. Others(t)
  BY <1>0, MutatorCallCounts, MutatorStepCounts, MarkStepCounts,
     ControlStepCounts DEF MutatorMove, BusyStep
<1>2. /\ AllocationListSound' /\ NoNodeTwice'
      /\ InList \subseteq InList' /\ \A n \in InList : next'[n] = next[n]
  <2>1. CASE SameList
    BY <1>0, <2>1, SameListKeeps DEF SameList
  <2>2. CASE AllocatePublish(t)
    BY <1>0, <2>2, PushKeepsList
  <2> QED
    BY <1>0, <2>1, <2>2, MutatorMoveOnList
<1>3. \A p \in Procs \ {c} : OnlyMutates(p)'
  <2>1. ASSUME NEW p \in Procs \ {c, t} PROVE OnlyMutates(p)'
    BY <1>1 DEF Others, ListInv, OnlyMutates, Allocates
  <2>2. t # c => OnlyMutates(t)'
    BY <1>0, MutatorMoveMutates DEF ListInv
  <2> QED
    BY <2>1, <2>2
<1>4. SweepsTheList(c)' /\ SweepsInPhase(c)'
  <2>1. CASE t = c
    BY <1>0, <2>1, MutatorMoveIsOffSweep, OffSweepKeeps
  <2>2. CASE t # c
    <3>1. phase' = phase
      BY <1>0, <2>2, MutatorMoveMutates DEF ListInv
    <3>2. pc'[c] = pc[c] /\ local'[c] = local[c]
      BY <1>1, <2>2 DEF Others
    <3> QED
      BY <1>0, <1>2, <3>1, <3>2, StandingSweepKeeps
  <2> QED
    BY <2>1, <2>2
<1> QED
  BY <1>2, <1>3, <1>4 DEF ListInv

(***************************************************************************)
(* Every step of the collector keeps the invariant of the list.            *)
(***************************************************************************)
LEMMA CollectorKeepsList ==
  ASSUME NEW c \in Procs, ListInv(c), BusyInv', RootInv',
         CycleStep(c) \/ ForceCollect(c) \/ BackgroundStep(c)
  PROVE  ListInv(c)'
<1>0. /\ TypeOK /\ TypeOK' /\ MarksAsCollector(c)
      /\ AllocationListSound /\ NoNodeTwice /\ RootInv
      /\ SweepsTheList(c) /\ SweepsInPhase(c)
  BY DEF ListInv, BusyInv
<1>1. Others(c)
  BY <1>0, MarkStepCounts, ScanStepCounts, ControlStepCounts
  DEF CycleStep, BusyStep
<1>2. \A p \in Procs \ {c} : OnlyMutates(p)'
  BY <1>1 DEF Others, ListInv, OnlyMutates, Allocates
<1>3. CASE SweepFree(c)
  BY <1>0, <1>2, <1>3, SweepFreeKeepsList DEF ListInv
<1>4. CASE ~ SweepFree(c)
  <2>1. Frame
    BY <1>0, <1>4, MarkStepIsQuiet, ScanStepIsQuiet, ControlStepIsQuiet
    DEF CycleStep, SweepStep, QuietMove
  <2>2. SameList
    BY <2>1 DEF Frame, SameList, Live
  <2>3. AllocationListSound' /\ NoNodeTwice'
    BY <1>0, <2>2, SameListKeeps
  <2>4. SweepsTheList(c)' /\ SweepsInPhase(c)'
    BY <1>0, <1>4, MarkStepIsOffSweep, CollectorIsOffSweep, OffSweepKeeps,
       SweepWalkKeeps DEF CycleStep, SweepStep
  <2> QED
    BY <1>2, <2>3, <2>4 DEF ListInv
<1> QED
  BY <1>3, <1>4

(***************************************************************************)
(* So does a background thread that starts: it has not run before.         *)
(***************************************************************************)
LEMMA StartKeepsList ==
  ASSUME NEW c \in Procs, SoleCollector(c), ListInv(c), BusyInv', RootInv',
         NEW t \in Threads, StartBackgroundCollection(t)
  PROVE  ListInv(c)'
<1>0. /\ TypeOK /\ TypeOK' /\ UnbornUntilStarted
      /\ AllocationListSound /\ NoNodeTwice /\ RootInv
      /\ SweepsTheList(c) /\ SweepsInPhase(c)
  BY DEF ListInv, BusyInv
<1>1. /\ bg_thread.counter + 1 = c /\ c \in Background
      /\ pc' = [pc EXCEPT ![c] = "bg_enter"]
      /\ UNCHANGED <<head, next, mem, local>>
  BY DEF StartBackgroundCollection, SoleCollector
<1>2. pc'[c] = "bg_enter" /\ \A q \in Procs \ {c} : pc'[q] = pc[q]
  BY <1>0, <1>1 DEF TypeOK
<1>3. pc[c] = "unborn"
  <2>1. bg_thread.counter \in Nat
    BY <1>0 DEF TypeOK
  <2> QED
    BY <1>0, <1>1, <2>1 DEF UnbornUntilStarted
<1>4. OffSweep(c)
  BY <1>1, <1>2, <1>3 DEF OffSweep, SweepKept, SweepLabel, SweptLabel
<1>5. AllocationListSound' /\ NoNodeTwice'
  BY <1>0, <1>1, SameListKeeps DEF SameList, Live
<1>6. \A p \in Procs \ {c} : OnlyMutates(p)'
  BY <1>1, <1>2 DEF ListInv, OnlyMutates, Allocates
<1> QED
  BY <1>0, <1>4, <1>5, <1>6, OffSweepKeeps DEF ListInv

(***************************************************************************)
(* The list the program has built.                                         *)
(***************************************************************************)
LEMMA InitNext ==
  ASSUME Init
  PROVE  /\ Len(Built) \in Nat
         /\ BuiltObjects \subseteq Objects
         /\ \A i \in 1..Len(Built) : Built[i] \in BuiltObjects
         /\ \A i \in 1..(Len(Built) - 1) : next[Built[i]] = Built[i + 1]
         /\ \A o \in BuiltObjects :
              next[o] # Null =>
                \E i \in 1..(Len(Built) - 1) : o = Built[i]
         /\ head = IF Len(Built) = 0 THEN Null ELSE Built[1]
<1>1. /\ Built \in Seq(Objects) /\ Len(Built) \in Nat
      /\ \A i \in 1..Len(Built) : Built[i] \in Objects
      /\ \A i, j \in 1..Len(Built) : Built[i] = Built[j] => i = j
  BY HeapAssumption, LenProperties, ElementOfSeq
<1>2. BuiltObjects \subseteq Objects
  BY <1>1 DEF BuiltObjects
<1>3. ASSUME NEW i \in 1..(Len(Built) - 1) PROVE next[Built[i]] = Built[i + 1]
  <2>1. i \in 1..Len(Built) /\ i + 1 \in 1..Len(Built)
    BY <1>1
  <2> DEFINE j == CHOOSE j \in 1..(Len(Built) - 1) : Built[j] = Built[i]
  <2>2. j \in 1..(Len(Built) - 1) /\ Built[j] = Built[i]
    OBVIOUS
  <2>3. j = i
    BY <1>1, <2>1, <2>2
  <2>4. next[Built[i]] = Built[j + 1]
    BY <1>1, <2>1 DEF Init
  <2> QED
    BY <2>3, <2>4
<1>4. \A o \in BuiltObjects :
        next[o] # Null => \E i \in 1..(Len(Built) - 1) : o = Built[i]
  BY <1>2 DEF Init
<1>5. head = IF Len(Built) = 0 THEN Null ELSE Built[1]
  BY <1>1, EmptySeq DEF Init
<1> QED
  BY <1>1, <1>2, <1>3, <1>4, <1>5 DEF BuiltObjects

(***************************************************************************)
(* The invariant of the list holds initially.                              *)
(***************************************************************************)
LEMMA InitListInv ==
  ASSUME NEW c \in Procs, SoleCollector(c), Init
  PROVE  ListInv(c)
<1>0. BusyInv /\ RootInv /\ TypeOK
  BY InitBusyInv, InitRootInv, InitTypeOK
<1>1. /\ \A p \in Procs : local[p] = NoLocals
      /\ \A p \in Threads : pc[p] = "ready"
      /\ pc[c] \in {"ready", "bg_enter", "unborn"}
      /\ Procs \ {c} \subseteq Threads
  BY DEF Init, Procs, SoleCollector
<1>2. \A p \in Procs \ {c} : OnlyMutates(p)
  BY <1>1 DEF OnlyMutates, CollectingLabel, SweepLabel, SweptLabel
<1>3. SweepsInPhase(c) /\ SweepsTheList(c)
  BY <1>1 DEF SweepsInPhase, SweepsTheList, NoLocals, WalkLabel, SweepLabel,
     SweptLabel
<1>4. Live = BuiltObjects
  BY InitNext DEF Init, Live
<1>5. InList \subseteq BuiltObjects
  <2>1. head \in BuiltObjects \cup {Null}
    BY InitNext
  <2>2. ASSUME NEW o \in BuiltObjects
        PROVE  next[o] \in BuiltObjects \cup {Null}
    <3>1. CASE next[o] # Null
      <4>1. PICK i \in 1..(Len(Built) - 1) : o = Built[i]
        BY <3>1, InitNext
      <4>2. i + 1 \in 1..Len(Built)
        BY InitNext
      <4> QED
        BY <4>1, <4>2, InitNext
    <3> QED
      BY <3>1
  <2> QED
    BY <1>0, <2>1, <2>2, InListIsLeast, InitNext DEF ListClosed
<1>6. AllocationListSound
  BY <1>4, <1>5 DEF AllocationListSound
<1>7. NoNodeTwice
  <2>0. \A i, j \in 1..Len(Built) : Built[i] = Built[j] => i = j
    BY HeapAssumption
  <2>1. ASSUME NEW m \in InList, NEW n \in InList,
               next[m] = next[n], next[m] # Null
        PROVE  m = n
    <3>1. PICK i \in 1..(Len(Built) - 1) : m = Built[i]
      BY <1>5, <2>1, InitNext
    <3>2. PICK j \in 1..(Len(Built) - 1) : n = Built[j]
      BY <1>5, <2>1, InitNext
    <3>3. next[m] = Built[i + 1] /\ next[n] = Built[j + 1]
      BY <3>1, <3>2, InitNext
    <3>4. i + 1 \in 1..Len(Built) /\ j + 1 \in 1..Len(Built)
      BY InitNext
    <3>5. i + 1 = j + 1
      BY <2>0, <2>1, <3>3, <3>4
    <3> QED
      BY <3>1, <3>2, <3>5
  <2>2. ASSUME NEW n \in InList, next[n] = head, head # Null PROVE FALSE
    <3>1. PICK j \in 1..(Len(Built) - 1) : n = Built[j]
      BY <1>5, <2>2, InitNext
    <3>2. /\ head = Built[1] /\ next[n] = Built[j + 1]
          /\ 1 \in 1..Len(Built) /\ j + 1 \in 1..Len(Built)
      BY <2>2, <3>1, InitNext
    <3>3. j + 1 = 1
      BY <2>0, <2>2, <3>2
    <3> QED
      BY <3>3
  <2> QED
    BY <2>1, <2>2 DEF NoNodeTwice
<1> QED
  BY <1>0, <1>2, <1>3, <1>6, <1>7 DEF ListInv

(***************************************************************************)
(* Every step keeps the inductive invariant.                               *)
(***************************************************************************)
LEMMA NextListInv ==
  ASSUME NEW c \in Procs, SoleCollector(c), ListInv(c), [Next]_vars
  PROVE  ListInv(c)'
<1>0. BusyInv' /\ RootInv'
  BY NextBusyInv, NextRootInv DEF ListInv
<1>1. ASSUME NEW t \in Threads,
             MutatorCall(t) \/ CollectorCall(t) \/ ThreadStep(t)
      PROVE  ListInv(c)'
  <2>1. CASE t = c
    <3>1. \/ MutatorMove(c) \/ CycleStep(c) \/ ForceCollect(c)
          \/ StartBackgroundCollection(c)
      BY <1>1, <2>1 DEF MutatorMove, CollectorCall, ThreadStep
    <3> QED
      BY <1>0, <2>1, <3>1, MutatorMoveKeepsList, CollectorKeepsList,
         StartKeepsList
  <2>2. CASE t # c
    <3>1. t \in Procs \ {c} /\ TypeOK
      BY <2>2 DEF Procs, ListInv, RootInv
    <3>2. MutatorMove(t) \/ StartBackgroundCollection(t)
      BY <1>1, <2>2, <3>1, MutatorsOnlyMutate DEF ListInv
    <3> QED
      BY <1>0, <3>2, MutatorMoveKeepsList, StartKeepsList
  <2> QED
    BY <2>1, <2>2
<1>2. ASSUME NEW b \in Background, BackgroundThread(b) PROVE ListInv(c)'
  <2>1. b = c
    BY DEF SoleCollector
  <2> QED
    BY <1>0, <1>2, <2>1, CollectorKeepsList DEF BackgroundThread
<1>3. CASE UNCHANGED vars
  <2>1. \A p \in Procs \ {c} : OnlyMutates(p)'
    BY <1>3 DEF vars, ListInv, OnlyMutates, Allocates
  <2>2. SweepsInPhase(c)' /\ SweepsTheList(c)'
    BY <1>3 DEF vars, ListInv, SweepsInPhase, SweepsTheList, InList
  <2>3. AllocationListSound' /\ NoNodeTwice'
    BY <1>3 DEF vars, ListInv, AllocationListSound, NoNodeTwice, InList, Live
  <2> QED
    BY <1>0, <2>1, <2>2, <2>3 DEF ListInv
<1> QED
  BY <1>1, <1>2, <1>3 DEF Next

(***************************************************************************)
(* With one collector, whatever threads allocate, clone, drop and write    *)
(* meanwhile, the allocation list leads to live boxes only: do_sweep drops *)
(* no box before it has unlinked it, from the node it last kept or from    *)
(* the head, and unlinking one node never leads a walk back to another it  *)
(* has dropped.  (An unlink at the head may lose a push, TLC shows in      *)
(* LostAllocation, but it leaves no dropped box in the list.)              *)
(***************************************************************************)
THEOREM AllocationListCorrect ==
  ASSUME NEW c \in Procs, SoleCollector(c)
  PROVE  Spec => []AllocationListSound
<1>1. Init => ListInv(c)
  BY InitListInv
<1>2. ListInv(c) /\ [Next]_vars => ListInv(c)'
  BY NextListInv
<1>3. ListInv(c) => AllocationListSound
  BY DEF ListInv
<1> QED
  BY <1>1, <1>2, <1>3, PTL DEF Spec

(***************************************************************************)
(* Only do_sweep drops a box.                                              *)
(***************************************************************************)
LEMMA OnlySweepFrees ==
  ASSUME TypeOK, Next, NEW o \in Objects, mem[o] # "freed", mem'[o] = "freed"
  PROVE  \E p \in Procs : SweepFree(p)
<1>1. ASSUME NEW p \in Procs, CycleStep(p) PROVE SweepFree(p)
  BY <1>1 DEF CycleStep, MarkStep, SweepStep, TryStartMarking, RootsLoadHead,
     RootsVisit, RootsMerge, MarkPop, MarkSteal, TraceField, MarkBlack,
     MarkNoWork, MarkBudgetSpent, BusyTest, StartSweeping, SweepLoadHead,
     SweepColor, SweepRoot, SweepKeep, SweepSubtract, FinishSweep,
     UpdateThreshold, FinishGc
<1>2. ASSUME NEW t \in Threads, MutatorCall(t) PROVE FALSE
  BY <1>2 DEF MutatorCall, Allocate, CloneRoot, DropRoot, CellSet, CellGet,
     CountLoadHead, TypeOK
<1>3. ASSUME NEW t \in Threads, MutatorStep(t) PROVE FALSE
  BY <1>3 DEF MutatorStep, BusyCheck, DecrementBusyMarking, AllocateBox,
     AllocateLoadHead, AllocatePublish, AllocateRetry, AllocateReturn,
     CellShade, CellMergeWork, CellStore, RootPointer, ForgetPointer,
     CountNode, TypeOK
<1>4. ASSUME NEW t, CollectorCall(t) \/ JoinBackgroundThread(t) PROVE FALSE
  BY <1>4 DEF CollectorCall, ForceCollect, StartBackgroundCollection,
     StopBackgroundCollection, JoinBackgroundThread
<1>5. ASSUME NEW b, BackgroundStep(b) PROVE FALSE
  BY <1>5 DEF BackgroundStep, BackgroundWait, BackgroundNotified,
     BackgroundTimeout, BackgroundCheck, BackgroundAbort
<1> QED
  BY <1>1, <1>2, <1>3, <1>4, <1>5
  DEF Next, ThreadStep, BackgroundThread, Procs

-----------------------------------------------------------------------------

(***************************************************************************)
(* A program in which the thread that collects is also the only one that   *)
(* allocates, as in one that has no other thread.                          *)
(***************************************************************************)
SoleAllocator(c) ==
  \A t \in Threads \ {c} : Calls[t] \cap {"allocate", "link"} = {}

(***************************************************************************)
(* Then nothing is pushed in front of the walk of do_sweep: it stands      *)
(* behind a node it has kept, or at the head.                              *)
(***************************************************************************)
SweepsFromTheHead(c) ==
  pc[c] \in WalkLabel /\ local[c].prev = Null => local[c].current = head

WholeListInv(c) == /\ ListInv(c)
                   /\ \A p \in Procs \ {c} : ~ Allocates(p)
                   /\ SweepsFromTheHead(c)
                   /\ NoLostAllocation

(***************************************************************************)
(* Only the call of allocate makes a thread one that allocates.            *)
(***************************************************************************)
LEMMA MutatorMoveAllocates ==
  ASSUME RootInv, NEW t \in Threads, MutatorMove(t), ~ Allocates(t)
  PROVE  Allocate(t) \/ ~ Allocates(t)'
<1>0. t \in Procs /\ TypeOK
  BY DEF Procs, RootInv
<1>1. ASSUME QuietMove(t) PROVE ~ Allocates(t)'
  BY <1>1 DEF QuietMove, AllocateGoesOn, WalkGoesOn
<1>2. CASE \/ CloneRoot(t) \/ DropRoot(t) \/ AllocateBox(t)
           \/ AllocateLoadHead(t) \/ AllocatePublish(t)
  BY <1>2 DEF CloneRoot, DropRoot, AllocateBox, AllocateLoadHead,
     AllocatePublish, Allocates
<1>3. CASE \/ AllocateReturn(t) \/ CellStore(t) \/ RootPointer(t)
  <2>1. local'[t] = NoLocals
    BY <1>0, <1>3, SetLocalMoves DEF AllocateReturn, CellStore, RootPointer
  <2> QED
    BY <2>1 DEF Allocates, NoLocals
<1> QED
  BY <1>0, <1>1, <1>2, <1>3, MutatorCallIsQuiet, MutatorStepIsQuiet,
     MarkStepIsQuiet, ControlStepIsQuiet
  DEF MutatorMove, MutatorCall, MutatorStep

(***************************************************************************)
(* A push goes in front of the list when no sweep is under way, for the    *)
(* collector is the one that pushes.                                       *)
(***************************************************************************)
LEMMA MutatorMoveKeepsWholeList ==
  ASSUME NEW c \in Procs, SoleCollector(c), SoleAllocator(c),
         WholeListInv(c), ListInv(c)', NEW t \in Threads, MutatorMove(t)
  PROVE  WholeListInv(c)'
<1>0. /\ t \in Procs /\ TypeOK /\ TypeOK' /\ MarksAsCollector(t)
      /\ AllocationListSound /\ NoNodeTwice /\ RootInv
  BY DEF Procs, WholeListInv, ListInv, BusyInv
<1>1. Others(t)
  BY <1>0, MutatorCallCounts, MutatorStepCounts, MarkStepCounts,
     ControlStepCounts DEF MutatorMove, BusyStep
<1>2. \A p \in Procs \ {c} : ~ Allocates(p)'
  <2>1. \A p \in Procs \ {c, t} : ~ Allocates(p)'
    BY <1>1 DEF Others, WholeListInv, Allocates
  <2>2. ASSUME t # c PROVE ~ Allocates(t)'
    <3>1. ~ Allocate(t)
      BY <2>2 DEF Allocate, SoleAllocator
    <3> QED
      BY <1>0, <2>2, <3>1, MutatorMoveAllocates DEF WholeListInv
  <2> QED
    BY <2>1, <2>2
<1>3. CASE AllocatePublish(t)
  <2>1. pc[t] = "alloc_cas"
    BY <1>3 DEF AllocatePublish, Goto
  <2>2. t = c
    BY <1>0, <2>1 DEF WholeListInv, RootInv, SeesPublished, PushLabel
  <2>3. SweepsFromTheHead(c)'
    BY <1>0, <2>2, MutatorMoveIsOffSweep
    DEF OffSweep, SweepsFromTheHead, WalkLabel, SweepLabel
  <2>4. NoLostAllocation'
    BY <1>0, <1>3, PushKeepsList DEF WholeListInv, NoLostAllocation
  <2> QED
    BY <1>2, <2>3, <2>4 DEF WholeListInv
<1>4. CASE SameList
  <2>1. InList' = InList
    BY <1>0, <1>4, SameListKeeps
  <2>2. NoLostAllocation'
    BY <1>4, <2>1 DEF WholeListInv, NoLostAllocation, SameList
  <2>3. SweepsFromTheHead(c)'
    <3>1. CASE t = c
      BY <1>0, <3>1, MutatorMoveIsOffSweep
      DEF OffSweep, SweepsFromTheHead, WalkLabel, SweepLabel
    <3>2. CASE t # c
      BY <1>1, <1>4, <3>2
      DEF Others, SameList, WholeListInv, SweepsFromTheHead
    <3> QED
      BY <3>1, <3>2
  <2> QED
    BY <1>2, <2>2, <2>3 DEF WholeListInv
<1> QED
  BY <1>0, <1>3, <1>4, MutatorMoveOnList

(***************************************************************************)
(* The sweep unlinks what it drops and nothing else.                       *)
(***************************************************************************)
LEMMA CollectorKeepsWholeList ==
  ASSUME NEW c \in Procs, WholeListInv(c), ListInv(c)',
         CycleStep(c) \/ ForceCollect(c) \/ BackgroundStep(c)
  PROVE  WholeListInv(c)'
<1> DEFINE l == local[c]
<1>0. /\ TypeOK /\ TypeOK' /\ MarksAsCollector(c) /\ l \in Locals
      /\ AllocationListSound /\ NoNodeTwice /\ RootInv
      /\ SweepsTheList(c) /\ SweepsInPhase(c) /\ SweepsFromTheHead(c)
  BY LocalType DEF WholeListInv, ListInv, BusyInv
<1>1. Others(c)
  BY <1>0, MarkStepCounts, ScanStepCounts, ControlStepCounts
  DEF CycleStep, BusyStep
<1>2. \A p \in Procs \ {c} : ~ Allocates(p)'
  BY <1>1 DEF Others, WholeListInv, Allocates
<1>3. CASE SweepFree(c)
  <2>1. /\ pc[c] = "sweep_free"
        /\ Unlink(l.prev, l.following)
        /\ local'[c] = [l EXCEPT !.freed = @ + 1, !.current = l.following]
    BY <1>0, <1>3, GotoMoves, SetLocalMoves DEF SweepFree
  <2>2. local'[c].current = l.following /\ local'[c].prev = l.prev
    BY <1>0, <2>1 DEF Locals
  <2>3. SweepsFromTheHead(c)'
    BY <2>1, <2>2 DEF SweepsFromTheHead, Unlink
  <2>4. l.prev # Null \/ l.current = head
    BY <1>0, <2>1 DEF SweepsFromTheHead, WalkLabel
  <2>5. InList' = InList \ {l.current} /\ Live' = Live \ {l.current}
    BY <1>0, <1>3, <2>4, SweepFreeKeepsList
  <2>6. NoLostAllocation'
    BY <2>5 DEF WholeListInv, NoLostAllocation
  <2> QED
    BY <1>2, <2>3, <2>6 DEF WholeListInv
<1>4. CASE ~ SweepFree(c)
  <2>1. Frame
    BY <1>0, <1>4, MarkStepIsQuiet, ScanStepIsQuiet, ControlStepIsQuiet
    DEF CycleStep, SweepStep, QuietMove
  <2>2. NoLostAllocation'
    BY <2>1 DEF Frame, WholeListInv, NoLostAllocation, InList, Live
  <2>3. SweepsFromTheHead(c)'
    <3>1. CASE OffSweep(c)
      BY <3>1 DEF OffSweep, SweepsFromTheHead, WalkLabel, SweepLabel
    <3>2. CASE SweepLoadHead(c)
      <4>1. local'[c] = [l EXCEPT !.current = head] /\ head' = head
        BY <1>0, <3>2, SetLocalMoves DEF SweepLoadHead
      <4>2. local'[c].current = head
        BY <1>0, <4>1 DEF Locals
      <4> QED
        BY <4>1, <4>2 DEF SweepsFromTheHead
    <3>3. CASE SweepColor(c)
      <4>1. /\ pc[c] = "sweep" /\ head' = head
            /\ local'[c] = [l EXCEPT !.following = next[l.current]]
        BY <1>0, <3>3, SetLocalMoves DEF SweepColor
      <4>2. local'[c].current = l.current /\ local'[c].prev = l.prev
        BY <1>0, <4>1 DEF Locals
      <4> QED
        BY <1>0, <4>1, <4>2 DEF SweepsFromTheHead, WalkLabel
    <3>4. CASE SweepRoot(c)
      BY <1>0, <3>4 DEF SweepRoot, Goto, SweepsFromTheHead, WalkLabel
    <3>5. CASE SweepKeep(c)
      <4>1. /\ pc[c] = "sweep_keep"
            /\ local'[c] = [l EXCEPT !.prev = l.current,
                                     !.current = l.following]
        BY <1>0, <3>5, GotoMoves, SetLocalMoves DEF SweepKeep
      <4>2. local'[c].prev = l.current /\ l.current # Null
        BY <1>0, <4>1 DEF Locals, SweepsTheList, WalkLabel
      <4> QED
        BY <4>2 DEF SweepsFromTheHead
    <3>6. CASE \/ StartSweeping(c) \/ SweepSubtract(c) \/ FinishSweep(c)
               \/ UpdateThreshold(c) \/ FinishGc(c)
      <4>1. pc'[c] \in {"sweep_head", "finish_sweep", "threshold", "finish",
                        "bg_enter", "ready"}
        BY <1>0, <3>6, GotoMoves DEF StartSweeping, SweepSubtract,
           FinishSweep, UpdateThreshold, FinishGc, CollectorHome
      <4> QED
        BY <4>1 DEF SweepsFromTheHead, WalkLabel
    <3> QED
      BY <1>0, <1>4, <3>1, <3>2, <3>3, <3>4, <3>5, <3>6, MarkStepIsOffSweep,
         CollectorIsOffSweep DEF CycleStep, SweepStep
  <2> QED
    BY <1>2, <2>2, <2>3 DEF WholeListInv
<1> QED
  BY <1>3, <1>4

(***************************************************************************)
(* Natural numbers are well ordered: induction by a least counterexample.  *)
(***************************************************************************)
LEMMA LeastNatural ==
  ASSUME NEW T, T \subseteq Nat, T # {}
  PROVE  \E n \in T : \A m \in T : n <= m
<1> DEFINE R == OpToRel(<, Nat)
<1>1. IsWellFoundedOn(R, Nat)
  BY NatLessThanWellFounded
<1>2. \A m, n \in Nat : m < n => <<m, n>> \in R
  BY DEF OpToRel
<1> HIDE DEF R
<1>3. PICK n \in T : \A m \in T : ~ (<<m, n>> \in R)
  BY <1>1, WFMin
<1>4. \A m \in T : m \in Nat /\ n \in Nat /\ ~ (m < n)
  BY <1>2, <1>3
<1>5. \A m \in T : n <= m
  BY <1>4
<1> QED
  BY <1>5

(***************************************************************************)
(* The list starts with every box that was built.                          *)
(***************************************************************************)
LEMMA InitWholeListInv ==
  ASSUME NEW c \in Procs, SoleCollector(c), Init
  PROVE  WholeListInv(c)
<1>0. ListInv(c) /\ TypeOK
  BY InitListInv, InitTypeOK
<1>1. \A p \in Procs : ~ Allocates(p)
  BY DEF Init, Allocates, NoLocals
<1>2. SweepsFromTheHead(c)
  BY DEF Init, SweepsFromTheHead, WalkLabel
<1>3. Live = BuiltObjects
  BY InitNext DEF Init, Live
<1>4. NoLostAllocation
  <2> DEFINE T == {i \in 1..Len(Built) : Built[i] \notin InList}
  <2> SUFFICES T = {}
    BY <1>3 DEF NoLostAllocation, BuiltObjects
  <2> SUFFICES ASSUME T # {} PROVE FALSE
    OBVIOUS
  <2>1. T \subseteq Nat /\ Len(Built) \in Nat
    BY InitNext
  <2>2. PICK i \in T : \A j \in T : i <= j
    BY <2>1, LeastNatural
  <2>3. i \in 1..Len(Built) /\ Built[i] \notin InList /\ Built[i] \in Objects
    BY InitNext
  <2>4. ListClosed(InList)
    BY <1>0, InListIsLeast
  <2>5. CASE i = 1
    <3>1. head = Built[1]
      BY <2>3, <2>5, InitNext
    <3> QED
      BY <2>3, <2>4, <2>5, <3>1, HeapAssumption DEF ListClosed
  <2>6. CASE i # 1
    <3>1. /\ i - 1 \in 1..Len(Built) /\ i - 1 \in 1..(Len(Built) - 1)
          /\ ~ (i <= i - 1) /\ (i - 1) + 1 = i
      BY <2>1, <2>3, <2>6
    <3>2. Built[i - 1] \in InList
      BY <2>2, <3>1
    <3>3. next[Built[i - 1]] = Built[i]
      BY <3>1, InitNext
    <3> QED
      BY <2>3, <2>4, <3>2, <3>3, HeapAssumption DEF ListClosed
  <2> QED
    BY <2>5, <2>6
<1> QED
  BY <1>0, <1>1, <1>2, <1>4 DEF WholeListInv

(***************************************************************************)
(* Every step keeps it whole.                                              *)
(***************************************************************************)
LEMMA NextWholeListInv ==
  ASSUME NEW c \in Procs, SoleCollector(c), SoleAllocator(c),
         WholeListInv(c), [Next]_vars
  PROVE  WholeListInv(c)'
<1>0. ListInv(c) /\ ListInv(c)' /\ TypeOK
  BY NextListInv DEF WholeListInv, ListInv, RootInv
<1>1. ASSUME NEW t \in Threads, StartBackgroundCollection(t)
      PROVE  WholeListInv(c)'
  <2>1. /\ c \in Background
        /\ pc' = [pc EXCEPT ![c] = "bg_enter"]
        /\ UNCHANGED <<head, next, mem, local>>
    BY <1>1 DEF StartBackgroundCollection, SoleCollector
  <2>2. pc'[c] = "bg_enter"
    BY <1>0, <2>1 DEF TypeOK
  <2> QED
    BY <1>0, <2>1, <2>2 DEF WholeListInv, Allocates, SweepsFromTheHead,
       WalkLabel, NoLostAllocation, InList, Live
<1>2. ASSUME NEW t \in Threads,
             MutatorCall(t) \/ CollectorCall(t) \/ ThreadStep(t)
      PROVE  WholeListInv(c)'
  <2>1. CASE t = c
    <3>1. \/ MutatorMove(c) \/ CycleStep(c) \/ ForceCollect(c)
          \/ StartBackgroundCollection(c)
      BY <1>2, <2>1 DEF MutatorMove, CollectorCall, ThreadStep
    <3> QED
      BY <1>0, <1>1, <2>1, <3>1, MutatorMoveKeepsWholeList,
         CollectorKeepsWholeList
  <2>2. CASE t # c
    <3>1. t \in Procs \ {c}
      BY <2>2 DEF Procs
    <3>2. MutatorMove(t) \/ StartBackgroundCollection(t)
      BY <1>0, <1>2, <2>2, <3>1, MutatorsOnlyMutate DEF ListInv
    <3> QED
      BY <1>0, <1>1, <3>2, MutatorMoveKeepsWholeList
  <2> QED
    BY <2>1, <2>2
<1>3. ASSUME NEW b \in Background, BackgroundThread(b) PROVE WholeListInv(c)'
  <2>1. b = c
    BY DEF SoleCollector
  <2> QED
    BY <1>0, <1>3, <2>1, CollectorKeepsWholeList DEF BackgroundThread
<1>4. CASE UNCHANGED vars
  BY <1>0, <1>4 DEF vars, WholeListInv, Allocates, SweepsFromTheHead,
     NoLostAllocation, InList, Live
<1> QED
  BY <1>2, <1>3, <1>4 DEF Next

(***************************************************************************)
(* Where only the thread that collects allocates, every live box stays in  *)
(* the list, so do_sweep and Heap::drop find it: do_sweep, which unlinks   *)
(* the head with a plain store, unlinks the node it drops and no other.    *)
(***************************************************************************)
THEOREM NoPushIsLost ==
  ASSUME NEW c \in Procs, SoleCollector(c), SoleAllocator(c)
  PROVE  Spec => []NoLostAllocation
<1>1. Init => WholeListInv(c)
  BY InitWholeListInv
<1>2. WholeListInv(c) /\ [Next]_vars => WholeListInv(c)'
  BY NextWholeListInv
<1>3. WholeListInv(c) => NoLostAllocation
  BY DEF WholeListInv
<1> QED
  BY <1>1, <1>2, <1>3, PTL DEF Spec

-----------------------------------------------------------------------------

(***************************************************************************)
(* What the one collector has dropped and not yet subtracted.              *)
(***************************************************************************)
Dropped(c) == IF pc[c] \in SweepLabel THEN local[c].freed ELSE 0

BytesCount(c) == bytes_allocated + Cardinality(Unadded)
                   = Cardinality(Live) + Dropped(c)

BytesInv(c) == ListInv(c) /\ BytesCount(c)

(***************************************************************************)
(* The numbers up to n are n.                                              *)
(***************************************************************************)
LEMMA CountTo ==
  ASSUME NEW n \in Nat
  PROVE  IsFiniteSet(1..n) /\ Cardinality(1..n) = n
BY FS_Interval

(***************************************************************************)
(* So are the pairs of one thing with each of them.                        *)
(***************************************************************************)
LEMMA CountPairs ==
  ASSUME NEW c, NEW n \in Nat
  PROVE  Cardinality({c} \X (1..n)) = n
<1>1. IsFiniteSet({c}) /\ Cardinality({c}) = 1
  BY FS_Singleton
<1>2. IsFiniteSet(1..n) /\ Cardinality(1..n) = n
  BY CountTo
<1>3. Cardinality({c} \X (1..n)) = 1 * n
  BY <1>1, <1>2, FS_Product
<1> QED
  BY <1>3

(***************************************************************************)
(* The invariant says what BytesExact says of the one collector.           *)
(***************************************************************************)
LEMMA BytesInvIsExact ==
  ASSUME NEW c \in Procs, BytesInv(c)
  PROVE  BytesExact
<1>1. \A p \in Procs \ {c} : pc[p] \notin SweepLabel
  BY DEF BytesInv, ListInv, OnlyMutates, CollectingLabel
<1>2. local[c].freed \in Nat
  <2>1. local[c] \in Locals
    BY LocalType DEF BytesInv, ListInv, RootInv
  <2> QED
    BY <2>1 DEF Locals
<1>3. Cardinality(Unsubtracted) = Dropped(c)
  <2>1. CASE pc[c] \in SweepLabel
    <3>1. {q \in Procs : pc[q] \in SweepLabel} = {c}
      BY <1>1, <2>1
    <3>2. Unsubtracted = {c} \X (1..local[c].freed)
      BY <3>1 DEF Unsubtracted
    <3> QED
      BY <1>2, <2>1, <3>2, CountPairs DEF Dropped
  <2>2. CASE pc[c] \notin SweepLabel
    <3>1. {q \in Procs : pc[q] \in SweepLabel} = {}
      BY <1>1, <2>2
    <3>2. Unsubtracted = {}
      BY <3>1 DEF Unsubtracted
    <3> QED
      BY <2>2, <3>2, FS_EmptySet DEF Dropped
  <2> QED
    BY <2>1, <2>2
<1> QED
  BY <1>3 DEF BytesInv, BytesCount, BytesExact

(***************************************************************************)
(* There are finitely many live boxes and additions under way.             *)
(***************************************************************************)
LEMMA CountsAreFinite ==
  /\ IsFiniteSet(Live) /\ IsFiniteSet(Unadded)
  /\ Cardinality(Live) \in Nat /\ Cardinality(Unadded) \in Nat
BY HeapAssumption, FS_Subset, FS_CardinalityType DEF Live, Unadded

(***************************************************************************)
(* Steps that count nothing.                                               *)
(***************************************************************************)
LEMMA NothingToCount ==
  ASSUME NEW c, BytesCount(c), bytes_allocated' = bytes_allocated,
         Live' = Live, Unadded' = Unadded, Dropped(c)' = Dropped(c)
  PROVE  BytesCount(c)'
BY DEF BytesCount

(***************************************************************************)
(* A push makes a box live and its addition outstanding; the return of     *)
(* allocate adds it.                                                       *)
(***************************************************************************)
LEMMA MutatorMoveCounts ==
  ASSUME NEW c \in Procs, BytesInv(c), TypeOK', NEW t \in Threads,
         MutatorMove(t)
  PROVE  BytesCount(c)'
<1>0. /\ t \in Procs /\ TypeOK /\ MarksAsCollector(t) /\ BytesCount(c)
      /\ AllocationListSound /\ NoNodeTwice /\ RootInv
      /\ Threads \subseteq Procs
  BY DEF Procs, BytesInv, ListInv, BusyInv
<1>1. Others(t)
  BY <1>0, MutatorCallCounts, MutatorStepCounts, MarkStepCounts,
     ControlStepCounts DEF MutatorMove, BusyStep
<1>2. Dropped(c)' = Dropped(c)
  <2>1. CASE t = c
    BY <1>0, <2>1, MutatorMoveIsOffSweep DEF OffSweep, Dropped
  <2>2. CASE t # c
    BY <1>1, <2>2 DEF Others, Dropped
  <2> QED
    BY <2>1, <2>2
<1>3. /\ Dropped(c) \in Nat /\ bytes_allocated \in Int
  <2>1. local[c] \in Locals
    BY <1>0, LocalType
  <2> QED
    BY <1>0, <2>1 DEF Dropped, TypeOK, Locals
<1>4. CASE AllocatePublish(t)
  <2>1. /\ pc[t] = "alloc_cas" /\ pc'[t] = "alloc_add"
        /\ bytes_allocated' = bytes_allocated
    BY <1>0, <1>4, GotoMoves DEF AllocatePublish
  <2>2. Unadded' = Unadded \cup {t} /\ t \notin Unadded
    BY <1>0, <1>1, <2>1 DEF Others, Unadded
  <2>3. PICK o \in Objects : o \notin Live /\ Live' = Live \cup {o}
    BY <1>0, <1>4, PushKeepsList
  <2>4. /\ Cardinality(Live') = Cardinality(Live) + 1
        /\ Cardinality(Unadded') = Cardinality(Unadded) + 1
    BY <2>2, <2>3, CountsAreFinite, FS_AddElement
  <2> QED
    BY <1>0, <1>2, <1>3, <2>1, <2>4, CountsAreFinite DEF BytesCount
<1>5. CASE AllocateReturn(t)
  <2>1. /\ pc[t] = "alloc_add" /\ pc'[t] = "ready"
        /\ bytes_allocated' = bytes_allocated + 1 /\ mem' = mem
    BY <1>0, <1>5, GotoMoves DEF AllocateReturn
  <2>2. Unadded' = Unadded \ {t} /\ t \in Unadded
    BY <1>0, <1>1, <2>1 DEF Others, Unadded
  <2>3. Cardinality(Unadded') = Cardinality(Unadded) - 1
    BY <2>2, CountsAreFinite, FS_RemoveElement
  <2>4. Live' = Live
    BY <2>1 DEF Live
  <2> QED
    BY <1>0, <1>2, <1>3, <2>1, <2>3, <2>4, CountsAreFinite DEF BytesCount
<1>6. CASE ~ AllocatePublish(t) /\ ~ AllocateReturn(t)
  <2>1. Live' = Live
    BY <1>0, <1>6, MutatorMoveOnList DEF SameList
  <2>2. bytes_allocated' = bytes_allocated
    <3>1. CASE MutatorCall(t) \/ MutatorStep(t)
      BY <1>6, <3>1 DEF MutatorCall, MutatorStep, Allocate, CloneRoot,
         DropRoot, CellSet, CellGet, CountLoadHead, BusyCheck,
         DecrementBusyMarking, AllocateBox, AllocateLoadHead, AllocateRetry,
         CellShade, CellMergeWork, CellStore, RootPointer, ForgetPointer,
         CountNode
    <3>2. CASE \/ MarkStep(t) \/ StopBackgroundCollection(t)
               \/ JoinBackgroundThread(t)
      BY <3>2 DEF MarkStep, MarkPop, MarkSteal, TraceField, MarkBlack,
         MarkNoWork, MarkBudgetSpent, StopBackgroundCollection,
         JoinBackgroundThread
    <3> QED
      BY <3>1, <3>2 DEF MutatorMove
  <2>3. pc[t] # "alloc_add" /\ pc'[t] # "alloc_add"
    <3>1. CASE MutatorCall(t)
      <4>1. /\ pc[t] = "ready"
            /\ pc'[t] \in {"ready", "busy_check", "alloc_box", "rooting",
                            "count"}
        BY <1>0, <3>1, GotoMoves DEF MutatorCall, Allocate, CloneRoot,
           DropRoot, CellSet, CellGet, CountLoadHead
      <4> QED
        BY <4>1
    <3>2. CASE BusyCheck(t) \/ CountNode(t)
      BY <1>0, <3>2 DEF BusyCheck, CountNode, TypeOK
    <3>3. CASE \/ DecrementBusyMarking(t) \/ AllocateBox(t)
               \/ AllocateLoadHead(t) \/ AllocateRetry(t) \/ CellShade(t)
               \/ CellMergeWork(t) \/ CellStore(t) \/ RootPointer(t)
               \/ ForgetPointer(t)
      BY <1>0, <3>3, GotoMoves DEF DecrementBusyMarking, AfterBusy,
         AllocateBox, AllocateLoadHead, AllocateRetry, CellShade,
         CellMergeWork, CellStore, RootPointer, ForgetPointer
    <3>4. CASE MarkStep(t)
      <4>1. /\ pc[t] \in {"mark", "trace"}
            /\ pc'[t] \in {"mark", "trace", "busy_dec", "busy_test",
                            "bg_check"}
        BY <1>0, <3>4, GotoMoves DEF MarkStep, MarkPop, MarkSteal,
           TraceField, MarkBlack, MarkNoWork, MarkBudgetSpent, AfterMarking
      <4> QED
        BY <4>1
    <3>5. CASE StopBackgroundCollection(t) \/ JoinBackgroundThread(t)
      BY <1>0, <3>5, GotoMoves
      DEF StopBackgroundCollection, JoinBackgroundThread
    <3> QED
      BY <1>6, <3>1, <3>2, <3>3, <3>4, <3>5 DEF MutatorMove, MutatorStep
  <2>4. Unadded' = Unadded
    BY <1>0, <1>1, <2>3 DEF Others, Unadded
  <2> QED
    BY <1>0, <1>2, <2>1, <2>2, <2>4, NothingToCount
<1> QED
  BY <1>4, <1>5, <1>6

(***************************************************************************)
(* A drop is counted by the sweep, and subtracted when it ends.            *)
(***************************************************************************)
LEMMA CollectorCounts ==
  ASSUME NEW c \in Procs, BytesInv(c), TypeOK',
         CycleStep(c) \/ ForceCollect(c) \/ BackgroundStep(c)
  PROVE  BytesCount(c)'
<1> DEFINE l == local[c]
<1>0. /\ TypeOK /\ MarksAsCollector(c) /\ l \in Locals /\ BytesCount(c)
      /\ AllocationListSound /\ NoNodeTwice /\ RootInv
      /\ SweepsTheList(c) /\ SweepsInPhase(c)
      /\ Threads \subseteq Procs
  BY LocalType DEF BytesInv, ListInv, BusyInv, Procs
<1>1. Others(c)
  BY <1>0, MarkStepCounts, ScanStepCounts, ControlStepCounts
  DEF CycleStep, BusyStep
<1>2. l.freed \in Nat /\ bytes_allocated \in Int
  BY <1>0 DEF Locals, TypeOK
<1>3. CASE SweepFree(c)
  <2>1. /\ pc[c] = "sweep_free" /\ pc'[c] = "sweep"
        /\ bytes_allocated' = bytes_allocated
        /\ local'[c] = [l EXCEPT !.freed = @ + 1, !.current = l.following]
    BY <1>0, <1>3, GotoMoves, SetLocalMoves DEF SweepFree
  <2>2. local'[c].freed = l.freed + 1
    BY <1>0, <2>1 DEF Locals
  <2>3. Unadded' = Unadded
    BY <1>0, <1>1, <2>1 DEF Others, Unadded
  <2>4. l.current \in Live /\ Live' = Live \ {l.current}
    BY <1>0, <1>3, SweepFreeKeepsList
  <2>5. Cardinality(Live') = Cardinality(Live) - 1
    BY <2>4, CountsAreFinite, FS_RemoveElement
  <2>6. Dropped(c) = l.freed /\ Dropped(c)' = l.freed + 1
    BY <2>1, <2>2 DEF Dropped, SweepLabel
  <2> QED
    <3>1. bytes_allocated + Cardinality(Unadded) = Cardinality(Live) + l.freed
      BY <1>0, <2>6 DEF BytesCount
    <3>2. bytes_allocated + Cardinality(Unadded)
            = (Cardinality(Live) - 1) + (l.freed + 1)
      BY <1>2, <3>1, CountsAreFinite
    <3> QED
      BY <2>1, <2>3, <2>5, <2>6, <3>2 DEF BytesCount
<1>4. CASE SweepSubtract(c)
  <2>1. /\ pc[c] = "sweep" /\ pc'[c] = "finish_sweep"
        /\ bytes_allocated' = bytes_allocated - l.freed /\ mem' = mem
    BY <1>0, <1>4, GotoMoves DEF SweepSubtract
  <2>2. Unadded' = Unadded /\ Live' = Live
    BY <1>0, <1>1, <2>1 DEF Others, Unadded, Live
  <2>3. Dropped(c) = l.freed /\ Dropped(c)' = 0
    BY <2>1 DEF Dropped, SweepLabel
  <2> QED
    BY <1>0, <1>2, <2>1, <2>2, <2>3, CountsAreFinite DEF BytesCount
<1>5. CASE ~ SweepFree(c) /\ ~ SweepSubtract(c)
  <2>1. Frame
    BY <1>0, <1>5, MarkStepIsQuiet, ScanStepIsQuiet, ControlStepIsQuiet
    DEF CycleStep, SweepStep, QuietMove
  <2>2. Live' = Live
    BY <2>1 DEF Frame, Live
  <2>3. bytes_allocated' = bytes_allocated
    BY <1>5 DEF CycleStep, MarkStep, SweepStep, TryStartMarking,
       RootsLoadHead, RootsVisit, RootsMerge, MarkPop, MarkSteal, TraceField,
       MarkBlack, MarkNoWork, MarkBudgetSpent, BusyTest, StartSweeping,
       SweepLoadHead, SweepColor, SweepRoot, SweepKeep, FinishSweep,
       UpdateThreshold, FinishGc, ForceCollect, BackgroundStep,
       BackgroundWait, BackgroundNotified, BackgroundTimeout,
       BackgroundCheck, BackgroundAbort
  <2>4. pc[c] # "alloc_add" /\ pc'[c] # "alloc_add" /\ Dropped(c)' = Dropped(c)
    <3>1. CASE StartSweeping(c)
      <4>1. /\ pc[c] = "sweep_start" /\ pc'[c] = "sweep_head"
            /\ local' = local
        BY <1>0, <3>1, GotoMoves DEF StartSweeping
      <4>2. l.freed = 0
        BY <1>0, <4>1 DEF SweepsTheList, WalkLabel, SweptLabel
      <4> QED
        BY <4>1, <4>2 DEF Dropped, SweepLabel
    <3>2. CASE \/ SweepLoadHead(c) \/ SweepColor(c) \/ SweepRoot(c)
               \/ SweepKeep(c)
      <4>1. pc[c] \in SweepLabel /\ pc'[c] \in SweepLabel
        BY <1>0, <3>2, GotoMoves DEF SweepLoadHead, SweepColor, SweepRoot,
           SweepKeep, SweepLabel
      <4>2. /\ \A o : [l EXCEPT !.current = o].freed = l.freed
            /\ \A o : [l EXCEPT !.following = o].freed = l.freed
            /\ \A o, q : [l EXCEPT !.prev = o, !.current = q].freed = l.freed
        BY <1>0 DEF Locals
      <4>3. local'[c].freed = l.freed
        <5>1. CASE SweepLoadHead(c)
          BY <1>0, <4>2, <5>1, SetLocalMoves DEF SweepLoadHead
        <5>2. CASE SweepColor(c)
          BY <1>0, <4>2, <5>2, SetLocalMoves DEF SweepColor
        <5>3. CASE SweepKeep(c)
          <6>1. local'[c] = [l EXCEPT !.prev = l.current,
                                      !.current = l.following]
            BY <1>0, <5>3, SetLocalMoves DEF SweepKeep
          <6> QED
            BY <4>2, <6>1
        <5>4. CASE SweepRoot(c)
          BY <5>4 DEF SweepRoot
        <5> QED
          BY <3>2, <5>1, <5>2, <5>3, <5>4
      <4> QED
        BY <4>1, <4>3 DEF Dropped, SweepLabel
    <3>3. CASE FinishSweep(c) \/ UpdateThreshold(c) \/ FinishGc(c)
      <4>1. /\ pc[c] \in {"finish_sweep", "threshold", "finish"}
            /\ pc'[c] \in {"threshold", "finish", "bg_enter", "ready"}
        BY <1>0, <3>3, GotoMoves DEF FinishSweep, UpdateThreshold, FinishGc,
           CollectorHome
      <4> QED
        BY <4>1 DEF Dropped, SweepLabel
    <3>4. CASE MarkStep(c)
      <4>1. /\ pc[c] \in {"mark", "trace"}
            /\ pc'[c] \in {"mark", "trace", "busy_dec", "busy_test",
                            "bg_check"}
        BY <1>0, <3>4, GotoMoves DEF MarkStep, MarkPop, MarkSteal,
           TraceField, MarkBlack, MarkNoWork, MarkBudgetSpent, AfterMarking
      <4> QED
        BY <4>1 DEF Dropped, SweepLabel
    <3>5. CASE \/ TryStartMarking(c) \/ RootsLoadHead(c) \/ RootsVisit(c)
               \/ RootsMerge(c) \/ BusyTest(c) \/ ForceCollect(c)
               \/ BackgroundStep(c)
      <4>1. pc[c] \in {"try_mark", "roots_head", "roots", "busy_test",
                       "ready", "bg_enter", "bg_sleep", "bg_check",
                       "bg_abort"}
        BY <3>5 DEF TryStartMarking, RootsLoadHead, RootsVisit, RootsMerge,
           BusyTest, ForceCollect, BackgroundStep, BackgroundWait,
           BackgroundNotified, BackgroundTimeout, BackgroundCheck,
           BackgroundAbort, Goto
      <4>2. QuietMove(c)
        BY <1>0, <3>5, ScanStepIsQuiet, ControlStepIsQuiet
      <4>3. ~ Allocates(c)
        BY <1>0, <4>1, NotAllocating DEF AssistLabel, PushLabel
      <4>4. pc'[c] \notin PushLabel
        BY <4>2, <4>3 DEF QuietMove, AllocateGoesOn, WalkGoesOn
      <4>5. OffSweep(c)
        BY <1>0, <3>5, CollectorIsOffSweep
      <4> QED
        BY <4>1, <4>4, <4>5 DEF OffSweep, Dropped, PushLabel
    <3> QED
      BY <1>5, <3>1, <3>2, <3>3, <3>4, <3>5 DEF CycleStep, SweepStep
  <2>5. Unadded' = Unadded
    BY <1>0, <1>1, <2>4 DEF Others, Unadded
  <2> QED
    BY <1>0, <2>2, <2>3, <2>4, <2>5, NothingToCount
<1> QED
  BY <1>3, <1>4, <1>5

(***************************************************************************)
(* Initially bytes_allocated counts what was built.                        *)
(***************************************************************************)
LEMMA InitBytesInv ==
  ASSUME NEW c \in Procs, SoleCollector(c), Init
  PROVE  BytesInv(c)
<1>0. ListInv(c)
  BY InitListInv
<1>1. /\ bytes_allocated = Len(Built) /\ Unadded = {} /\ Dropped(c) = 0
  <2>1. pc[c] \notin SweepLabel /\ \A t \in Threads : pc[t] = "ready"
    BY DEF Init, SweepLabel, Procs
  <2> QED
    BY <2>1 DEF Init, Unadded, Dropped
<1>2. Cardinality(Unadded) = 0
  BY <1>1, FS_EmptySet
<1>3. Live = BuiltObjects
  BY InitNext DEF Init, Live
<1>4. Cardinality(BuiltObjects) = Len(Built)
  <2>1. /\ Len(Built) \in Nat /\ Built \in Seq(Objects)
        /\ \A i, j \in 1..Len(Built) : Built[i] = Built[j] => i = j
        /\ \A i \in 1..Len(Built) : Built[i] \in BuiltObjects
    BY InitNext, HeapAssumption
  <2> DEFINE f == [i \in 1..Len(Built) |-> Built[i]]
  <2>2. f \in Bijection(1..Len(Built), BuiltObjects)
    BY <2>1 DEF Bijection, Injection, Surjection, IsInjective, BuiltObjects
  <2>3. IsFiniteSet(1..Len(Built)) /\ Cardinality(1..Len(Built)) = Len(Built)
    BY <2>1, CountTo
  <2>4. ExistsBijection(1..Len(Built), BuiltObjects)
    BY <2>2 DEF ExistsBijection
  <2> QED
    BY <2>3, <2>4, FS_Bijection
<1>5. Len(Built) \in Nat
  BY InitNext
<1> QED
  BY <1>0, <1>1, <1>2, <1>3, <1>4, <1>5 DEF BytesInv, BytesCount

(***************************************************************************)
(* Every step keeps the balance.                                           *)
(***************************************************************************)
LEMMA NextBytesInv ==
  ASSUME NEW c \in Procs, SoleCollector(c), BytesInv(c), [Next]_vars
  PROVE  BytesInv(c)'
<1>0. ListInv(c) /\ ListInv(c)' /\ TypeOK /\ TypeOK' /\ BytesCount(c)
  BY NextListInv DEF BytesInv, ListInv, RootInv
<1>1. ASSUME NEW t \in Threads, StartBackgroundCollection(t)
      PROVE  BytesCount(c)'
  <2>1. /\ c \in Background /\ bg_thread.counter + 1 = c
        /\ pc' = [pc EXCEPT ![c] = "bg_enter"]
        /\ UNCHANGED <<mem, bytes_allocated, local>>
    BY <1>1 DEF StartBackgroundCollection, SoleCollector
  <2>2. pc'[c] = "bg_enter" /\ \A q \in Procs \ {c} : pc'[q] = pc[q]
    BY <1>0, <2>1 DEF TypeOK
  <2>3. pc[c] = "unborn"
    <3>1. bg_thread.counter \in Nat
      BY <1>0 DEF TypeOK
    <3> QED
      BY <1>0, <2>1, <3>1 DEF ListInv, BusyInv, UnbornUntilStarted
  <2>4. Live' = Live /\ Unadded' = Unadded /\ Dropped(c)' = Dropped(c)
    BY <2>1, <2>2, <2>3 DEF Live, Unadded, Dropped, SweepLabel, Procs
  <2> QED
    BY <1>0, <2>1, <2>4, NothingToCount
<1>2. ASSUME NEW t \in Threads,
             MutatorCall(t) \/ CollectorCall(t) \/ ThreadStep(t)
      PROVE  BytesCount(c)'
  <2>1. CASE t = c
    <3>1. \/ MutatorMove(c) \/ CycleStep(c) \/ ForceCollect(c)
          \/ StartBackgroundCollection(c)
      BY <1>2, <2>1 DEF MutatorMove, CollectorCall, ThreadStep
    <3> QED
      BY <1>0, <1>1, <2>1, <3>1, MutatorMoveCounts, CollectorCounts
  <2>2. CASE t # c
    <3>1. t \in Procs \ {c}
      BY <2>2 DEF Procs
    <3>2. MutatorMove(t) \/ StartBackgroundCollection(t)
      BY <1>0, <1>2, <2>2, <3>1, MutatorsOnlyMutate DEF ListInv
    <3> QED
      BY <1>0, <1>1, <3>2, MutatorMoveCounts
  <2> QED
    BY <2>1, <2>2
<1>3. ASSUME NEW b \in Background, BackgroundThread(b) PROVE BytesCount(c)'
  <2>1. b = c
    BY DEF SoleCollector
  <2> QED
    BY <1>0, <1>3, <2>1, CollectorCounts DEF BackgroundThread
<1>4. CASE UNCHANGED vars
  <2>1. /\ bytes_allocated' = bytes_allocated /\ Live' = Live
        /\ Unadded' = Unadded /\ Dropped(c)' = Dropped(c)
    BY <1>4 DEF vars, Live, Unadded, Dropped
  <2> QED
    BY <1>0, <2>1, NothingToCount DEF BytesInv
<1> QED
  BY <1>0, <1>2, <1>3, <1>4 DEF Next, BytesInv

(***************************************************************************)
(* With one collector, bytes_allocated is exact whatever threads allocate  *)
(* while it sweeps: each push is added once, each dropped box subtracted   *)
(* once, because no box is dropped twice and the count of the freed starts *)
(* at zero in every cycle.                                                 *)
(***************************************************************************)
THEOREM BytesCorrect ==
  ASSUME NEW c \in Procs, SoleCollector(c)
  PROVE  Spec => []BytesExact
<1>1. Init => BytesInv(c)
  BY InitBytesInv
<1>2. BytesInv(c) /\ [Next]_vars => BytesInv(c)'
  BY NextBytesInv
<1>3. BytesInv(c) => BytesExact
  BY BytesInvIsExact
<1> QED
  BY <1>1, <1>2, <1>3, PTL DEF Spec

=============================================================================
