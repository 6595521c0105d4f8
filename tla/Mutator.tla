------------------------------- MODULE Mutator ------------------------------
(***************************************************************************)
(* What application threads do to the heap: Heap::allocate, GcRoot::clone  *)
(* and drop, GcCell::set with its write barrier, GcCell::get followed by   *)
(* GcPtr::root, and Heap::allocation_count.                                *)
(*                                                                         *)
(* A thread keeps the GcRoots an ongoing call borrows, as Rust makes it.   *)
(***************************************************************************)
EXTENDS HeapState

\* Variant for a mutation test: the counter is not lowered again.
BusyCheckLeaks(t) ==
  /\ Goto(t, "busy_check",
          CASE ~ is_marking -> IF local[t].op = "allocate" THEN "alloc_box"
                                                           ELSE "store"
            [] OTHER -> IF local[t].op = "allocate" THEN "mark" ELSE "shade")
  /\ UNCHANGED <<phase, listVars, objectVars, gray_queue, n_busy_marking,
                 counterVars, bg_thread, handles, local>>

(***************************************************************************)
(* check_is_marking_and_increment_busy: the counter is raised by the step  *)
(* that starts the call, the phase is loaded in a step of its own, and the *)
(* counter is lowered again when no marking is in progress.                *)
(***************************************************************************)
BusyCheck(t) ==
  /\ pc[t] = "busy_check"
  /\ \/ /\ is_marking /\ local[t].op = "allocate"
        /\ pc' = [pc EXCEPT ![t] = "mark"]
     \/ /\ is_marking /\ local[t].op = "set"
        /\ pc' = [pc EXCEPT ![t] = "shade"]
     \/ /\ ~ is_marking
        /\ pc' = [pc EXCEPT ![t] = "busy_dec"]
  /\ UNCHANGED <<phase, listVars, objectVars, gray_queue, n_busy_marking,
                 counterVars, bg_thread, handles, local>>

AfterBusy(op) == IF op = "allocate" THEN "alloc_box" ELSE "store"

DecrementBusyMarking(t) ==
  /\ Goto(t, "busy_dec", AfterBusy(local[t].op))
  /\ n_busy_marking' = n_busy_marking - 1
  /\ UNCHANGED <<phase, listVars, objectVars, gray_queue, counterVars,
                 bg_thread, handles, local>>

-----------------------------------------------------------------------------

(***************************************************************************)
(* Heap::allocate.  With a work budget the thread first assists marking.   *)
(***************************************************************************)
Allocate(t) ==
  /\ Calls[t] \cap {"allocate", "link"} # {}
  /\ \E o \in Objects :
       /\ mem[o] = "unborn"
       /\ mem' = [mem EXCEPT ![o] = "reserved"]
       /\ SetLocal(t, [local[t] EXCEPT !.op = "allocate", !.current = o])
  /\ \/ /\ AssistWorkBudget > 0
        /\ n_busy_marking' = n_busy_marking + 1
        /\ Goto(t, "ready", "busy_check")
     \/ /\ AssistWorkBudget = 0
        /\ UNCHANGED n_busy_marking
        /\ Goto(t, "ready", "alloc_box")
  /\ UNCHANGED <<phase, listVars, color, root_count, ref, gray_queue,
                 counterVars, bg_thread, handles>>

(***************************************************************************)
(* GcBox::new: a white box, rooted once, that nobody else knows of yet.    *)
(* The data may hold pointers to objects the thread owns GcRoots of.       *)
(***************************************************************************)
InitialData(t, o) ==
  IF "link" \in Calls[t] /\ o \notin NoTrace
  THEN [Fields -> HeldBy(t) \cup {Null}]
  ELSE {[f \in Fields |-> Null]}

AllocateBox(t) ==
  LET o == local[t].current
  IN  /\ Goto(t, "alloc_box", "alloc_load")
      /\ mem' = [mem EXCEPT ![o] = "boxed"]
      /\ color' = [color EXCEPT ![o] = "White"]
      /\ root_count' = [root_count EXCEPT ![o] = 1]
      /\ \E d \in InitialData(t, o) : ref' = [ref EXCEPT ![o] = d]
      /\ UNCHANGED <<phase, listVars, gray_queue, n_busy_marking, counterVars,
                     bg_thread, handles, local>>

AllocateLoadHead(t) ==
  /\ Goto(t, "alloc_load", "alloc_cas")
  /\ next' = [next EXCEPT ![local[t].current] = head]
  /\ UNCHANGED <<phase, head, objectVars, gray_queue, n_busy_marking,
                 counterVars, bg_thread, handles, local>>

\* Variant for a mutation test: the head is stored, not compared and swapped.
AllocateStoreHead(t) ==
  /\ Goto(t, "alloc_cas", "alloc_add")
  /\ head' = local[t].current
  /\ mem' = [mem EXCEPT ![local[t].current] = "live"]
  /\ UNCHANGED <<phase, next, color, root_count, ref, gray_queue,
                 n_busy_marking, counterVars, bg_thread, handles, local>>

AllocatePublish(t) ==
  LET o == local[t].current
  IN  /\ Goto(t, "alloc_cas", "alloc_add")
      /\ head = next[o]
      /\ head' = o
      /\ mem' = [mem EXCEPT ![o] = "live"]
      /\ UNCHANGED <<phase, next, color, root_count, ref, gray_queue,
                     n_busy_marking, counterVars, bg_thread, handles, local>>

AllocateRetry(t) ==
  /\ Goto(t, "alloc_cas", "alloc_load")
  /\ head # next[local[t].current]
  /\ UNCHANGED <<phase, listVars, objectVars, gray_queue, n_busy_marking,
                 counterVars, bg_thread, handles, local>>

AllocateReturn(t) ==
  LET o == local[t].current
  IN  /\ Goto(t, "alloc_add", "ready")
      /\ bytes_allocated' = bytes_allocated + 1
      /\ handles' = [handles EXCEPT ![t][o] = 1]
      /\ SetLocal(t, NoLocals)
      /\ UNCHANGED <<phase, listVars, objectVars, gray_queue, n_busy_marking,
                     current_threshold, bg_thread>>

-----------------------------------------------------------------------------

\* Variant for a mutation test: the clone is a plain copy.
CloneRootCopies(t) ==
  /\ pc[t] = "ready"
  /\ "clone" \in Calls[t]
  /\ \E o \in HeldBy(t), u \in Threads :
       /\ handles[u][o] < MaxHandles
       /\ handles' = [handles EXCEPT ![u][o] = @ + 1]
  /\ UNCHANGED <<phase, listVars, objectVars, gray_queue, n_busy_marking,
                 counterVars, bg_thread, pc, local>>

(***************************************************************************)
(* GcRoot::clone; the clone may be moved to another thread.                *)
(***************************************************************************)
CloneRoot(t) ==
  /\ pc[t] = "ready"
  /\ "clone" \in Calls[t]
  /\ \E o \in HeldBy(t), u \in Threads :
       /\ handles[u][o] < MaxHandles
       /\ handles' = [handles EXCEPT ![u][o] = @ + 1]
       /\ root_count' = [root_count EXCEPT ![o] = @ + 1]
  /\ UNCHANGED <<phase, listVars, color, ref, mem, gray_queue, n_busy_marking,
                 counterVars, bg_thread, pc, local>>

(***************************************************************************)
(* Drop for GcRoot.                                                        *)
(***************************************************************************)
DropRoot(t) ==
  /\ pc[t] = "ready"
  /\ "drop" \in Calls[t]
  /\ \E o \in HeldBy(t) :
       /\ handles' = [handles EXCEPT ![t][o] = @ - 1]
       /\ root_count' = [root_count EXCEPT ![o] = @ - 1]
  /\ UNCHANGED <<phase, listVars, color, ref, mem, gray_queue, n_busy_marking,
                 counterVars, bg_thread, pc, local>>

-----------------------------------------------------------------------------

(***************************************************************************)
(* GcCell::set on a field of an object the thread owns a GcRoot of.  The   *)
(* value is None, a pointer to an object it owns a GcRoot of, or, in       *)
(* a.set(b.get()), a copy of the pointer in another cell.                  *)
(***************************************************************************)
InCells(t) == UNION {Successors(o) : o \in HeldBy(t) \ NoTrace}

NewValues(t) ==
  UNION {IF "set"      \in Calls[t] THEN HeldBy(t) ELSE {},
         IF "set_leaf" \in Calls[t] THEN HeldBy(t) \cap NoTrace ELSE {},
         IF "move"     \in Calls[t] THEN InCells(t) ELSE {},
         IF "clear"    \in Calls[t] THEN {Null} ELSE {}}

CellSet(t) ==
  /\ \E o \in HeldBy(t) \ NoTrace, f \in Fields, v \in NewValues(t) :
       SetLocal(t, [local[t] EXCEPT !.op = "set",
                                    !.current = o,
                                    !.field = f,
                                    !.value = v])
  /\ Goto(t, "ready", "busy_check")
  /\ n_busy_marking' = n_busy_marking + 1
  /\ UNCHANGED <<phase, listVars, objectVars, gray_queue, counterVars,
                 bg_thread, handles>>

\* Variant for a mutation test: the value is not shaded.
CellShadeSkipped(t) ==
  /\ Goto(t, "shade", "shade_merge")
  /\ UNCHANGED <<phase, listVars, objectVars, gray_queue, n_busy_marking,
                 counterVars, bg_thread, handles, local>>

CellShade(t) ==
  LET v == local[t].value
  IN  /\ Goto(t, "shade", "shade_merge")
      /\ color' = MarkColor(v)
      /\ SetLocal(t, [local[t] EXCEPT !.tracer = MarkTracer(@, v)])
      /\ UNCHANGED <<phase, listVars, root_count, ref, mem, gray_queue,
                     n_busy_marking, counterVars, bg_thread, handles>>

CellMergeWork(t) ==
  /\ Goto(t, "shade_merge", "busy_dec")
  /\ gray_queue' = gray_queue \o local[t].tracer
  /\ SetLocal(t, [local[t] EXCEPT !.tracer = <<>>])
  /\ UNCHANGED <<phase, listVars, objectVars, n_busy_marking, counterVars,
                 bg_thread, handles>>

CellStore(t) ==
  /\ Goto(t, "store", "ready")
  /\ ref' = [ref EXCEPT ![local[t].current][local[t].field] = local[t].value]
  /\ SetLocal(t, NoLocals)
  /\ UNCHANGED <<phase, listVars, color, root_count, mem, gray_queue,
                 n_busy_marking, counterVars, bg_thread, handles>>

-----------------------------------------------------------------------------

(***************************************************************************)
(* GcCell::get: a copy of the pointer, which keeps nothing alive.          *)
(***************************************************************************)
CellGet(t) ==
  /\ "root" \in Calls[t]
  /\ \E o \in HeldBy(t) \ NoTrace, f \in Fields :
       /\ ref[o][f] # Null
       /\ SetLocal(t, [local[t] EXCEPT !.value = ref[o][f]])
  /\ Goto(t, "ready", "rooting")
  /\ UNCHANGED <<phase, listVars, objectVars, gray_queue, n_busy_marking,
                 counterVars, bg_thread, handles>>

(***************************************************************************)
(* GcPtr::root, an unsafe function: the caller promises that the pointer   *)
(* still points to a live object, so it calls it only if some path of      *)
(* GcRoots and cells leads there.                                          *)
(***************************************************************************)
RootPointer(t) ==
  LET o == local[t].value
  IN  /\ Goto(t, "rooting", "ready")
      /\ o \in Reachable
      /\ handles[t][o] < MaxHandles
      /\ handles' = [handles EXCEPT ![t][o] = @ + 1]
      /\ root_count' = [root_count EXCEPT ![o] = @ + 1]
      /\ SetLocal(t, NoLocals)
      /\ UNCHANGED <<phase, listVars, color, ref, mem, gray_queue,
                     n_busy_marking, counterVars, bg_thread>>

(***************************************************************************)
(* The copied pointer goes out of scope unused.                            *)
(***************************************************************************)
ForgetPointer(t) ==
  /\ Goto(t, "rooting", "ready")
  /\ SetLocal(t, NoLocals)
  /\ UNCHANGED <<phase, listVars, objectVars, gray_queue, n_busy_marking,
                 counterVars, bg_thread, handles>>

-----------------------------------------------------------------------------

(***************************************************************************)
(* Heap::allocation_count, one node of the list at a time.                 *)
(***************************************************************************)
CountLoadHead(t) ==
  /\ "allocation_count" \in Calls[t]
  /\ Goto(t, "ready", "count")
  /\ SetLocal(t, [local[t] EXCEPT !.current = head])
  /\ UNCHANGED <<phase, listVars, objectVars, gray_queue, n_busy_marking,
                 counterVars, bg_thread, handles>>

CountNode(t) ==
  /\ pc[t] = "count"
  /\ \/ /\ local[t].current # Null
        /\ SetLocal(t, [local[t] EXCEPT !.current = next[local[t].current]])
        /\ UNCHANGED pc
     \/ /\ local[t].current = Null
        /\ SetLocal(t, NoLocals)
        /\ pc' = [pc EXCEPT ![t] = "ready"]
  /\ UNCHANGED <<phase, listVars, objectVars, gray_queue, n_busy_marking,
                 counterVars, bg_thread, handles>>

-----------------------------------------------------------------------------

MutatorCall(t) == \/ Allocate(t) \/ CloneRoot(t) \/ DropRoot(t)
                  \/ CellSet(t) \/ CellGet(t) \/ CountLoadHead(t)

MutatorStep(t) == \/ BusyCheck(t) \/ DecrementBusyMarking(t)
                  \/ AllocateBox(t) \/ AllocateLoadHead(t)
                  \/ AllocatePublish(t) \/ AllocateRetry(t)
                  \/ AllocateReturn(t)
                  \/ CellShade(t) \/ CellMergeWork(t) \/ CellStore(t)
                  \/ RootPointer(t) \/ ForgetPointer(t) \/ CountNode(t)

=============================================================================
