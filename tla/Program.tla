------------------------------ MODULE Program -------------------------------
(***************************************************************************)
(* A program with several heaps: the thread-local GcContext of             *)
(* src/src/gc.rs, the Arcs that own a heap, the background thread that     *)
(* owns one of them, and when Drop for Heap runs.                          *)
(*                                                                         *)
(* There are no objects here.  Of a collection only the stores to the      *)
(* phase of the heap are left, each a step of its own; what the cycle does *)
(* between them is the subject of GcHeap.                                  *)
(***************************************************************************)
EXTENDS Naturals, FiniteSets

CONSTANTS
  Heaps,
  Concurrent,   \* those whose options start a background thread
  Threads,      \* application threads
  Calls,        \* the calls each application thread makes
  Null,
  MaxStarts     \* bound on the background threads ever started per heap

ApiCalls == {"context", "arc", "start", "stop", "collect"}

(***************************************************************************)
(* Who may collect a heap: a thread, or a background thread of that heap.  *)
(***************************************************************************)
Collectors == Threads \cup (1..MaxStarts)

ASSUME ProgramAssumption ==
  /\ Concurrent \subseteq Heaps
  /\ Null \notin Heaps
  /\ MaxStarts \in Nat \ {0}
  /\ Threads \cap (1..MaxStarts) = {}
  /\ Calls \in [Threads -> SUBSET ApiCalls]

VARIABLES
  heap,         \* what has become of each Heap
  arcs,         \* the heaps each thread owns an Arc of
  contexts,     \* the GcContexts each thread owns, by heap
  current_ctx,  \* CURRENT_CTX of each thread
  bg_thread,    \* StartStopJoinHandle: counter, and handle (0 is None)
  running,      \* the background threads that have not returned
  joining,      \* the background thread a stop waits for
  phase,        \* Heap.phase
  stage         \* how far each collector is in its cycle of the heap

heapVars   == <<heap, arcs, contexts, running, bg_thread>>
cycleVars  == <<phase, stage>>
threadVars == <<current_ctx, joining>>

vars == <<heapVars, cycleVars, threadVars>>

(***************************************************************************)
(* A collector that has set the phase back once and is going to do so      *)
(* again is "finishing".                                                   *)
(***************************************************************************)
Stage == {"none", "marking", "sweeping", "finishing"}

TypeOK ==
  /\ heap \in [Heaps -> {"unborn", "alive", "dropped"}]
  /\ arcs \in [Threads -> SUBSET Heaps]
  /\ contexts \in [Threads -> SUBSET Heaps]
  /\ current_ctx \in [Threads -> Heaps \cup {Null}]
  /\ bg_thread \in [Heaps -> [counter : 0..MaxStarts, handle : 0..MaxStarts]]
  /\ running \in [Heaps -> SUBSET (1..MaxStarts)]
  /\ joining \in [Threads -> Heaps \X (1..MaxStarts) \cup {<<>>}]
  /\ phase \in [Heaps -> {"Idle", "Marking", "Sweeping"}]
  /\ stage \in [Heaps -> [Collectors -> Stage]]

Init ==
  /\ heap = [h \in Heaps |-> "unborn"]
  /\ arcs = [t \in Threads |-> {}] /\ contexts = [t \in Threads |-> {}]
  /\ current_ctx = [t \in Threads |-> Null]
  /\ bg_thread = [h \in Heaps |-> [counter |-> 0, handle |-> 0]]
  /\ running = [h \in Heaps |-> {}]
  /\ joining = [t \in Threads |-> <<>>]
  /\ phase = [h \in Heaps |-> "Idle"]
  /\ stage = [h \in Heaps |-> [c \in Collectors |-> "none"]]

-----------------------------------------------------------------------------

Uses(t, h) == h \in arcs[t] \cup contexts[t]

Collecting(t) == \E h \in Heaps : stage[h][t] # "none"

(***************************************************************************)
(* The thread is in no call, and may make call c.                          *)
(***************************************************************************)
Ready(t, c) == joining[t] = <<>> /\ ~ Collecting(t) /\ c \in Calls[t]

is_stopped(h, c) == bg_thread[h].handle = 0 \/ bg_thread[h].counter # c

(***************************************************************************)
(* Who owns Arcs after the step.  The heaps that lose their last one are   *)
(* dropped, and then their StartStopJoinHandle is, which takes the handle  *)
(* that is left, if any.                                                   *)
(***************************************************************************)
Own(as, cs, rs) ==
  LET gone == {h \in Heaps : /\ heap[h] = "alive" /\ rs[h] = {}
                             /\ \A t \in Threads : h \notin as[t] \cup cs[t]}
  IN  /\ arcs' = as /\ contexts' = cs /\ running' = rs
      /\ heap' = [h \in Heaps |-> IF h \in gone THEN "dropped" ELSE heap[h]]
      /\ bg_thread' = [h \in Heaps |->
                         IF h \in gone THEN [bg_thread[h] EXCEPT !.handle = 0]
                                       ELSE bg_thread[h]]

(***************************************************************************)
(* GcContext::with_heap moves an Arc into the context and installs it; on  *)
(* a thread that has a context it panics, and the Arc goes with the inner  *)
(* context that was not installed.                                         *)
(***************************************************************************)
Enter(t, h, as) ==
  \/ /\ current_ctx[t] = Null
     /\ Own(as, [contexts EXCEPT ![t] = @ \cup {h}], running)
     /\ current_ctx' = [current_ctx EXCEPT ![t] = h]
  \/ /\ current_ctx[t] # Null
     /\ Own(as, contexts, running)
     /\ UNCHANGED current_ctx

WithHeap(t, h) ==
  /\ Ready(t, "context")
  /\ h \in arcs[t]
  /\ Enter(t, h, [arcs EXCEPT ![t] = @ \ {h}])
  /\ UNCHANGED <<cycleVars, joining>>

(***************************************************************************)
(* Heap::with_options, which starts the background thread, and so          *)
(* GcContext::new and off in two steps.                                    *)
(***************************************************************************)
NewHeap(t, h) ==
  /\ Ready(t, "context")
  /\ heap[h] = "unborn"
  /\ heap' = [heap EXCEPT ![h] = "alive"]
  /\ arcs' = [arcs EXCEPT ![t] = @ \cup {h}]
  /\ \/ /\ h \in Concurrent
        /\ bg_thread' = [bg_thread EXCEPT ![h] = [counter |-> 1, handle |-> 1]]
        /\ running' = [running EXCEPT ![h] = {1}]
     \/ /\ h \notin Concurrent
        /\ UNCHANGED <<bg_thread, running>>
  /\ UNCHANGED <<contexts, cycleVars, threadVars>>

\* Variant for a mutation test: the thread-local pointer is left behind.
DropContextKeepsCurrent(t) ==
  /\ Ready(t, "context")
  /\ \E h \in contexts[t] : Own(arcs, [contexts EXCEPT ![t] = @ \ {h}], running)
  /\ UNCHANGED <<cycleVars, threadVars>>

(***************************************************************************)
(* Drop for GcContext, and of the Arc inside.                              *)
(***************************************************************************)
DropContext(t) ==
  /\ Ready(t, "context")
  /\ \E h \in contexts[t] :
       /\ Own(arcs, [contexts EXCEPT ![t] = @ \ {h}], running)
       /\ current_ctx' = [current_ctx EXCEPT ![t] = IF @ = h THEN Null ELSE @]
  /\ UNCHANGED <<cycleVars, joining>>

(***************************************************************************)
(* Arc::clone(ctx.heap()), kept or moved to another thread, and its drop.  *)
(***************************************************************************)
CloneArc(t, h) ==
  /\ Ready(t, "arc")
  /\ Uses(t, h)
  /\ \E u \in Threads : arcs' = [arcs EXCEPT ![u] = @ \cup {h}]
  /\ UNCHANGED <<heap, contexts, running, bg_thread, cycleVars, threadVars>>

DropArc(t, h) ==
  /\ Ready(t, "arc")
  /\ h \in arcs[t]
  /\ Own([arcs EXCEPT ![t] = @ \ {h}], contexts, running)
  /\ UNCHANGED <<cycleVars, threadVars>>

-----------------------------------------------------------------------------

(***************************************************************************)
(* start_background_collection: the new thread owns an Arc.                *)
(***************************************************************************)
Start(t, h) ==
  LET counter == bg_thread[h].counter + 1
  IN  /\ Ready(t, "start")
      /\ Uses(t, h) /\ h \in Concurrent
      /\ bg_thread[h].handle = 0
      /\ counter <= MaxStarts
      /\ bg_thread' = [bg_thread EXCEPT ![h] = [counter |-> counter,
                                                handle  |-> counter]]
      /\ running' = [running EXCEPT ![h] = @ \cup {counter}]
      /\ UNCHANGED <<heap, arcs, contexts, cycleVars, threadVars>>

\* Variant for a mutation test: the thread is told to stop and not joined.
StopWithoutJoin(t, h) ==
  /\ Ready(t, "stop")
  /\ Uses(t, h)
  /\ bg_thread[h].handle # 0
  /\ bg_thread' = [bg_thread EXCEPT ![h].handle = 0]
  /\ UNCHANGED <<heap, arcs, contexts, running, cycleVars, threadVars>>

\* Variant for a mutation test: there may be no thread to join.
StopUnstarted(t, h) ==
  /\ Ready(t, "stop")
  /\ Uses(t, h)
  /\ bg_thread' = [bg_thread EXCEPT ![h].handle = 0]
  /\ joining' = [joining EXCEPT ![t] = <<h, bg_thread[h].handle>>]
  /\ UNCHANGED <<heap, arcs, contexts, running, cycleVars, current_ctx>>

(***************************************************************************)
(* stop_background_collection, through a reference that keeps the heap,    *)
(* takes the handle; the thread then waits for the background thread.      *)
(***************************************************************************)
Stop(t, h) ==
  /\ Ready(t, "stop")
  /\ Uses(t, h)
  /\ bg_thread[h].handle # 0
  /\ bg_thread' = [bg_thread EXCEPT ![h].handle = 0]
  /\ joining' = [joining EXCEPT ![t] = <<h, bg_thread[h].handle>>]
  /\ UNCHANGED <<heap, arcs, contexts, running, cycleVars, current_ctx>>

Join(t) ==
  /\ joining[t] # <<>>
  /\ joining[t][2] \notin running[joining[t][1]]
  /\ joining' = [joining EXCEPT ![t] = <<>>]
  /\ UNCHANGED <<heapVars, cycleVars, current_ctx>>

\* Variant for a mutation test: the thread also returns in mid-cycle.
BackgroundExitAnytime(h, b) ==
  /\ is_stopped(h, b)
  /\ Own(arcs, contexts, [running EXCEPT ![h] = @ \ {b}])
  /\ UNCHANGED <<cycleVars, threadVars>>

(***************************************************************************)
(* background_gc_thread returns between two cycles and gives its Arc back. *)
(***************************************************************************)
BackgroundExit(h, b) ==
  /\ is_stopped(h, b)
  /\ stage[h][b] = "none"
  /\ Own(arcs, contexts, [running EXCEPT ![h] = @ \ {b}])
  /\ UNCHANGED <<cycleVars, threadVars>>

-----------------------------------------------------------------------------

(***************************************************************************)
(* Collector c goes on to another stage, and stores the phase.             *)
(***************************************************************************)
Advance(h, c, from, to, p) ==
  /\ stage[h][c] = from
  /\ stage' = [stage EXCEPT ![h][c] = to]
  /\ phase' = [phase EXCEPT ![h] = p]

(***************************************************************************)
(* try_start_marking is won; who loses it has no cycle.                    *)
(***************************************************************************)
TryStartMarking(h, c) ==
  /\ phase[h] = "Idle"
  /\ Advance(h, c, "none", "marking", "Marking")
  /\ UNCHANGED <<heapVars, threadVars>>

(***************************************************************************)
(* do_sweep begins with start_sweeping and ends with finish_gc, and        *)
(* sweep_and_finish calls finish_gc again.                                 *)
(***************************************************************************)
StartSweeping(h, c) ==
  /\ Advance(h, c, "marking", "sweeping", "Sweeping")
  /\ UNCHANGED <<heapVars, threadVars>>

FinishSweep(h, c) ==
  /\ Advance(h, c, "sweeping", "finishing", "Idle")
  /\ UNCHANGED <<heapVars, threadVars>>

FinishGc(h, c) ==
  /\ Advance(h, c, "finishing", "none", "Idle")
  /\ UNCHANGED <<heapVars, threadVars>>

Cycle(h, c) == StartSweeping(h, c) \/ FinishSweep(h, c) \/ FinishGc(h, c)

\* Variant for a mutation test: the phase is not given back.
BackgroundAbortMarking(h, b) ==
  /\ is_stopped(h, b)
  /\ Advance(h, b, "marking", "none", phase[h])
  /\ Own(arcs, contexts, [running EXCEPT ![h] = @ \ {b}])
  /\ UNCHANGED threadVars

(***************************************************************************)
(* The background thread sees in the mark phase that it is stopped, gives  *)
(* the cycle up and returns.                                               *)
(***************************************************************************)
BackgroundAbort(h, b) ==
  /\ is_stopped(h, b)
  /\ Advance(h, b, "marking", "none", "Idle")
  /\ Own(arcs, contexts, [running EXCEPT ![h] = @ \ {b}])
  /\ UNCHANGED threadVars

(***************************************************************************)
(* force_collect, through a reference that keeps the heap.                 *)
(***************************************************************************)
ForceCollect(t, h) ==
  /\ Ready(t, "collect")
  /\ Uses(t, h)
  /\ TryStartMarking(h, t)

-----------------------------------------------------------------------------

ThreadStep(t) ==
  \/ DropContext(t) \/ Join(t)
  \/ \E h \in Heaps :
       \/ NewHeap(t, h) \/ WithHeap(t, h) \/ CloneArc(t, h) \/ DropArc(t, h)
       \/ Start(t, h) \/ Stop(t, h)
       \/ ForceCollect(t, h) \/ Cycle(h, t)

BackgroundStep(h, b) == \/ BackgroundExit(h, b) \/ BackgroundAbort(h, b)
                        \/ TryStartMarking(h, b) \/ Cycle(h, b)

Next == \/ \E t \in Threads : ThreadStep(t)
        \/ \E h \in Heaps : \E b \in running[h] : BackgroundStep(h, b)

Spec == Init /\ [][Next]_vars

-----------------------------------------------------------------------------

(***************************************************************************)
(* A thread has at most one GcContext, and CURRENT_CTX is that one: the    *)
(* pointer with_current_context follows is never stale, also after a       *)
(* second context was refused and dropped.                                 *)
(***************************************************************************)
CurrentIsTheContext ==
  \A t \in Threads : contexts[t] = {current_ctx[t]} \ {Null}

(***************************************************************************)
(* A heap is alive exactly as long as some thread owns an Arc or a context *)
(* of it, or its background thread runs and was not told to stop.  So none *)
(* is dropped before its last user is gone, and a thread that was stopped  *)
(* keeps none alive: stop joins it, so its Arc is gone before the caller   *)
(* can give up its own.  A thread nobody stops keeps its heap for good.    *)
(***************************************************************************)
AliveWhileUsed ==
  \A h \in Heaps :
    heap[h] = "alive" <=> \/ \E t \in Threads : Uses(t, h)
                         \/ bg_thread[h].handle \in running[h]

(***************************************************************************)
(* A heap nobody is collecting can be collected: the phase is Idle again,  *)
(* however many collectors were in it and whichever gave its cycle up.     *)
(***************************************************************************)
PhaseIsGivenBack ==
  \A h \in Heaps :
    (\A c \in Collectors : stage[h][c] = "none") => phase[h] = "Idle"

(***************************************************************************)
(* Drop for Heap walks the list while nobody else can: no background       *)
(* thread is left to be joined by the drop of the StartStopJoinHandle, and *)
(* nobody has a cycle of the heap in hand, not even one that another's     *)
(* second finish_gc has let in; so the last Arc is never dropped by a      *)
(* background thread that would have to join itself.                       *)
(***************************************************************************)
DropIsQuiet ==
  [][\A h \in Heaps : heap[h] = "alive" /\ heap'[h] = "dropped" =>
       /\ bg_thread[h].handle = 0
       /\ running[h] = {}
       /\ \A c \in Collectors : stage[h][c] = "none"]_vars

=============================================================================
